------------------------------- MODULE Commands -------------------------------
(***************************************************************************)
(* The commands the daemon launches, from fork to wait: ind_comm.c, with    *)
(* the turns of the loop of ind_engi.c and the signals of ind_sign.c that   *)
(* drive it.  Each command is a process of its own; it writes to two pipes  *)
(* of bounded capacity, ends when it likes, and the signals of two deaths   *)
(* may be merged into one.                                                  *)
(*                                                                          *)
(* A command is named by the rank of its launch, which stands for its pid.  *)
(* It writes packets: pipe2(O_DIRECT) makes one read return one write.  A   *)
(* packet is one line, or a part of a line that does not end in it; packets *)
(* of several lines or of more than 255 bytes are not modelled.             *)
(***************************************************************************)
EXTENDS Naturals, Sequences

CONSTANTS MaxLaunches,  \* bound: launches the events lead to
          PoolSize,     \* static entries (cmd_firstfree)
          MaxEntries,   \* static entries and those malloc can still give
          PipeCap,      \* packets a pipe holds
          Plans,        \* what a command may write: sequences of packets
          MaxReloads,   \* bound: SIGUSR1 received
          MaxFailures   \* bound: launches in which pipe2, fork or malloc fails

Commands == 1 .. MaxLaunches
Entries == 1 .. MaxEntries
Streams == {"E", "S"}          \* standard error, standard output
Packets == [to : Streams, line : BOOLEAN]

ASSUME CommandsAssumption ==
  /\ MaxLaunches \in Nat
  /\ PoolSize \in Nat
  /\ MaxEntries \in Nat
  /\ PoolSize <= MaxEntries
  /\ PipeCap \in Nat \ {0}
  /\ Plans \subseteq Seq(Packets)
  /\ MaxReloads \in Nat
  /\ MaxFailures \in Nat

VARIABLES pc,            \* where the daemon is in a turn of its loop
          revents,       \* what poll returned
          cmd_runnings,  \* the entries of the running commands, newest first
          cmd_freelist,  \* the free entries, next one first
          brk,           \* entries that exist: static and malloc'ed ones
          cmd_runcnt,    \* length of cmd_runnings, as the code counts it
          entry,         \* pid, bufE and bufS of each entry
          fds,           \* pipe ends the daemon has open
          log,           \* the lines logged for each command and stream
          raised, done,  \* events that need a launch: raised, and handled
          sigchld,       \* SIGCHLD is pending
          sigusr1,       \* SIGUSR1 is pending
          reloads,       \* SIGUSR1 received so far
          failures,      \* launches in which something failed so far
          child,         \* kernel: state of the process of each command
          plan,          \* what each command writes, chosen when it starts
          wrote,         \* packets of its plan it has written
          pipe           \* kernel: the packets in each command's pipes

daemon == <<cmd_runnings, cmd_freelist, brk, cmd_runcnt, entry, fds, log>>
process == <<child, plan, wrote, pipe>>
signals == <<sigchld, sigusr1, reloads>>
vars == <<pc, revents, daemon, raised, done, failures, signals, process>>

Empty == [s \in Streams |-> <<>>]
Unused == [pid |-> 0, buf |-> Empty]
NothingReady == [out |-> {}, evt |-> FALSE, sig |-> FALSE]

Init ==
  /\ pc = "poll"
  /\ revents = NothingReady
  /\ cmd_runnings = <<>>
  /\ cmd_freelist = [i \in 1 .. PoolSize |-> i]
  /\ brk = PoolSize
  /\ cmd_runcnt = 0
  /\ entry = [c \in Entries |-> Unused]
  /\ fds = {}
  /\ log = [p \in Commands |-> Empty]
  /\ raised = 0 /\ done = 0 /\ failures = 0
  /\ sigchld = FALSE /\ sigusr1 = FALSE /\ reloads = 0
  /\ child = [p \in Commands |-> "none"]
  /\ plan = [p \in Commands |-> <<>>]
  /\ wrote = [p \in Commands |-> 0]
  /\ pipe = [p \in Commands |-> Empty]

-----------------------------------------------------------------------------
(* The loop: poll on the pipes of the running commands, the inotify and the *)
(* signal descriptors.  A poll that finds nothing but closed pipes does     *)
(* nothing and comes back here.                                             *)
Readable == {r \in Entries \X Streams :
               /\ \E i \in DOMAIN cmd_runnings : cmd_runnings[i] = r[1]
               /\ pipe[entry[r[1]].pid][r[2]] # <<>>}

Ready == [out |-> Readable, evt |-> done < raised, sig |-> sigchld \/ sigusr1]

Poll ==
  /\ pc = "poll"
  /\ Ready # NothingReady
  /\ revents' = Ready
  /\ pc' = "log"
  /\ UNCHANGED <<daemon, raised, done, failures, signals, process>>

(* The first readable pipe, in the order in_cmd_count lists them.           *)
First(r) ==
  \E i \in DOMAIN cmd_runnings :
    /\ r[1] = cmd_runnings[i]
    /\ r[2] = "S" => <<r[1], "E">> \notin revents.out
    /\ \A j \in 1 .. i - 1, s \in Streams : <<cmd_runnings[j], s>> \notin revents.out

(* Mistake: what is read from standard output goes to bufE.                 *)
ReadToOneBuffer(c, s) ==
  LET p == entry[c].pid
      m == Head(pipe[p][s])
      ends == plan[m.by][m.n].line
  IN  /\ pipe' = [pipe EXCEPT ![p][s] = Tail(@)]
      /\ log' = IF ends THEN [log EXCEPT ![p][s] = Append(@, Append(entry[c].buf.E, m))]
                        ELSE log
      /\ entry' = [entry EXCEPT ![c].buf.E = IF ends THEN <<>> ELSE <<m>>]

(* Mistake: the end of the line is not looked for.                          *)
ReadEndless(c, s) ==
  LET p == entry[c].pid
      m == Head(pipe[p][s])
  IN  /\ pipe' = [pipe EXCEPT ![p][s] = Tail(@)]
      /\ entry' = [entry EXCEPT ![c].buf[s] = <<m>>]
      /\ UNCHANGED log

(* cmd_do_log: one read.  A line is logged after what the buffer holds; the *)
(* part of a line replaces what the buffer holds.                           *)
Read(c, s) ==
  LET p == entry[c].pid
      m == Head(pipe[p][s])
      ends == plan[m.by][m.n].line
  IN  /\ pipe' = [pipe EXCEPT ![p][s] = Tail(@)]
      /\ log' = IF ends THEN [log EXCEPT ![p][s] = Append(@, Append(entry[c].buf[s], m))]
                        ELSE log
      /\ entry' = [entry EXCEPT ![c].buf[s] = IF ends THEN <<>> ELSE <<m>>]

(* The next step of the turn; what poll returned is needed no longer than   *)
(* the turn lasts.                                                          *)
Goto(l) ==
  /\ pc' = l
  /\ revents' = IF l = "poll" THEN NothingReady ELSE [revents EXCEPT !.out = {}]

AfterEvents == IF revents.sig THEN "signals" ELSE "poll"
AfterLog == IF revents.evt THEN "events" ELSE AfterEvents

(* in_cmd_log: stp stays set once a pipe was read, so that one turn of the  *)
(* loop reads one packet, of the newest command that has something to read. *)
Log ==
  /\ pc = "log"
  /\ Goto(AfterLog)
  /\ \/ \E r \in revents.out : First(r) /\ Read(r[1], r[2])
     \/ revents.out = {} /\ UNCHANGED <<log, entry, pipe>>
  /\ UNCHANGED <<cmd_runnings, cmd_freelist, brk, cmd_runcnt, fds, raised, done, failures, signals>>
  /\ UNCHANGED <<child, plan, wrote>>

-----------------------------------------------------------------------------
(* in_events_process, up to the launches: it handles events until none is   *)
(* left, those raised meanwhile included.                                   *)
EventsDone ==
  /\ pc = "events"
  /\ done = raised
  /\ Goto(AfterEvents)
  /\ UNCHANGED <<daemon, raised, done, failures, signals, process>>

Started(p, w) ==
  /\ child' = [child EXCEPT ![p] = "running"]
  /\ plan' = [plan EXCEPT ![p] = w]
  /\ UNCHANGED <<wrote, pipe>>

Track(p, c) ==
  /\ cmd_runnings' = <<c>> \o cmd_runnings
  /\ entry' = [entry EXCEPT ![c] = [pid |-> p, buf |-> Empty]]
  /\ cmd_runcnt' = cmd_runcnt + 1
  /\ fds' = fds \cup {<<p, s, "r">> : s \in Streams}
  /\ UNCHANGED log

(* Mistake: cmd_freelist still points to the entry that was taken.          *)
TakeFreeAndKeep(p) ==
  /\ cmd_freelist # <<>>
  /\ Track(p, Head(cmd_freelist))
  /\ UNCHANGED <<cmd_freelist, brk>>

TakeFree(p) ==
  /\ cmd_freelist # <<>>
  /\ Track(p, Head(cmd_freelist))
  /\ cmd_freelist' = Tail(cmd_freelist)
  /\ UNCHANGED brk

(* Mistake: what malloc returns is not tested.                              *)
TakeUntested(p) ==
  /\ cmd_freelist = <<>>
  /\ \/ brk < MaxEntries /\ brk' = brk + 1 /\ Track(p, brk + 1)
     \/ UNCHANGED brk /\ Track(p, 0)
  /\ UNCHANGED cmd_freelist

TakeNew(p) ==
  /\ cmd_freelist = <<>>
  /\ brk < MaxEntries
  /\ Track(p, brk + 1)
  /\ brk' = brk + 1
  /\ UNCHANGED cmd_freelist

(* Both pipes and the process are there: the command is followed.  It is    *)
(* not when no entry is free and malloc fails, which it may always do: the  *)
(* pipes are closed and the command runs on.                                *)
Followed(p) ==
  /\ TakeFree(p) \/ TakeNew(p)
  /\ \E w \in Plans : Started(p, w)

NotFollowed(p) ==
  /\ cmd_freelist = <<>>
  /\ Started(p, <<>>)
  /\ UNCHANGED daemon

(* A pipe could not be made: the command runs, nothing of it is followed,   *)
(* and the write end of the other pipe stays open.                          *)
PipeFails(p) ==
  /\ \E made \in SUBSET Streams :
       /\ made # Streams
       /\ fds' = fds \cup {<<p, s, "w">> : s \in made}
  /\ Started(p, <<>>)
  /\ UNCHANGED <<cmd_runnings, cmd_freelist, brk, cmd_runcnt, entry, log>>

(* No process could be forked, ten times: both ends of the pipes stay open. *)
(* The search for another action of the directory goes on; it finds none    *)
(* here, Events models it.                                                  *)
ForkFails(p) ==
  /\ \E made \in SUBSET Streams : fds' = fds \cup ({p} \X made \X {"r", "w"})
  /\ UNCHANGED <<cmd_runnings, cmd_freelist, brk, cmd_runcnt, entry, log, process>>

Launch ==
  /\ pc = "events"
  /\ done < raised
  /\ done' = done + 1
  /\ \/ Followed(done + 1) /\ UNCHANGED failures
     \/ /\ NotFollowed(done + 1) \/ PipeFails(done + 1) \/ ForkFails(done + 1)
        /\ failures < MaxFailures
        /\ failures' = failures + 1
  /\ UNCHANGED <<pc, revents, raised, signals>>

-----------------------------------------------------------------------------
(* in_cmd_exited: what the buffers hold is logged, the entry is unlinked    *)
(* and freed, the pipes are closed with whatever is still in them.          *)
Flush(c) == [s \in Streams |->
               IF entry[c].buf[s] = <<>> THEN log[entry[c].pid][s]
                                         ELSE Append(log[entry[c].pid][s], entry[c].buf[s])]

(* Mistake: the pipe of standard output is not closed.                      *)
ForgetOpen(i) ==
  LET c == cmd_runnings[i]
      p == entry[c].pid
  IN  /\ log' = [log EXCEPT ![p] = Flush(c)]
      /\ cmd_runnings' = SubSeq(cmd_runnings, 1, i - 1) \o SubSeq(cmd_runnings, i + 1, Len(cmd_runnings))
      /\ fds' = fds \ {<<p, "E", "r">>}
      /\ pipe' = [pipe EXCEPT ![p] = Empty]
      /\ entry' = [entry EXCEPT ![c] = Unused]
      /\ cmd_freelist' = <<c>> \o cmd_freelist
      /\ cmd_runcnt' = cmd_runcnt - 1
      /\ UNCHANGED brk

(* Mistake: what the buffers hold is not logged.                            *)
ForgetUnflushed(i) ==
  LET c == cmd_runnings[i]
      p == entry[c].pid
  IN  /\ cmd_runnings' = SubSeq(cmd_runnings, 1, i - 1) \o SubSeq(cmd_runnings, i + 1, Len(cmd_runnings))
      /\ fds' = fds \ {<<p, s, "r">> : s \in Streams}
      /\ pipe' = [pipe EXCEPT ![p] = Empty]
      /\ entry' = [entry EXCEPT ![c] = Unused]
      /\ cmd_freelist' = <<c>> \o cmd_freelist
      /\ cmd_runcnt' = cmd_runcnt - 1
      /\ UNCHANGED <<log, brk>>

Forget(i) ==
  LET c == cmd_runnings[i]
      p == entry[c].pid
  IN  /\ log' = [log EXCEPT ![p] = Flush(c)]
      /\ cmd_runnings' = SubSeq(cmd_runnings, 1, i - 1) \o SubSeq(cmd_runnings, i + 1, Len(cmd_runnings))
      /\ fds' = fds \ {<<p, s, "r">> : s \in Streams}
      /\ pipe' = [pipe EXCEPT ![p] = Empty]
      /\ entry' = [entry EXCEPT ![c] = Unused]
      /\ cmd_freelist' = <<c>> \o cmd_freelist
      /\ cmd_runcnt' = cmd_runcnt - 1
      /\ UNCHANGED brk

Exited(p) ==
  \/ \E i \in DOMAIN cmd_runnings :
       /\ entry[cmd_runnings[i]].pid = p
       /\ \A j \in 1 .. i - 1 : entry[cmd_runnings[j]].pid # p
       /\ Forget(i)
  \/ /\ \A i \in DOMAIN cmd_runnings : entry[cmd_runnings[i]].pid # p
     /\ UNCHANGED <<daemon, pipe>>

(* in_signal_process.  SIGUSR1 leaves it by longjmp, wherever it is: the    *)
(* inotify descriptor is made anew, with the events nobody read dropped;    *)
(* the commands and the signals still pending remain.                       *)
Reload ==
  /\ pc = "signals"
  /\ sigusr1
  /\ sigusr1' = FALSE
  /\ done' = raised
  /\ Goto("poll")
  /\ UNCHANGED <<daemon, raised, failures, sigchld, reloads, process>>

ReadSigchld ==
  /\ pc = "signals"
  /\ sigchld
  /\ sigchld' = FALSE
  /\ Goto("reap")
  /\ UNCHANGED <<daemon, raised, done, failures, sigusr1, reloads, process>>

SignalsDone ==
  /\ pc = "signals"
  /\ ~sigchld
  /\ ~sigusr1
  /\ Goto("poll")
  /\ UNCHANGED <<daemon, raised, done, failures, signals, process>>

Dead == {p \in Commands : child[p] = "zombie"}

(* Mistake: one wait for each SIGCHLD.                                      *)
ReapOne ==
  /\ pc = "reap"
  /\ \E p \in Dead :
       /\ Exited(p)
       /\ child' = [child EXCEPT ![p] = "reaped"]
  /\ Goto("signals")
  /\ UNCHANGED <<raised, done, failures, signals, plan, wrote>>

Reap ==
  /\ pc = "reap"
  /\ \E p \in Dead :
       /\ Exited(p)
       /\ child' = [child EXCEPT ![p] = "reaped"]
  /\ UNCHANGED <<pc, revents, raised, done, failures, signals, plan, wrote>>

NobodyDead ==
  /\ pc = "reap"
  /\ Dead = {}
  /\ Goto("signals")
  /\ UNCHANGED <<daemon, raised, done, failures, signals, process>>

-----------------------------------------------------------------------------
(* The kernel and the commands.                                             *)
Raise ==
  /\ raised < MaxLaunches
  /\ raised' = raised + 1
  /\ UNCHANGED <<pc, revents, daemon, done, failures, signals, process>>

AskReload ==
  /\ reloads < MaxReloads
  /\ reloads' = reloads + 1
  /\ sigusr1' = TRUE
  /\ UNCHANGED <<pc, revents, daemon, raised, done, failures, sigchld, process>>

(* A command writes the next packet of its plan; it waits while the pipe is *)
(* full.                                                                    *)
Write(p) ==
  /\ child[p] = "running"
  /\ wrote[p] < Len(plan[p])
  /\ LET n == wrote[p] + 1
         s == plan[p][n].to
     IN  /\ Len(pipe[p][s]) < PipeCap
         /\ pipe' = [pipe EXCEPT ![p][s] = Append(@, [by |-> p, n |-> n])]
         /\ wrote' = [wrote EXCEPT ![p] = n]
  /\ UNCHANGED <<pc, revents, daemon, raised, done, failures, signals, child, plan>>

Die(p) ==
  /\ child[p] = "running"
  /\ child' = [child EXCEPT ![p] = "zombie"]
  /\ sigchld' = TRUE
  /\ UNCHANGED <<pc, revents, daemon, raised, done, failures, sigusr1, reloads, plan, wrote, pipe>>

(* A command ends by itself when its plan is done; a signal may kill it     *)
(* before.  A write to a pipe nobody reads does: a command that is not      *)
(* followed has no plan.                                                    *)
Finish(p) == wrote[p] = Len(plan[p]) /\ Die(p)
Killed(p) == wrote[p] < Len(plan[p]) /\ Die(p)

Daemon ==
  \/ Poll \/ Log \/ EventsDone \/ Launch
  \/ Reload \/ ReadSigchld \/ SignalsDone \/ Reap \/ NobodyDead

Next ==
  \/ Daemon
  \/ Raise \/ AskReload
  \/ \E p \in Commands : Write(p) \/ Finish(p) \/ Killed(p)

(* The daemon is one process, which runs; a command that can write writes,  *)
(* and one that has done ends.  Nothing is said of signals and events.      *)
Fairness ==
  /\ WF_vars(Daemon)
  /\ \A p \in Commands : WF_vars(Write(p)) /\ WF_vars(Finish(p))

Spec == Init /\ [][Next]_vars
FairSpec == Spec /\ Fairness

-----------------------------------------------------------------------------
Items == [by : Commands, n : Nat]
Buffers == [Streams -> Seq(Items)]

TypeOK ==
  /\ pc \in {"poll", "log", "events", "signals", "reap"}
  /\ revents \in [out : SUBSET (Entries \X Streams), evt : BOOLEAN, sig : BOOLEAN]
  /\ cmd_runnings \in Seq(Entries)
  /\ cmd_freelist \in Seq(Entries)
  /\ brk \in PoolSize .. MaxEntries
  /\ cmd_runcnt \in Nat
  /\ entry \in [Entries -> [pid : Commands \cup {0}, buf : Buffers]]
  /\ fds \subseteq Commands \X Streams \X {"r", "w"}
  /\ log \in [Commands -> [Streams -> Seq(Seq(Items))]]
  /\ raised \in 0 .. MaxLaunches /\ done \in 0 .. raised
  /\ failures \in 0 .. MaxFailures
  /\ sigchld \in BOOLEAN /\ sigusr1 \in BOOLEAN /\ reloads \in 0 .. MaxReloads
  /\ child \in [Commands -> {"none", "running", "zombie", "reaped"}]
  /\ plan \in [Commands -> Plans \cup {<<>>}]
  /\ wrote \in [Commands -> Nat]
  /\ pipe \in [Commands -> Buffers]

(* poll is given 2 * cmd_runcnt descriptors on the stack, and in_cmd_count  *)
(* fills two for each entry of the list (ind_engi.c:82-90,                  *)
(* ind_comm.c:257-280): the count and the list never differ, whatever       *)
(* launches and deaths come in whatever order.                              *)
CountIsLength == cmd_runcnt = Len(cmd_runnings)

(* Every entry is in use or free, at one place, and none is lost; those in  *)
(* use are counted right, and are of different commands, none of them       *)
(* waited for yet (ind_comm.c:98-124 and 287-306).                          *)
NoTwice(t) == \A i, j \in DOMAIN t : t[i] = t[j] => i = j
Tracked(p) == \E i \in DOMAIN cmd_runnings : entry[cmd_runnings[i]].pid = p

EntriesAccounted ==
  /\ CountIsLength
  /\ NoTwice(cmd_runnings \o cmd_freelist)
  /\ {(cmd_runnings \o cmd_freelist)[i] : i \in DOMAIN (cmd_runnings \o cmd_freelist)} = 1 .. brk
  /\ NoTwice([i \in DOMAIN cmd_runnings |-> entry[cmd_runnings[i]].pid])
  /\ \A p \in Commands : Tracked(p) => child[p] \in {"running", "zombie"}

(* The pipe ends the daemon has open are the two read ends of each command  *)
(* it follows, and the leaks of launches that failed: both ends when no     *)
(* process was forked, the write end of the one pipe that was made          *)
(* (ind_comm.c:395-424, 296-297).  Nothing else stays open.                 *)
LeakedByLaunch(f) ==
  \/ child[f[1]] = "none"
  \/ /\ f[3] = "w"
     /\ \E s \in Streams : <<f[1], s, "w">> \notin fds

DescriptorsAccounted ==
  /\ \A f \in fds : IF Tracked(f[1]) THEN f[3] = "r" ELSE LeakedByLaunch(f)
  /\ \A p \in Commands, s \in Streams : Tracked(p) => <<p, s, "r">> \in fds

(* Where the packets of a stream of a command are: in a line that is        *)
(* logged, in the buffer of the entry that follows the command, in its      *)
(* pipe.  A place is a rank among these, a line or an entry, a position.    *)
Places(p, s) ==
  (UNION {{<<1, i, j>> : j \in DOMAIN log[p][s][i]} : i \in DOMAIN log[p][s]})
  \cup (UNION {{<<2, i, j>> : j \in DOMAIN entry[cmd_runnings[i]].buf[s]} :
                 i \in {k \in DOMAIN cmd_runnings : entry[cmd_runnings[k]].pid = p}})
  \cup {<<3, 1, j>> : j \in DOMAIN pipe[p][s]}

At(p, s, x) ==
  CASE x[1] = 1 -> log[p][s][x[2]][x[3]]
    [] x[1] = 2 -> entry[cmd_runnings[x[2]]].buf[s][x[3]]
    [] x[1] = 3 -> pipe[p][s][x[3]]

Before(x, y) ==
  \/ x[1] < y[1]
  \/ x[1] = y[1] /\ x[2] < y[2]
  \/ x[1] = y[1] /\ x[2] = y[2] /\ x[3] < y[3]

(* What is logged for a stream of a command, then what its buffer and its   *)
(* pipe hold, was all written by that command to that stream, in this       *)
(* order, and nothing twice (ind_comm.c:291-292, 314-340 and 349-367).      *)
OutputInOrder ==
  \A p \in Commands, s \in Streams :
    /\ \A x \in Places(p, s) : At(p, s, x).by = p /\ plan[p][At(p, s, x).n].to = s
    /\ \A x, y \in Places(p, s) : Before(x, y) => At(p, s, x).n < At(p, s, y).n

SeenAt(p, s, n) == \E x \in Places(p, s) : At(p, s, x).n = n
BufferedAt(p, s, n) == \E x \in Places(p, s) : x[1] = 2 /\ At(p, s, x).n = n

(* The packet of the plan that follows the n-th one on the same stream, if  *)
(* it too is the part of a line.                                            *)
ReplacedBy(p, s, n) ==
  LET next == {m \in n + 1 .. Len(plan[p]) :
                 /\ plan[p][m].to = s
                 /\ \A l \in n + 1 .. m - 1 : plan[p][l].to # s}
  IN  IF \E m \in next : ~plan[p][m].line THEN CHOOSE m \in next : TRUE ELSE 0

(* While a command is followed, every line it wrote is logged or still in   *)
(* its pipe, and the part of a line is lost only to a part right after it   *)
(* that replaced it in the buffer (ind_comm.c:326-338).                     *)
OutputKept ==
  \A p \in Commands : Tracked(p) =>
    \A n \in 1 .. wrote[p] :
      LET s == plan[p][n].to IN
      IF plan[p][n].line THEN SeenAt(p, s, n) /\ ~BufferedAt(p, s, n)
      ELSE SeenAt(p, s, n) \/ ReplacedBy(p, s, n) \in 1 .. wrote[p]

(* The buffer of a command, empty if it is not followed.                    *)
Follower(p) == CHOOSE i \in DOMAIN cmd_runnings : entry[cmd_runnings[i]].pid = p
Buf(p, s) == IF Tracked(p) THEN entry[cmd_runnings[Follower(p)]].buf[s] ELSE <<>>

(* A stream of a command as the rest of the system sees it.                 *)
PlanOf(p, s, ranks) == {[by |-> p, n |-> k] : k \in {l \in ranks : plan[p][l].to = s}}

Output(p, s) == INSTANCE OutputPromise WITH
  followed <- IF child[p] = "none" THEN "not yet" ELSE IF Tracked(p) THEN "yes" ELSE "no more",
  unsaid <- PlanOf(p, s, wrote[p] + 1 .. Len(plan[p])),
  ends <- PlanOf(p, s, {l \in DOMAIN plan[p] : plan[p][l].line}),
  unread <- pipe[p][s],
  part <- Buf(p, s),
  lines <- log[p][s]

(* Each stream of each command keeps the promise of OutputPromise, whatever *)
(* other commands do, however entries are used again and pipes are read in  *)
(* turn (ind_comm.c:98-124, 287-306, 314-370).                              *)
OutputsPromised ==
  /\ \A p \in Commands, s \in Streams : Output(p, s)!Init
  /\ [][\A p \in Commands, s \in Streams : [Output(p, s)!Next]_(Output(p, s)!vars)]_vars

(* Every command that runs ends and is waited for: none stays blocked on a  *)
(* pipe the daemon does not read any more, none remains a zombie because    *)
(* two deaths made one SIGCHLD or because the configuration was read again  *)
(* while signals were pending (ind_comm.c:342-370, ind_sign.c:92-138).      *)
EveryCommandReaped ==
  \A p \in Commands : child[p] = "running" ~> child[p] = "reaped"
=============================================================================
