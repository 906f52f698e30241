---------------------------- MODULE CommandsProofs ----------------------------
(***************************************************************************)
(* What is proved about Commands, for any number of launches and entries,   *)
(* pipes of any capacity, and commands that write what they like: its       *)
(* invariants, and that each stream keeps the promise of OutputPromise.     *)
(* Then what is proved about OutputLines, for an rbuf of any size and any   *)
(* packet that read can give it.                                            *)
(***************************************************************************)
EXTENDS Commands, OutputLines, SequenceLemmas, TLAPS

(* What is on the two lists of entries.                                     *)
InUse(c) == \E i \in DOMAIN cmd_runnings : cmd_runnings[i] = c
Free(c) == \E i \in DOMAIN cmd_freelist : cmd_freelist[i] = c

Lists ==
  /\ NoTwice(cmd_runnings)
  /\ NoTwice(cmd_freelist)
  /\ \A c \in Entries : ~(InUse(c) /\ Free(c))
  /\ \A c \in Entries : InUse(c) \/ Free(c) <=> c <= brk

(* The entries in use are of different commands, that are not waited for.   *)
Pid(i) == entry[cmd_runnings[i]].pid
Followers ==
  /\ \A i \in DOMAIN cmd_runnings : Pid(i) \in Commands /\ child[Pid(i)] \in {"running", "zombie"}
  /\ \A i, j \in DOMAIN cmd_runnings : Pid(i) = Pid(j) => i = j

(* A process is there only for a launch that was handled.                   *)
Unstarted == \A p \in Commands : child[p] # "none" => p <= done

(* What poll returned is about pipes that still hold something.             *)
Answered == revents.out \subseteq Readable /\ (pc # "log" => revents.out = {})

Inv == TypeOK /\ CountIsLength /\ Lists /\ Followers /\ Unstarted /\ Answered

-----------------------------------------------------------------------------
LEMMA InvInit == Init => Inv
<1> SUFFICES ASSUME Init PROVE Inv
  OBVIOUS
<1>1. PoolSize \in Nat /\ MaxEntries \in Nat /\ PoolSize <= MaxEntries /\ MaxLaunches \in Nat
      /\ MaxFailures \in Nat /\ MaxReloads \in Nat
  BY CommandsAssumption
<1>2. cmd_freelist \in Seq(Entries) /\ DOMAIN cmd_freelist = 1 .. PoolSize
      /\ \A i \in 1 .. PoolSize : cmd_freelist[i] = i
  <2>1. cmd_freelist = [i \in 1 .. PoolSize |-> i]
    BY DEF Init
  <2>2. cmd_freelist \in [1 .. PoolSize -> Entries]
    BY <1>1, <2>1 DEF Entries
  <2>3. cmd_freelist \in Seq(Entries)
    BY <1>1, <2>2, SeqDef
  <2> QED
    BY <2>1, <2>3
<1>3. cmd_runnings = <<>> /\ cmd_runnings \in Seq(Entries) /\ DOMAIN cmd_runnings = {} /\ Len(cmd_runnings) = 0
  BY DEF Init
<1>4. Empty \in Buffers /\ Empty \in [Streams -> Seq(Seq(Items))]
  BY DEF Empty, Buffers
<1>5. TypeOK
  <2>1. entry \in [Entries -> [pid : Commands \cup {0}, buf : Buffers]]
    BY <1>4 DEF Init, Unused
  <2>2. revents \in [out : SUBSET (Entries \X Streams), evt : BOOLEAN, sig : BOOLEAN]
    BY DEF Init, NothingReady
  <2>3. /\ log \in [Commands -> [Streams -> Seq(Seq(Items))]]
        /\ pipe \in [Commands -> Buffers]
        /\ plan \in [Commands -> Plans \cup {<<>>}]
        /\ wrote \in [Commands -> Nat]
    BY <1>4 DEF Init
  <2>4. /\ brk \in PoolSize .. MaxEntries /\ cmd_runcnt \in Nat
        /\ raised \in 0 .. MaxLaunches /\ done \in 0 .. raised
        /\ failures \in 0 .. MaxFailures /\ reloads \in 0 .. MaxReloads
    BY <1>1 DEF Init
  <2>5. /\ pc \in {"poll", "log", "events", "signals", "reap"}
        /\ sigchld \in BOOLEAN /\ sigusr1 \in BOOLEAN
        /\ fds \subseteq Commands \X Streams \X {"r", "w"}
        /\ child \in [Commands -> {"none", "running", "zombie", "reaped"}]
    BY DEF Init
  <2> QED
    BY <1>2, <1>3, <2>1, <2>2, <2>3, <2>4, <2>5 DEF TypeOK
<1>6. Lists
  BY <1>1, <1>2, <1>3 DEF Init, Lists, NoTwice, InUse, Free, Entries
<1> QED
  BY <1>3, <1>5, <1>6 DEF Init, Inv, CountIsLength, Followers, Unstarted, Answered, NothingReady

(* Steps of the daemon between its works, and of the kernel.                *)
LEMMA Walks ==
  ASSUME Inv, NEW l \in {"poll", "events", "signals", "reap"}, Goto(l),
         UNCHANGED <<daemon, raised, failures, reloads, process>>,
         done' \in {done, raised}, sigchld' \in BOOLEAN, sigusr1' \in BOOLEAN
  PROVE  Inv'
<1>1. /\ pc' = l /\ revents'.out = {}
      /\ revents' \in [out : SUBSET (Entries \X Streams), evt : BOOLEAN, sig : BOOLEAN]
  BY DEF Goto, NothingReady, Inv, TypeOK
<1>2. raised \in Nat /\ done \in 0 .. raised /\ done' \in 0 .. raised' /\ done <= done'
  BY CommandsAssumption DEF Inv, TypeOK
<1>3. TypeOK'
  BY <1>1, <1>2 DEF Inv, TypeOK, daemon, process
<1>4. Lists' /\ Followers' /\ CountIsLength'
  BY DEF Inv, Lists, Followers, CountIsLength, NoTwice, InUse, Free, Pid, daemon, process
<1>5. Unstarted'
  BY <1>2, CommandsAssumption DEF Inv, Unstarted, process, Commands
<1> QED
  BY <1>1, <1>3, <1>4, <1>5 DEF Inv, Answered

LEMMA PollStep == Inv /\ Poll => Inv'
<1> SUFFICES ASSUME Inv, Poll PROVE Inv'
  OBVIOUS
<1>1. revents' = Ready /\ Readable' = Readable /\ pc' = "log"
  BY DEF Poll, Readable, daemon, process
<1>2. revents'.out = Readable' /\ revents' \in [out : SUBSET (Entries \X Streams), evt : BOOLEAN, sig : BOOLEAN]
  BY <1>1 DEF Ready, Readable, Inv, TypeOK
<1>3. TypeOK'
  BY <1>1, <1>2 DEF Inv, TypeOK, Poll, daemon, process, signals
<1>4. Lists' /\ Followers' /\ CountIsLength' /\ Unstarted'
  BY DEF Poll, Inv, Lists, Followers, CountIsLength, Unstarted, NoTwice, InUse, Free, Pid, daemon, process
<1> QED
  BY <1>1, <1>2, <1>3, <1>4 DEF Inv, Answered

(* The entry at a place of the list, and its command.                       *)
LEMMA ListedEntry ==
  ASSUME Inv, NEW i \in DOMAIN cmd_runnings
  PROVE  /\ cmd_runnings[i] \in Entries
         /\ Pid(i) \in Commands
         /\ entry[cmd_runnings[i]] \in [pid : Commands \cup {0}, buf : Buffers]
<1>1. cmd_runnings[i] \in Entries
  BY LenProperties, ElementOfSeq DEF Inv, TypeOK
<1> QED
  BY <1>1 DEF Inv, TypeOK, Followers

LEMMA WriteStep == ASSUME Inv, NEW p \in Commands, Write(p) PROVE Inv'
<1> DEFINE n == wrote[p] + 1
           s == plan[p][n].to
           m == [by |-> p, n |-> n]
<1>1. /\ pipe' = [pipe EXCEPT ![p][s] = Append(@, m)]
      /\ wrote' = [wrote EXCEPT ![p] = n]
      /\ child' = child /\ plan' = plan /\ done' = done
      /\ UNCHANGED <<pc, revents, daemon, raised, failures, signals>>
  BY DEF Write
<1>2. n \in Nat /\ m \in Items
  BY DEF Inv, TypeOK, Items
<1>3. pipe' \in [Commands -> Buffers]
      /\ \A q \in Commands, t \in Streams : pipe[q][t] # <<>> => pipe'[q][t] # <<>>
  <2>1. \A q \in Commands, t \in Streams :
          pipe[q][t] \in Seq(Items)
    BY DEF Inv, TypeOK, Buffers
  <2>2. \A q \in Commands, t \in Streams :
          Append(pipe[q][t], m) \in Seq(Items) /\ Append(pipe[q][t], m) # <<>>
    BY <1>2, <2>1, AppendProperties
  <2>3. pipe \in [Commands -> [Streams -> Seq(Items)]]
    BY DEF Inv, TypeOK, Buffers
  <2> QED
    BY <1>1, <2>1, <2>2, <2>3 DEF Buffers
<1>4. TypeOK'
  BY <1>1, <1>2, <1>3 DEF Inv, TypeOK, daemon, signals
<1>5. Lists' /\ Followers' /\ CountIsLength' /\ Unstarted'
  BY <1>1 DEF Inv, Lists, Followers, CountIsLength, Unstarted, NoTwice, InUse, Free, Pid, daemon
<1>6. Readable \subseteq Readable'
  BY <1>1, <1>3, ListedEntry DEF Readable, daemon, Pid
<1> QED
  BY <1>1, <1>4, <1>5, <1>6 DEF Inv, Answered

LEMMA DieStep == ASSUME Inv, NEW p \in Commands, Die(p) PROVE Inv'
<1>1. /\ child[p] = "running" /\ child' = [child EXCEPT ![p] = "zombie"] /\ sigchld' = TRUE
      /\ UNCHANGED <<pc, revents, daemon, raised, done, failures, sigusr1, reloads, plan, wrote, pipe>>
  BY DEF Die
<1>2. TypeOK'
  BY <1>1 DEF Inv, TypeOK, daemon
<1>3. Lists' /\ CountIsLength'
  BY <1>1 DEF Inv, Lists, CountIsLength, NoTwice, InUse, Free, daemon
<1>4. Followers' /\ Unstarted'
  BY <1>1, <1>2 DEF Inv, TypeOK, Followers, Unstarted, Pid, daemon
<1>5. Readable' = Readable
  BY <1>1 DEF Readable, daemon
<1> QED
  BY <1>1, <1>2, <1>3, <1>4, <1>5 DEF Inv, Answered

LEMMA AskStep == Inv /\ (Raise \/ AskReload) => Inv'
<1> SUFFICES ASSUME Inv, Raise \/ AskReload PROVE Inv'
  OBVIOUS
<1>1. /\ UNCHANGED <<pc, revents, daemon, done, failures, sigchld, process>>
      /\ raised' \in 0 .. MaxLaunches /\ raised <= raised'
      /\ sigusr1' \in BOOLEAN /\ reloads' \in 0 .. MaxReloads
  <2>1. CASE Raise
    BY <2>1, CommandsAssumption DEF Raise, Inv, TypeOK, signals
  <2>2. CASE AskReload
    BY <2>2, CommandsAssumption DEF AskReload, Inv, TypeOK
  <2> QED
    BY <2>1, <2>2
<1>2. done' \in 0 .. raised'
  BY <1>1, CommandsAssumption DEF Inv, TypeOK
<1>3. TypeOK'
  BY <1>1, <1>2 DEF Inv, TypeOK, daemon, process
<1>4. Lists' /\ Followers' /\ CountIsLength' /\ Unstarted'
  BY <1>1 DEF Inv, Lists, Followers, CountIsLength, Unstarted, NoTwice, InUse, Free, Pid, daemon, process
<1>5. Readable' = Readable
  BY <1>1 DEF Readable, daemon, process
<1> QED
  BY <1>1, <1>3, <1>4, <1>5 DEF Inv, Answered

-----------------------------------------------------------------------------
(* A packet is read from the pipe of a command that is followed.            *)
LEMMA ReadFrom ==
  ASSUME Inv, NEW r \in revents.out
  PROVE  \E i \in DOMAIN cmd_runnings :
           /\ r[1] = cmd_runnings[i] /\ r[1] \in Entries /\ r[2] \in Streams
           /\ entry[r[1]].pid = Pid(i) /\ Pid(i) \in Commands
           /\ pipe[Pid(i)][r[2]] \in Seq(Items) /\ pipe[Pid(i)][r[2]] # <<>>
<1>1. r \in Readable
  BY DEF Inv, Answered
<1>2. PICK i \in DOMAIN cmd_runnings : cmd_runnings[i] = r[1]
  BY <1>1 DEF Readable
<1>3. r[1] \in Entries /\ r[2] \in Streams /\ pipe[entry[r[1]].pid][r[2]] # <<>>
  BY <1>1 DEF Readable
<1>4. entry[r[1]].pid = Pid(i) /\ Pid(i) \in Commands
  BY <1>2, ListedEntry DEF Pid
<1>5. pipe[Pid(i)][r[2]] \in Seq(Items)
  BY <1>3, <1>4 DEF Inv, TypeOK, Buffers
<1> QED
  BY <1>2, <1>3, <1>4, <1>5

LEMMA ReadType ==
  ASSUME Inv, NEW c \in Entries, NEW s \in Streams, Read(c, s), entry[c].pid \in Commands,
         pipe[entry[c].pid][s] \in Seq(Items), pipe[entry[c].pid][s] # <<>>
  PROVE  /\ pipe' \in [Commands -> Buffers]
         /\ log' \in [Commands -> [Streams -> Seq(Seq(Items))]]
         /\ entry' \in [Entries -> [pid : Commands \cup {0}, buf : Buffers]]
         /\ \A d \in Entries : entry'[d].pid = entry[d].pid
<1> DEFINE p == entry[c].pid
           m == Head(pipe[p][s])
           ends == plan[m.by][m.n].line
<1>1. /\ pipe' = [pipe EXCEPT ![p][s] = Tail(@)]
      /\ log' = IF ends THEN [log EXCEPT ![p][s] = Append(@, Append(entry[c].buf[s], m))] ELSE log
      /\ entry' = [entry EXCEPT ![c].buf[s] = IF ends THEN <<>> ELSE <<m>>]
  BY DEF Read
<1>2. m \in Items /\ Tail(pipe[p][s]) \in Seq(Items)
  BY HeadTailProperties
<1>3. /\ entry[c].buf[s] \in Seq(Items) /\ log[p][s] \in Seq(Seq(Items))
  BY DEF Inv, TypeOK, Buffers
<1>4. /\ Append(entry[c].buf[s], m) \in Seq(Items)
      /\ Append(log[p][s], Append(entry[c].buf[s], m)) \in Seq(Seq(Items))
      /\ (IF ends THEN <<>> ELSE <<m>>) \in Seq(Items)
  <2>1. Append(entry[c].buf[s], m) \in Seq(Items)
    BY <1>2, <1>3, AppendProperties
  <2>2. Append(log[p][s], Append(entry[c].buf[s], m)) \in Seq(Seq(Items))
    BY <1>3, <2>1, AppendProperties
  <2>3. <<>> \in Seq(Items) /\ <<m>> \in Seq(Items)
    BY <1>2
  <2> HIDE DEF m, ends
  <2> QED
    BY <2>1, <2>2, <2>3
<1> HIDE DEF m, ends
<1>5. pipe' \in [Commands -> Buffers]
  BY <1>1, <1>2 DEF Inv, TypeOK, Buffers
<1>6. log' \in [Commands -> [Streams -> Seq(Seq(Items))]]
  BY <1>1, <1>4 DEF Inv, TypeOK
<1>7. entry' \in [Entries -> [pid : Commands \cup {0}, buf : Buffers]]
      /\ \A d \in Entries : entry'[d].pid = entry[d].pid
  <2> DEFINE b == [entry[c].buf EXCEPT ![s] = IF ends THEN <<>> ELSE <<m>>]
  <2>1. entry[c] \in [pid : Commands \cup {0}, buf : Buffers]
    BY DEF Inv, TypeOK
  <2>2. b \in Buffers
    BY <1>4, <2>1 DEF Buffers
  <2>3. entry' = [entry EXCEPT ![c] = [@ EXCEPT !.buf = b]]
    BY <1>1
  <2> HIDE DEF b
  <2> QED
    BY <2>1, <2>2, <2>3 DEF Inv, TypeOK
<1> QED
  BY <1>5, <1>6, <1>7

LEMMA LogStep == Inv /\ Log => Inv'
<1> SUFFICES ASSUME Inv, Log PROVE Inv'
  OBVIOUS
<1>1. /\ UNCHANGED <<cmd_runnings, cmd_freelist, brk, cmd_runcnt, fds, raised, done, failures, signals>>
      /\ UNCHANGED <<child, plan, wrote>>
      /\ pc' \in {"poll", "events", "signals"} /\ revents'.out = {}
      /\ revents' \in [out : SUBSET (Entries \X Streams), evt : BOOLEAN, sig : BOOLEAN]
  BY DEF Log, Goto, AfterLog, AfterEvents, NothingReady, Inv, TypeOK
<1>2. /\ pipe' \in [Commands -> Buffers]
      /\ log' \in [Commands -> [Streams -> Seq(Seq(Items))]]
      /\ entry' \in [Entries -> [pid : Commands \cup {0}, buf : Buffers]]
      /\ \A d \in Entries : entry'[d].pid = entry[d].pid
  <2>1. CASE \E r \in revents.out : First(r) /\ Read(r[1], r[2])
    BY <2>1, ReadFrom, ReadType
  <2>2. CASE UNCHANGED <<log, entry, pipe>>
    BY <2>2 DEF Inv, TypeOK
  <2> QED
    BY <2>1, <2>2 DEF Log
<1>3. TypeOK'
  BY <1>1, <1>2 DEF Inv, TypeOK, signals
<1>4. \A i \in DOMAIN cmd_runnings : Pid(i)' = Pid(i)
  BY <1>1, <1>2, ListedEntry DEF Pid
<1>5. Followers'
  BY <1>1, <1>4 DEF Inv, Followers
<1>6. Lists' /\ CountIsLength' /\ Unstarted'
  BY <1>1 DEF Inv, Lists, CountIsLength, Unstarted, NoTwice, InUse, Free
<1> QED
  BY <1>1, <1>3, <1>5, <1>6 DEF Inv, Answered

-----------------------------------------------------------------------------
(* An entry is taken for a command that is new: from the free list, or from *)
(* malloc.                                                                  *)
LEMMA Taken ==
  ASSUME Inv, NEW p \in Commands, TakeFree(p) \/ TakeNew(p)
  PROVE  \E c \in Entries :
           /\ Track(p, c)
           /\ ~InUse(c)
           /\ Lists'
           /\ cmd_freelist' \in Seq(Entries)
           /\ brk' \in PoolSize .. MaxEntries
           /\ cmd_runnings' \in Seq(Entries)
           /\ Len(cmd_runnings') = Len(cmd_runnings) + 1
           /\ cmd_runnings'[1] = c
           /\ \A k \in DOMAIN cmd_runnings' :
                k = 1 \/ (k - 1 \in DOMAIN cmd_runnings /\ cmd_runnings'[k] = cmd_runnings[k - 1])
           /\ \A k \in DOMAIN cmd_runnings :
                k + 1 \in DOMAIN cmd_runnings' /\ cmd_runnings'[k + 1] = cmd_runnings[k]
<1> DEFINE c == IF cmd_freelist # <<>> THEN Head(cmd_freelist) ELSE brk + 1
<1>1. /\ cmd_runnings \in Seq(Entries) /\ cmd_freelist \in Seq(Entries)
      /\ brk \in PoolSize .. MaxEntries /\ PoolSize \in Nat /\ MaxEntries \in Nat
  BY CommandsAssumption DEF Inv, TypeOK
<1>2. Track(p, c)
  BY DEF TakeFree, TakeNew
<1>3. /\ c \in Entries
      /\ ~InUse(c)
      /\ brk' \in PoolSize .. MaxEntries
      /\ cmd_freelist' \in Seq(Entries)
      /\ NoTwice(cmd_freelist')
      /\ \A d \in Entries : Free(d)' <=> Free(d) /\ d # c
      /\ \A d \in Entries : d <= brk' <=> d <= brk \/ d = c
  <2>1. CASE TakeFree(p)
    <3>1. cmd_freelist # <<>> /\ cmd_freelist' = Tail(cmd_freelist) /\ brk' = brk
      BY <2>1 DEF TakeFree
    <3>2. /\ 1 \in DOMAIN cmd_freelist /\ c = cmd_freelist[1] /\ c \in Entries
          /\ cmd_freelist' \in Seq(Entries)
          /\ \A k \in DOMAIN cmd_freelist' :
               k + 1 \in DOMAIN cmd_freelist /\ cmd_freelist'[k] = cmd_freelist[k + 1]
      BY <1>1, <3>1, PopProperties
    <3>3. Len(cmd_freelist') = Len(cmd_freelist) - 1
      BY <1>1, <3>1, HeadTailProperties
    <3>4. DOMAIN cmd_freelist = 1 .. Len(cmd_freelist) /\ DOMAIN cmd_freelist' = 1 .. Len(cmd_freelist')
          /\ Len(cmd_freelist) \in Nat
      BY <1>1, <3>2, LenProperties
    <3>5. \A k \in DOMAIN cmd_freelist : k = 1 \/ (k - 1 \in DOMAIN cmd_freelist' /\ cmd_freelist[k] = cmd_freelist'[k - 1])
      BY <3>2, <3>3, <3>4
    <3>6. NoTwice(cmd_freelist) /\ Free(c) /\ ~InUse(c) /\ c <= brk
      BY <3>2 DEF Inv, Lists, Free
    <3>7. NoTwice(cmd_freelist')
      BY <3>2, <3>4, <3>6 DEF NoTwice
    <3>8. ASSUME NEW d \in Entries PROVE Free(d)' <=> Free(d) /\ d # c
      <4>1. ASSUME NEW k \in DOMAIN cmd_freelist', cmd_freelist'[k] = d PROVE Free(d) /\ d # c
        <5>1. k + 1 \in DOMAIN cmd_freelist /\ cmd_freelist[k + 1] = d /\ k + 1 # 1
          BY <3>2, <3>4, <4>1
        <5> QED
          BY <3>2, <3>6, <5>1 DEF Free, NoTwice
      <4>2. ASSUME NEW k \in DOMAIN cmd_freelist, cmd_freelist[k] = d, d # c PROVE Free(d)'
        <5>1. k # 1
          BY <3>2, <4>2
        <5> QED
          BY <3>5, <4>2, <5>1 DEF Free
      <4> QED
        BY <4>1, <4>2 DEF Free
    <3> QED
      BY <1>1, <3>1, <3>2, <3>6, <3>7, <3>8
  <2>2. CASE TakeNew(p)
    <3>1. cmd_freelist = <<>> /\ cmd_freelist' = cmd_freelist /\ brk < MaxEntries /\ brk' = brk + 1 /\ c = brk + 1
      BY <2>2 DEF TakeNew
    <3>2. c \in Entries /\ brk' \in PoolSize .. MaxEntries
      BY <1>1, <3>1 DEF Entries
    <3>3. ~InUse(c) /\ ~Free(c)
      BY <1>1, <3>1, <3>2 DEF Inv, Lists
    <3>4. \A d \in Entries : d <= brk' <=> d <= brk \/ d = c
      BY <1>1, <3>1 DEF Entries
    <3> QED
      BY <1>1, <3>1, <3>2, <3>3, <3>4 DEF Inv, Lists, NoTwice, Free
  <2> QED
    BY <2>1, <2>2
<1> HIDE DEF c
<1>4. cmd_runnings' = <<c>> \o cmd_runnings
  BY <1>2 DEF Track
<1>5. /\ cmd_runnings' \in Seq(Entries)
      /\ Len(cmd_runnings') = Len(cmd_runnings) + 1
      /\ cmd_runnings'[1] = c
      /\ \A k \in DOMAIN cmd_runnings' :
           k = 1 \/ (k - 1 \in DOMAIN cmd_runnings /\ cmd_runnings'[k] = cmd_runnings[k - 1])
  BY <1>1, <1>3, <1>4, PushProperties
<1>6. /\ DOMAIN cmd_runnings = 1 .. Len(cmd_runnings) /\ DOMAIN cmd_runnings' = 1 .. Len(cmd_runnings')
      /\ Len(cmd_runnings) \in Nat
  BY <1>1, <1>5, LenProperties
<1>7. \A k \in DOMAIN cmd_runnings :
        k + 1 \in DOMAIN cmd_runnings' /\ cmd_runnings'[k + 1] = cmd_runnings[k]
  BY <1>5, <1>6
<1>8. NoTwice(cmd_runnings')
  BY <1>3, <1>5, <1>6 DEF Inv, Lists, NoTwice, InUse
<1>9. ASSUME NEW d \in Entries PROVE InUse(d)' <=> InUse(d) \/ d = c
  <2>1. 1 \in DOMAIN cmd_runnings'
    BY <1>5, <1>6
  <2>2. ASSUME NEW k \in DOMAIN cmd_runnings', cmd_runnings'[k] = d PROVE InUse(d) \/ d = c
    BY <1>5, <2>2 DEF InUse
  <2>3. ASSUME NEW k \in DOMAIN cmd_runnings, cmd_runnings[k] = d PROVE InUse(d)'
    BY <1>7, <2>3 DEF InUse
  <2> QED
    BY <1>5, <2>1, <2>2, <2>3 DEF InUse
<1>10. Lists'
  BY <1>3, <1>8, <1>9 DEF Inv, Lists
<1> QED
  BY <1>2, <1>3, <1>5, <1>7, <1>10

(* The launch that comes next is of a command nothing was seen of.          *)
LEMMA LaunchedNew ==
  ASSUME Inv, done < raised
  PROVE  /\ done + 1 \in Commands
         /\ child[done + 1] = "none"
         /\ \A i \in DOMAIN cmd_runnings : Pid(i) # done + 1
<1>1. done \in Nat /\ raised \in Nat /\ raised <= MaxLaunches /\ MaxLaunches \in Nat
  BY CommandsAssumption DEF Inv, TypeOK
<1>2. done + 1 \in Commands /\ ~(done + 1 <= done)
  BY <1>1 DEF Commands
<1>3. child[done + 1] = "none"
  BY <1>2 DEF Inv, Unstarted
<1> QED
  BY <1>2, <1>3 DEF Inv, Followers

LEMMA StartedKeeps ==
  ASSUME Inv, NEW p \in Commands, NEW w \in Plans \cup {<<>>}, Started(p, w)
  PROVE  /\ child' \in [Commands -> {"none", "running", "zombie", "reaped"}]
         /\ plan' \in [Commands -> Plans \cup {<<>>}]
         /\ wrote' = wrote /\ pipe' = pipe
         /\ child'[p] = "running" /\ \A q \in Commands \ {p} : child'[q] = child[q]
  BY DEF Started, Inv, TypeOK

LEMMA FollowedStep ==
  ASSUME Inv, NEW p \in Commands, child[p] = "none", Followed(p)
  PROVE  /\ cmd_runnings' \in Seq(Entries) /\ cmd_freelist' \in Seq(Entries)
         /\ brk' \in PoolSize .. MaxEntries /\ cmd_runcnt' \in Nat
         /\ entry' \in [Entries -> [pid : Commands \cup {0}, buf : Buffers]]
         /\ fds' \subseteq Commands \X Streams \X {"r", "w"}
         /\ log' = log
         /\ CountIsLength' /\ Lists' /\ Followers'
<1>1. PICK c \in Entries :
           /\ Track(p, c)
           /\ ~InUse(c)
           /\ Lists'
           /\ cmd_freelist' \in Seq(Entries)
           /\ brk' \in PoolSize .. MaxEntries
           /\ cmd_runnings' \in Seq(Entries)
           /\ Len(cmd_runnings') = Len(cmd_runnings) + 1
           /\ cmd_runnings'[1] = c
           /\ \A k \in DOMAIN cmd_runnings' :
                k = 1 \/ (k - 1 \in DOMAIN cmd_runnings /\ cmd_runnings'[k] = cmd_runnings[k - 1])
  BY Taken DEF Followed
<1>2. PICK w \in Plans : Started(p, w)
  BY DEF Followed
<1>3. /\ child' \in [Commands -> {"none", "running", "zombie", "reaped"}]
      /\ child'[p] = "running" /\ \A q \in Commands \ {p} : child'[q] = child[q]
  BY <1>2, StartedKeeps
<1>4. entry' = [entry EXCEPT ![c] = [pid |-> p, buf |-> Empty]]
  BY <1>1 DEF Track
<1>5. [pid |-> p, buf |-> Empty] \in [pid : Commands \cup {0}, buf : Buffers]
  BY DEF Empty, Buffers
<1>6. /\ entry' \in [Entries -> [pid : Commands \cup {0}, buf : Buffers]]
      /\ entry'[c].pid = p /\ \A d \in Entries \ {c} : entry'[d] = entry[d]
  BY <1>4, <1>5 DEF Inv, TypeOK
<1>7. cmd_runcnt' \in Nat /\ CountIsLength'
  BY <1>1 DEF Inv, TypeOK, CountIsLength, Track
<1>8. fds' \subseteq Commands \X Streams \X {"r", "w"}
  BY <1>1 DEF Inv, TypeOK, Track
<1>9. /\ \A i \in DOMAIN cmd_runnings : Pid(i) \in Commands \ {p}
      /\ \A k \in DOMAIN cmd_runnings' :
           \/ k = 1 /\ Pid(k)' = p
           \/ k # 1 /\ k - 1 \in DOMAIN cmd_runnings /\ Pid(k)' = Pid(k - 1)
  <2>1. \A i \in DOMAIN cmd_runnings : Pid(i) \in Commands \ {p}
    BY DEF Inv, Followers
  <2>2. \A i \in DOMAIN cmd_runnings : cmd_runnings[i] \in Entries \ {c}
    BY <1>1, ListedEntry DEF InUse
  <2> QED
    BY <1>1, <1>6, <2>1, <2>2 DEF Pid
<1>10. Followers'
  <2>1. \A k \in DOMAIN cmd_runnings' : k \in Nat
    BY <1>1, LenProperties
  <2>2. \A i, j \in DOMAIN cmd_runnings' : Pid(i)' = Pid(j)' => i = j
    BY <1>9, <2>1 DEF Inv, Followers
  <2>3. \A i \in DOMAIN cmd_runnings' : Pid(i)' \in Commands /\ child'[Pid(i)'] \in {"running", "zombie"}
    BY <1>3, <1>9 DEF Inv, Followers
  <2> QED
    BY <2>2, <2>3 DEF Followers
<1> QED
  BY <1>1, <1>6, <1>7, <1>8, <1>10 DEF Track

(* What a launch that is not followed leaves.                               *)
LEMMA FailedStep ==
  ASSUME Inv, NEW p \in Commands, NotFollowed(p) \/ PipeFails(p) \/ ForkFails(p)
  PROVE  /\ UNCHANGED <<cmd_runnings, cmd_freelist, brk, cmd_runcnt, entry, log, wrote, pipe>>
         /\ fds' \subseteq Commands \X Streams \X {"r", "w"}
         /\ child' \in [Commands -> {"none", "running", "zombie", "reaped"}]
         /\ plan' \in [Commands -> Plans \cup {<<>>}]
         /\ child'[p] \in {child[p], "running"} /\ \A q \in Commands \ {p} : child'[q] = child[q]
<1>1. CASE NotFollowed(p)
  BY <1>1, StartedKeeps DEF NotFollowed, daemon, Inv, TypeOK
<1>2. CASE PipeFails(p)
  <2>1. fds' \subseteq Commands \X Streams \X {"r", "w"}
    BY <1>2 DEF PipeFails, Inv, TypeOK
  <2> QED
    BY <1>2, <2>1, StartedKeeps DEF PipeFails
<1>3. CASE ForkFails(p)
  <2>1. fds' \subseteq Commands \X Streams \X {"r", "w"}
    BY <1>3 DEF ForkFails, Inv, TypeOK
  <2> QED
    BY <1>3, <2>1 DEF ForkFails, process, Inv, TypeOK
<1> QED
  BY <1>1, <1>2, <1>3

LEMMA LaunchStep == Inv /\ Launch => Inv'
<1> SUFFICES ASSUME Inv, Launch PROVE Inv'
  OBVIOUS
<1> DEFINE p == done + 1
<1>1. /\ pc = "events" /\ done < raised /\ done' = p
      /\ UNCHANGED <<pc, revents, raised, signals>>
  BY DEF Launch
<1>2. p \in Commands /\ child[p] = "none" /\ done' \in 0 .. raised /\ done < done' /\ revents.out = {}
  <2>1. done \in Nat /\ raised \in Nat
    BY CommandsAssumption DEF Inv, TypeOK
  <2> QED
    BY <1>1, <2>1, LaunchedNew DEF Inv, Answered
<1>3. failures' \in 0 .. MaxFailures
  BY CommandsAssumption DEF Launch, Inv, TypeOK
<1>4. /\ Followed(p) \/ NotFollowed(p) \/ PipeFails(p) \/ ForkFails(p)
  BY DEF Launch
<1> HIDE DEF p
<1>5. /\ cmd_runnings' \in Seq(Entries) /\ cmd_freelist' \in Seq(Entries)
      /\ brk' \in PoolSize .. MaxEntries /\ cmd_runcnt' \in Nat
      /\ entry' \in [Entries -> [pid : Commands \cup {0}, buf : Buffers]]
      /\ fds' \subseteq Commands \X Streams \X {"r", "w"}
      /\ log' = log /\ wrote' = wrote /\ pipe' = pipe
      /\ plan' \in [Commands -> Plans \cup {<<>>}]
      /\ child' \in [Commands -> {"none", "running", "zombie", "reaped"}]
      /\ \A q \in Commands \ {p} : child'[q] = child[q]
      /\ CountIsLength' /\ Lists' /\ Followers'
  <2>1. CASE Followed(p)
    <3>1. PICK w \in Plans : Started(p, w)
      BY <2>1 DEF Followed
    <3> QED
      BY <1>2, <2>1, <3>1, FollowedStep, StartedKeeps
  <2>2. CASE NotFollowed(p) \/ PipeFails(p) \/ ForkFails(p)
    <3>1. /\ UNCHANGED <<cmd_runnings, cmd_freelist, brk, cmd_runcnt, entry, log, wrote, pipe>>
          /\ child'[p] \in {child[p], "running"} /\ \A q \in Commands \ {p} : child'[q] = child[q]
      BY <1>2, <2>2, FailedStep
    <3>2. CountIsLength' /\ Lists' /\ Followers'
      BY <1>2, <3>1 DEF Inv, CountIsLength, Lists, Followers, NoTwice, InUse, Free, Pid
    <3> QED
      BY <1>2, <2>2, <3>1, <3>2, FailedStep DEF Inv, TypeOK
  <2> QED
    BY <1>4, <2>1, <2>2
<1>6. TypeOK'
  BY <1>1, <1>2, <1>3, <1>5 DEF Inv, TypeOK, signals
<1>7. Unstarted'
  <2>1. \A q \in Commands : q \in Nat
    BY DEF Commands
  <2>2. done \in Nat /\ done' \in Nat
    BY <1>2, CommandsAssumption DEF Inv, TypeOK
  <2>3. ASSUME NEW q \in Commands, child'[q] # "none" PROVE q <= done'
    <3>1. CASE q = p
      BY <1>1, <2>1, <3>1
    <3>2. CASE q # p
      <4>1. q <= done
        BY <1>5, <2>3, <3>2 DEF Inv, Unstarted
      <4> QED
        BY <1>2, <2>1, <2>2, <4>1
    <3> QED
      BY <3>1, <3>2
  <2> QED
    BY <2>3 DEF Unstarted
<1>8. Answered'
  BY <1>1, <1>2 DEF Answered
<1> QED
  BY <1>5, <1>6, <1>7, <1>8 DEF Inv

-----------------------------------------------------------------------------
(* The entry of a command that was waited for is unlinked and free.         *)
LEMMA Unlinked ==
  ASSUME Inv, NEW i \in DOMAIN cmd_runnings, Forget(i)
  PROVE  LET c == cmd_runnings[i] IN
         /\ cmd_runnings' \in Seq(Entries) /\ Len(cmd_runnings') = Len(cmd_runnings) - 1
         /\ \A k \in DOMAIN cmd_runnings' :
              \E l \in DOMAIN cmd_runnings : /\ l # i /\ cmd_runnings'[k] = cmd_runnings[l]
                                             /\ l = IF k < i THEN k ELSE k + 1
         /\ \A l \in DOMAIN cmd_runnings :
              l # i => \E k \in DOMAIN cmd_runnings' :
                         cmd_runnings'[k] = cmd_runnings[l] /\ k = IF l < i THEN l ELSE l - 1
         /\ cmd_freelist' \in Seq(Entries)
         /\ Lists'
<1> DEFINE c == cmd_runnings[i]
<1>1. /\ cmd_runnings \in Seq(Entries) /\ cmd_freelist \in Seq(Entries) /\ c \in Entries
      /\ Len(cmd_runnings) \in Nat /\ DOMAIN cmd_runnings = 1 .. Len(cmd_runnings)
      /\ Len(cmd_freelist) \in Nat /\ DOMAIN cmd_freelist = 1 .. Len(cmd_freelist)
  BY ListedEntry, LenProperties DEF Inv, TypeOK
<1>2. /\ cmd_runnings' = SubSeq(cmd_runnings, 1, i - 1) \o SubSeq(cmd_runnings, i + 1, Len(cmd_runnings))
      /\ cmd_freelist' = <<c>> \o cmd_freelist
      /\ brk' = brk
  BY DEF Forget
<1>3. /\ cmd_runnings' \in Seq(Entries) /\ Len(cmd_runnings') = Len(cmd_runnings) - 1
      /\ \A k \in DOMAIN cmd_runnings' :
           /\ k < i => k \in DOMAIN cmd_runnings /\ cmd_runnings'[k] = cmd_runnings[k]
           /\ k >= i => k + 1 \in DOMAIN cmd_runnings /\ cmd_runnings'[k] = cmd_runnings[k + 1]
      /\ \A k \in DOMAIN cmd_runnings :
           /\ k < i => k \in DOMAIN cmd_runnings' /\ cmd_runnings'[k] = cmd_runnings[k]
           /\ k > i => k - 1 \in DOMAIN cmd_runnings' /\ cmd_runnings'[k - 1] = cmd_runnings[k]
  <2>1. cmd_runnings \in Seq(Entries)
    BY <1>1
  <2>2. cmd_runnings' = SubSeq(cmd_runnings, 1, i - 1) \o SubSeq(cmd_runnings, i + 1, Len(cmd_runnings))
    BY <1>2
  <2> DEFINE t == SubSeq(cmd_runnings, 1, i - 1) \o SubSeq(cmd_runnings, i + 1, Len(cmd_runnings))
  <2>3. /\ t \in Seq(Entries) /\ Len(t) = Len(cmd_runnings) - 1
        /\ \A k \in DOMAIN t :
             /\ k < i => k \in DOMAIN cmd_runnings /\ t[k] = cmd_runnings[k]
             /\ k >= i => k + 1 \in DOMAIN cmd_runnings /\ t[k] = cmd_runnings[k + 1]
        /\ \A k \in DOMAIN cmd_runnings :
             /\ k < i => k \in DOMAIN t /\ t[k] = cmd_runnings[k]
             /\ k > i => k - 1 \in DOMAIN t /\ t[k - 1] = cmd_runnings[k]
    BY <2>1, WithoutProperties
  <2>4. cmd_runnings' = t
    BY <2>2
  <2> HIDE DEF t
  <2> QED
    BY <2>3, <2>4
<1>4. DOMAIN cmd_runnings' = 1 .. Len(cmd_runnings')
  BY <1>3, LenProperties
<1>5. \A k \in DOMAIN cmd_runnings' :
        \E l \in DOMAIN cmd_runnings : /\ l # i /\ cmd_runnings'[k] = cmd_runnings[l]
                                       /\ l = IF k < i THEN k ELSE k + 1
  BY <1>1, <1>3, <1>4
<1>6. \A l \in DOMAIN cmd_runnings :
        l # i => \E k \in DOMAIN cmd_runnings' :
                   cmd_runnings'[k] = cmd_runnings[l] /\ k = IF l < i THEN l ELSE l - 1
  BY <1>1, <1>3, <1>4
<1> HIDE DEF c
<1>7. /\ cmd_freelist' \in Seq(Entries)
      /\ Len(cmd_freelist') = Len(cmd_freelist) + 1
      /\ cmd_freelist'[1] = c
      /\ \A k \in DOMAIN cmd_freelist' :
           k = 1 \/ (k - 1 \in DOMAIN cmd_freelist /\ cmd_freelist'[k] = cmd_freelist[k - 1])
  BY <1>1, <1>2, PushProperties
<1>8. DOMAIN cmd_freelist' = 1 .. Len(cmd_freelist')
  BY <1>7, LenProperties
<1>9. /\ InUse(c) /\ ~Free(c)
      /\ \A l \in DOMAIN cmd_runnings : cmd_runnings[l] = c => l = i
  BY <1>1 DEF Inv, Lists, NoTwice, InUse, c
<1>10. NoTwice(cmd_freelist')
  BY <1>1, <1>7, <1>8, <1>9 DEF Inv, Lists, NoTwice, Free
<1>11. ASSUME NEW k \in DOMAIN cmd_runnings', NEW l \in DOMAIN cmd_runnings', cmd_runnings'[k] = cmd_runnings'[l]
       PROVE  k = l
  <2>1. (IF k < i THEN k ELSE k + 1) = (IF l < i THEN l ELSE l + 1)
    BY <1>5, <1>11 DEF Inv, Lists, NoTwice
  <2> QED
    BY <1>1, <1>4, <2>1
<1>12. ASSUME NEW d \in Entries PROVE InUse(d)' <=> InUse(d) /\ d # c
  <2>1. ASSUME NEW k \in DOMAIN cmd_runnings', cmd_runnings'[k] = d PROVE InUse(d) /\ d # c
    BY <1>5, <1>9, <2>1 DEF InUse
  <2>2. ASSUME NEW l \in DOMAIN cmd_runnings, cmd_runnings[l] = d, d # c PROVE InUse(d)'
    BY <1>6, <2>2 DEF InUse, c
  <2> QED
    BY <2>1, <2>2 DEF InUse
<1>13. ASSUME NEW d \in Entries PROVE Free(d)' <=> Free(d) \/ d = c
  <2>1. 1 \in DOMAIN cmd_freelist' /\ \A k \in DOMAIN cmd_freelist : k + 1 \in DOMAIN cmd_freelist'
    BY <1>1, <1>7, <1>8
  <2>2. \A k \in DOMAIN cmd_freelist : cmd_freelist'[k + 1] = cmd_freelist[k]
    BY <1>1, <1>7, <2>1
  <2>3. ASSUME NEW k \in DOMAIN cmd_freelist', cmd_freelist'[k] = d PROVE Free(d) \/ d = c
    BY <1>7, <2>3 DEF Free
  <2>4. ASSUME NEW k \in DOMAIN cmd_freelist, cmd_freelist[k] = d PROVE Free(d)'
    BY <2>1, <2>2, <2>4 DEF Free
  <2> QED
    BY <1>7, <2>1, <2>3, <2>4 DEF Free
<1>14. Lists'
  BY <1>2, <1>9, <1>10, <1>11, <1>12, <1>13 DEF Inv, Lists, NoTwice
<1> QED
  BY <1>3, <1>5, <1>6, <1>7, <1>14

LEMMA FlushType ==
  ASSUME Inv, NEW i \in DOMAIN cmd_runnings
  PROVE  Flush(cmd_runnings[i]) \in [Streams -> Seq(Seq(Items))]
<1> DEFINE c == cmd_runnings[i]
<1>1. entry[c] \in [pid : Commands \cup {0}, buf : Buffers] /\ entry[c].pid \in Commands
  BY ListedEntry DEF Pid
<1>2. ASSUME NEW s \in Streams
      PROVE  log[entry[c].pid][s] \in Seq(Seq(Items)) /\ entry[c].buf[s] \in Seq(Items)
  BY <1>1 DEF Inv, TypeOK, Buffers
<1>3. ASSUME NEW s \in Streams
      PROVE  Append(log[entry[c].pid][s], entry[c].buf[s]) \in Seq(Seq(Items))
  BY <1>2, AppendProperties
<1> QED
  BY <1>2, <1>3 DEF Flush

(* The pids of the entries that stay on the list.                           *)
LEMMA ForgetPids ==
  ASSUME Inv, NEW i \in DOMAIN cmd_runnings, Forget(i)
  PROVE  /\ \A k \in DOMAIN cmd_runnings' :
              \E l \in DOMAIN cmd_runnings : /\ l # i /\ cmd_runnings'[k] = cmd_runnings[l]
                                             /\ l = IF k < i THEN k ELSE k + 1
                                             /\ entry'[cmd_runnings'[k]] = entry[cmd_runnings[l]]
                                             /\ Pid(k)' = Pid(l)
         /\ \A l \in DOMAIN cmd_runnings :
              l # i => \E k \in DOMAIN cmd_runnings' :
                         cmd_runnings'[k] = cmd_runnings[l] /\ Pid(k)' = Pid(l)
<1>1. entry' = [entry EXCEPT ![cmd_runnings[i]] = Unused]
  BY DEF Forget
<1>2. \A l \in DOMAIN cmd_runnings : l # i => entry'[cmd_runnings[l]] = entry[cmd_runnings[l]]
  <2>1. ASSUME NEW l \in DOMAIN cmd_runnings, l # i
        PROVE  cmd_runnings[l] # cmd_runnings[i] /\ cmd_runnings[l] \in Entries
    BY <2>1, ListedEntry DEF Inv, Lists, NoTwice
  <2> QED
    BY <1>1, <2>1 DEF Inv, TypeOK
<1>3. ASSUME NEW k \in DOMAIN cmd_runnings'
      PROVE  \E l \in DOMAIN cmd_runnings : /\ l # i /\ cmd_runnings'[k] = cmd_runnings[l]
                                            /\ l = IF k < i THEN k ELSE k + 1
                                            /\ entry'[cmd_runnings'[k]] = entry[cmd_runnings[l]]
                                            /\ Pid(k)' = Pid(l)
  <2>1. PICK l \in DOMAIN cmd_runnings : /\ l # i /\ cmd_runnings'[k] = cmd_runnings[l]
                                         /\ l = IF k < i THEN k ELSE k + 1
    BY Unlinked
  <2> QED
    BY <1>2, <2>1 DEF Pid
<1>4. ASSUME NEW l \in DOMAIN cmd_runnings, l # i
      PROVE  \E k \in DOMAIN cmd_runnings' :
               cmd_runnings'[k] = cmd_runnings[l] /\ Pid(k)' = Pid(l)
  <2>1. PICK k \in DOMAIN cmd_runnings' : cmd_runnings'[k] = cmd_runnings[l]
    BY <1>4, Unlinked
  <2> QED
    BY <1>2, <1>4, <2>1 DEF Pid
<1> QED
  BY <1>3, <1>4

LEMMA ForgetStep ==
  ASSUME Inv, NEW i \in DOMAIN cmd_runnings, Forget(i)
  PROVE  /\ cmd_runnings' \in Seq(Entries) /\ cmd_freelist' \in Seq(Entries)
         /\ brk' = brk /\ cmd_runcnt' \in Nat
         /\ entry' \in [Entries -> [pid : Commands \cup {0}, buf : Buffers]]
         /\ fds' \subseteq fds
         /\ log' \in [Commands -> [Streams -> Seq(Seq(Items))]]
         /\ pipe' \in [Commands -> Buffers]
         /\ CountIsLength' /\ Lists'
         /\ \A k \in DOMAIN cmd_runnings' : Pid(k)' \in Commands \ {Pid(i)} /\ \E l \in DOMAIN cmd_runnings : Pid(k)' = Pid(l)
         /\ \A k, l \in DOMAIN cmd_runnings' : Pid(k)' = Pid(l)' => k = l
<1> DEFINE c == cmd_runnings[i]
           p == entry[c].pid
<1>1. c \in Entries /\ p \in Commands /\ p = Pid(i)
  BY ListedEntry DEF Pid
<1>2. /\ log' = [log EXCEPT ![p] = Flush(c)]
      /\ fds' = fds \ {<<p, s, "r">> : s \in Streams}
      /\ pipe' = [pipe EXCEPT ![p] = Empty]
      /\ entry' = [entry EXCEPT ![c] = Unused]
      /\ cmd_runcnt' = cmd_runcnt - 1
      /\ brk' = brk
  BY DEF Forget
<1>3. cmd_runnings' \in Seq(Entries) /\ cmd_freelist' \in Seq(Entries) /\ Lists'
      /\ Len(cmd_runnings') = Len(cmd_runnings) - 1
  BY Unlinked
<1>4. cmd_runcnt' \in Nat /\ CountIsLength'
  <2>1. Len(cmd_runnings') \in Nat
    BY <1>3, LenProperties
  <2> QED
    BY <1>2, <1>3, <2>1 DEF Inv, CountIsLength
<1>5. Flush(c) \in [Streams -> Seq(Seq(Items))] /\ Empty \in Buffers
  BY FlushType DEF Empty, Buffers
<1>6. Unused \in [pid : Commands \cup {0}, buf : Buffers]
  BY <1>5 DEF Unused
<1>7. /\ entry' \in [Entries -> [pid : Commands \cup {0}, buf : Buffers]]
      /\ log' \in [Commands -> [Streams -> Seq(Seq(Items))]]
      /\ pipe' \in [Commands -> Buffers]
  BY <1>2, <1>5, <1>6 DEF Inv, TypeOK
<1> HIDE DEF c, p
<1>8. ASSUME NEW k \in DOMAIN cmd_runnings'
      PROVE  Pid(k)' \in Commands \ {Pid(i)} /\ \E l \in DOMAIN cmd_runnings : Pid(k)' = Pid(l)
  <2>1. PICK l \in DOMAIN cmd_runnings : l # i /\ Pid(k)' = Pid(l)
    BY ForgetPids
  <2> QED
    BY <2>1 DEF Inv, Followers
<1>9. ASSUME NEW k \in DOMAIN cmd_runnings', NEW l \in DOMAIN cmd_runnings', Pid(k)' = Pid(l)'
      PROVE  k = l
  <2>1. (IF k < i THEN k ELSE k + 1) = (IF l < i THEN l ELSE l + 1)
    BY <1>9, ForgetPids DEF Inv, Followers
  <2>2. k \in Nat /\ l \in Nat /\ i \in Nat
    BY <1>3, LenProperties DEF Inv, TypeOK
  <2> QED
    BY <2>1, <2>2
<1> QED
  BY <1>2, <1>3, <1>4, <1>7, <1>8, <1>9

LEMMA ReapStep == Inv /\ Reap => Inv'
<1> SUFFICES ASSUME Inv, Reap PROVE Inv'
  OBVIOUS
<1>1. PICK p \in Dead : Exited(p) /\ child' = [child EXCEPT ![p] = "reaped"]
  BY DEF Reap
<1>2. /\ pc = "reap" /\ UNCHANGED <<pc, revents, raised, done, failures, signals, plan, wrote>>
      /\ p \in Commands /\ child[p] = "zombie"
  BY DEF Reap, Dead
<1>3. /\ child' \in [Commands -> {"none", "running", "zombie", "reaped"}]
      /\ child'[p] = "reaped" /\ \A q \in Commands \ {p} : child'[q] = child[q]
  BY <1>1, <1>2 DEF Inv, TypeOK
<1>4. CASE \E i \in DOMAIN cmd_runnings : Pid(i) = p /\ Forget(i)
  <2>1. PICK i \in DOMAIN cmd_runnings : Pid(i) = p /\ Forget(i)
    BY <1>4
  <2>2. /\ cmd_runnings' \in Seq(Entries) /\ cmd_freelist' \in Seq(Entries)
        /\ brk' = brk /\ cmd_runcnt' \in Nat
        /\ entry' \in [Entries -> [pid : Commands \cup {0}, buf : Buffers]]
        /\ fds' \subseteq fds
        /\ log' \in [Commands -> [Streams -> Seq(Seq(Items))]]
        /\ pipe' \in [Commands -> Buffers]
        /\ CountIsLength' /\ Lists'
        /\ \A k \in DOMAIN cmd_runnings' : Pid(k)' \in Commands \ {Pid(i)} /\ \E l \in DOMAIN cmd_runnings : Pid(k)' = Pid(l)
        /\ \A k, l \in DOMAIN cmd_runnings' : Pid(k)' = Pid(l)' => k = l
    BY <2>1, ForgetStep
  <2>3. TypeOK'
    BY <1>2, <1>3, <2>2 DEF Inv, TypeOK, signals
  <2>4. Followers'
    BY <1>3, <2>1, <2>2 DEF Inv, Followers
  <2>5. Unstarted'
    BY <1>2, <1>3 DEF Inv, Unstarted
  <2> QED
    BY <1>2, <2>2, <2>3, <2>4, <2>5 DEF Inv, Answered
<1>5. CASE /\ \A i \in DOMAIN cmd_runnings : Pid(i) # p
           /\ UNCHANGED <<daemon, pipe>>
  <2>1. TypeOK'
    BY <1>2, <1>3, <1>5 DEF Inv, TypeOK, signals, daemon
  <2>2. Followers'
    BY <1>3, <1>5 DEF Inv, Followers, Pid, daemon
  <2>3. Unstarted'
    BY <1>2, <1>3 DEF Inv, Unstarted
  <2>4. CountIsLength' /\ Lists'
    BY <1>5 DEF Inv, CountIsLength, Lists, NoTwice, InUse, Free, daemon
  <2> QED
    BY <1>2, <2>1, <2>2, <2>3, <2>4 DEF Inv, Answered
<1> QED
  BY <1>1, <1>4, <1>5 DEF Exited, Pid

LEMMA InvStep == Inv /\ [Next]_vars => Inv'
<1> SUFFICES ASSUME Inv, [Next]_vars PROVE Inv'
  OBVIOUS
<1>1. CASE Daemon
  <2>1. CASE EventsDone
    <3>1. AfterEvents \in {"poll", "events", "signals", "reap"}
      BY DEF AfterEvents
    <3>2. sigchld' \in BOOLEAN /\ sigusr1' \in BOOLEAN
      BY <2>1 DEF EventsDone, signals, Inv, TypeOK
    <3> QED
      BY <2>1, <3>1, <3>2, Walks DEF EventsDone, signals
  <2>2. CASE Reload \/ ReadSigchld \/ SignalsDone \/ NobodyDead
    <3>1. sigchld' \in BOOLEAN /\ sigusr1' \in BOOLEAN
      BY <2>2 DEF Reload, ReadSigchld, SignalsDone, NobodyDead, signals, Inv, TypeOK
    <3> QED
      BY <2>2, <3>1, Walks DEF Reload, ReadSigchld, SignalsDone, NobodyDead, signals
  <2> QED
    BY <1>1, <2>1, <2>2, PollStep, LogStep, LaunchStep, ReapStep DEF Daemon
<1>2. CASE Raise \/ AskReload
  BY <1>2, AskStep
<1>3. ASSUME NEW p \in Commands, Write(p) \/ Finish(p) \/ Killed(p) PROVE Inv'
  BY <1>3, WriteStep, DieStep DEF Finish, Killed
<1>4. CASE UNCHANGED vars
  <2>1. TypeOK'
    BY <1>4 DEF Inv, TypeOK, vars, daemon, process, signals
  <2>2. Lists' /\ Followers' /\ CountIsLength' /\ Unstarted'
    BY <1>4 DEF Inv, Lists, Followers, CountIsLength, Unstarted, NoTwice, InUse, Free, Pid,
                vars, daemon, process
  <2>3. Answered'
    BY <1>4 DEF Inv, Answered, Readable, vars, daemon, process
  <2> QED
    BY <2>1, <2>2, <2>3 DEF Inv
<1> QED
  BY <1>1, <1>2, <1>3, <1>4 DEF Next

LEMMA Invariant == Spec => []Inv
<1> QED
  BY InvInit, InvStep, PTL DEF Spec

-----------------------------------------------------------------------------
(* Every variable has its type: no entry, pipe or log is touched that does  *)
(* not exist (ind_comm.c:98-124 and 349-424).                               *)
THEOREM TypeCorrect == Spec => []TypeOK
<1>1. Inv => TypeOK
  BY DEF Inv
<1> QED
  BY <1>1, Invariant, PTL


(* No entry is lost or at two places; those in use are counted right, and   *)
(* are of different commands that are not waited for (ind_comm.c:98-124 and *)
(* 287-306).                                                                *)
THEOREM EntriesAlways == Spec => []EntriesAccounted
<1>1. Inv => EntriesAccounted
  <2> SUFFICES ASSUME Inv PROVE EntriesAccounted
    OBVIOUS
  <2> DEFINE both == cmd_runnings \o cmd_freelist
  <2>1. /\ cmd_runnings \in Seq(Entries) /\ cmd_freelist \in Seq(Entries)
        /\ Len(cmd_runnings) \in Nat /\ DOMAIN cmd_runnings = 1 .. Len(cmd_runnings)
        /\ Len(cmd_freelist) \in Nat /\ DOMAIN cmd_freelist = 1 .. Len(cmd_freelist)
    BY LenProperties DEF Inv, TypeOK
  <2>2. /\ both \in Seq(Entries) /\ Len(both) = Len(cmd_runnings) + Len(cmd_freelist)
        /\ \A i \in 1 .. Len(cmd_runnings) + Len(cmd_freelist) :
             both[i] = IF i <= Len(cmd_runnings) THEN cmd_runnings[i]
                                                 ELSE cmd_freelist[i - Len(cmd_runnings)]
    BY <2>1, ConcatProperties
  <2>3. DOMAIN both = 1 .. Len(cmd_runnings) + Len(cmd_freelist)
    BY <2>2, LenProperties
  <2> HIDE DEF both
  <2>4. \A i \in DOMAIN both :
          \/ i \in DOMAIN cmd_runnings /\ both[i] = cmd_runnings[i]
          \/ /\ i > Len(cmd_runnings) /\ i - Len(cmd_runnings) \in DOMAIN cmd_freelist
             /\ both[i] = cmd_freelist[i - Len(cmd_runnings)]
    BY <2>1, <2>2, <2>3
  <2>5. \A i \in DOMAIN both : both[i] \in Entries
    BY <2>2, <2>3, ElementOfSeq
  <2>6. NoTwice(both)
    <3> SUFFICES ASSUME NEW i \in DOMAIN both, NEW j \in DOMAIN both, both[i] = both[j] PROVE i = j
      BY DEF NoTwice
    <3>1. CASE i \in DOMAIN cmd_runnings /\ both[i] = cmd_runnings[i]
      <4>1. ~Free(both[i])
        BY <2>5, <3>1 DEF Inv, Lists, InUse
      <4>2. j \in DOMAIN cmd_runnings /\ both[j] = cmd_runnings[j]
        BY <2>4, <4>1 DEF Free
      <4> QED
        BY <3>1, <4>2 DEF Inv, Lists, NoTwice
    <3>2. CASE /\ i > Len(cmd_runnings) /\ i - Len(cmd_runnings) \in DOMAIN cmd_freelist
               /\ both[i] = cmd_freelist[i - Len(cmd_runnings)]
      <4>1. ~InUse(both[i])
        BY <2>5, <3>2 DEF Inv, Lists, Free
      <4>2. /\ j - Len(cmd_runnings) \in DOMAIN cmd_freelist
            /\ both[j] = cmd_freelist[j - Len(cmd_runnings)]
        BY <2>4, <4>1 DEF InUse
      <4>3. i - Len(cmd_runnings) = j - Len(cmd_runnings)
        BY <3>2, <4>2 DEF Inv, Lists, NoTwice
      <4> QED
        BY <2>1, <2>3, <4>3
    <3> QED
      BY <2>4, <3>1, <3>2
  <2>7. {both[i] : i \in DOMAIN both} = 1 .. brk
    <3>1. \A c \in Entries : (\E i \in DOMAIN both : both[i] = c) <=> InUse(c) \/ Free(c)
      <4> SUFFICES ASSUME NEW c \in Entries PROVE (\E i \in DOMAIN both : both[i] = c) <=> InUse(c) \/ Free(c)
        OBVIOUS
      <4>1. ASSUME NEW i \in DOMAIN both, both[i] = c PROVE InUse(c) \/ Free(c)
        BY <2>4, <4>1 DEF InUse, Free
      <4>2. ASSUME NEW i \in DOMAIN cmd_runnings, cmd_runnings[i] = c PROVE i \in DOMAIN both /\ both[i] = c
        BY <2>1, <2>2, <2>3, <4>2
      <4>3. ASSUME NEW j \in DOMAIN cmd_freelist, cmd_freelist[j] = c
            PROVE  \E i \in DOMAIN both : both[i] = c
        <5> DEFINE i == j + Len(cmd_runnings)
        <5>1. i \in DOMAIN both /\ ~(i <= Len(cmd_runnings)) /\ i - Len(cmd_runnings) = j
          BY <2>1, <2>3
        <5>2. both[i] = c
          BY <2>2, <2>3, <4>3, <5>1
        <5> QED
          BY <5>1, <5>2
      <4> QED
        BY <4>1, <4>2, <4>3 DEF InUse, Free
    <3>2. \A c \in Entries : c \in 1 .. brk <=> \E i \in DOMAIN both : both[i] = c
      BY <3>1, CommandsAssumption DEF Inv, Lists, TypeOK, Entries
    <3>3. 1 .. brk \subseteq Entries
      BY CommandsAssumption DEF Inv, TypeOK, Entries
    <3> QED
      BY <2>5, <3>2, <3>3
  <2>8. /\ NoTwice([i \in DOMAIN cmd_runnings |-> entry[cmd_runnings[i]].pid])
        /\ \A p \in Commands : Tracked(p) => child[p] \in {"running", "zombie"}
        /\ CountIsLength
    BY DEF Inv, Followers, Pid, NoTwice, Tracked
  <2> QED
    BY <2>6, <2>7, <2>8 DEF EntriesAccounted, both
<1> QED
  BY <1>1, Invariant, PTL

-----------------------------------------------------------------------------
(* A descriptor is there only for a launch that was handled.                *)
DescriptorsInv ==
  /\ Inv
  /\ DescriptorsAccounted
  /\ \A f \in fds : f[1] <= done

LEMMA DescriptorsOf ==
  ASSUME DescriptorsInv, NEW f \in fds
  PROVE  f[1] \in Commands /\ f[1] \in Nat /\ f[1] <= done
<1>1. f \in Commands \X Streams \X {"r", "w"}
  BY DEF DescriptorsInv, Inv, TypeOK
<1>2. f[1] \in Commands
  BY <1>1
<1> QED
  BY <1>2 DEF DescriptorsInv, Commands

(* Steps that open and close nothing, and neither start nor stop to follow  *)
(* a command.                                                               *)
LEMMA DescriptorsSame ==
  ASSUME DescriptorsInv, Inv', fds' = fds, done <= done',
         \A p \in Commands : Tracked(p)' <=> Tracked(p),
         \A p \in Commands : child'[p] = "none" <=> child[p] = "none"
  PROVE  DescriptorsInv'
<1>1. \A f \in fds : f[1] \in Commands /\ f[1] \in Nat /\ f[1] <= done
  BY DescriptorsOf
<1>2. done \in Nat /\ done' \in Nat
  BY CommandsAssumption DEF DescriptorsInv, Inv, TypeOK
<1>3. \A f \in fds' : f[1] <= done'
  BY <1>1, <1>2
<1>4. \A f \in fds' : LeakedByLaunch(f)' <=> LeakedByLaunch(f)
  BY <1>1 DEF LeakedByLaunch
<1>5. DescriptorsAccounted'
  BY <1>1, <1>4 DEF DescriptorsInv, DescriptorsAccounted
<1> QED
  BY <1>3, <1>5 DEF DescriptorsInv

(* The launch of p opens descriptors of p only, follows no other command    *)
(* and starts no other one.                                                 *)
OnlyOf(p) ==
  /\ fds \subseteq fds'
  /\ \A f \in fds' : f \in fds \/ f[1] = p
  /\ \A q \in Commands \ {p} : (Tracked(q)' <=> Tracked(q)) /\ child'[q] = child[q]

LEMMA DescriptorsAdd ==
  ASSUME DescriptorsInv, Inv', NEW p \in Commands, OnlyOf(p), done' = p, done < p,
         \A f \in fds' : f[1] = p => IF Tracked(p)' THEN f[3] = "r" ELSE LeakedByLaunch(f)',
         \A s \in Streams : Tracked(p)' => <<p, s, "r">> \in fds'
  PROVE  DescriptorsInv'
<1>1. done \in Nat /\ p \in Nat
  BY CommandsAssumption DEF DescriptorsInv, Inv, TypeOK, Commands
<1>2. \A f \in fds' : f[1] <= done'
  BY <1>1, DescriptorsOf DEF OnlyOf
<1>3. ASSUME NEW f \in fds', f[1] # p
      PROVE  IF Tracked(f[1])' THEN f[3] = "r" ELSE LeakedByLaunch(f)'
  <2>1. f \in fds /\ f[1] \in Commands \ {p}
    BY <1>3, DescriptorsOf DEF OnlyOf
  <2>2. (Tracked(f[1])' <=> Tracked(f[1])) /\ child'[f[1]] = child[f[1]]
    BY <2>1 DEF OnlyOf
  <2>3. \A s \in Streams : <<f[1], s, "w">> \in fds' => <<f[1], s, "w">> \in fds
    BY <1>3 DEF OnlyOf
  <2>4. IF Tracked(f[1]) THEN f[3] = "r" ELSE LeakedByLaunch(f)
    BY <2>1 DEF DescriptorsInv, DescriptorsAccounted
  <2> QED
    BY <2>2, <2>3, <2>4 DEF LeakedByLaunch
<1>4. ASSUME NEW q \in Commands, NEW s \in Streams, Tracked(q)'
      PROVE  <<q, s, "r">> \in fds'
  <2>1. CASE q = p
    BY <1>4, <2>1
  <2>2. CASE q # p
    BY <1>4, <2>2 DEF OnlyOf, DescriptorsInv, DescriptorsAccounted
  <2> QED
    BY <2>1, <2>2
<1>5. \A f \in fds' : IF Tracked(f[1])' THEN f[3] = "r" ELSE LeakedByLaunch(f)'
  <2> SUFFICES ASSUME NEW f \in fds' PROVE IF Tracked(f[1])' THEN f[3] = "r" ELSE LeakedByLaunch(f)'
    OBVIOUS
  <2> QED
    BY <1>3
<1> QED
  BY <1>2, <1>4, <1>5 DEF DescriptorsInv, DescriptorsAccounted

(* Which commands are followed after an entry was taken for p.              *)
LEMMA TrackedAfter ==
  ASSUME Inv, NEW p \in Commands, ~Tracked(p), Followed(p)
  PROVE  Tracked(p)' /\ \A q \in Commands \ {p} : Tracked(q)' <=> Tracked(q)
<1>1. PICK c \in Entries :
        /\ Track(p, c) /\ ~InUse(c)
        /\ cmd_runnings'[1] = c /\ cmd_runnings' \in Seq(Entries)
        /\ Len(cmd_runnings') = Len(cmd_runnings) + 1
        /\ \A k \in DOMAIN cmd_runnings' :
             k = 1 \/ (k - 1 \in DOMAIN cmd_runnings /\ cmd_runnings'[k] = cmd_runnings[k - 1])
        /\ \A k \in DOMAIN cmd_runnings :
             k + 1 \in DOMAIN cmd_runnings' /\ cmd_runnings'[k + 1] = cmd_runnings[k]
  BY Taken DEF Followed
<1>2. 1 \in DOMAIN cmd_runnings'
  <2>1. Len(cmd_runnings) \in Nat /\ DOMAIN cmd_runnings' = 1 .. Len(cmd_runnings')
    BY <1>1, LenProperties DEF Inv, TypeOK
  <2> QED
    BY <1>1, <2>1
<1>3. entry' = [entry EXCEPT ![c] = [pid |-> p, buf |-> Empty]]
  BY <1>1 DEF Track
<1>4. \A i \in DOMAIN cmd_runnings : cmd_runnings[i] \in Entries \ {c}
  BY <1>1, ListedEntry DEF InUse
<1>5. entry'[c].pid = p /\ \A i \in DOMAIN cmd_runnings : entry'[cmd_runnings[i]] = entry[cmd_runnings[i]]
  BY <1>3, <1>4 DEF Inv, TypeOK
<1>6. entry'[cmd_runnings'[1]].pid = p
  BY <1>1, <1>5
<1>7. ASSUME NEW q \in Commands \ {p} PROVE Tracked(q)' <=> Tracked(q)
  <2>1. ASSUME NEW k \in DOMAIN cmd_runnings', entry'[cmd_runnings'[k]].pid = q PROVE Tracked(q)
    <3>1. k # 1
      BY <1>6, <2>1
    <3>2. k - 1 \in DOMAIN cmd_runnings /\ cmd_runnings'[k] = cmd_runnings[k - 1]
      BY <1>1, <3>1
    <3> QED
      BY <1>5, <2>1, <3>2 DEF Tracked
  <2>2. ASSUME NEW k \in DOMAIN cmd_runnings, entry[cmd_runnings[k]].pid = q PROVE Tracked(q)'
    <3>1. k + 1 \in DOMAIN cmd_runnings' /\ entry'[cmd_runnings'[k + 1]].pid = q
      BY <1>1, <1>5, <2>2
    <3> QED
      BY <3>1 DEF Tracked
  <2> QED
    BY <2>1, <2>2 DEF Tracked
<1> QED
  BY <1>2, <1>6, <1>7 DEF Tracked

LEMMA DescriptorsLaunch ==
  ASSUME DescriptorsInv, Inv', Launch
  PROVE  DescriptorsInv'
<1>1. done < raised /\ done \in Nat
  BY CommandsAssumption DEF Launch, DescriptorsInv, Inv, TypeOK
<1>2. PICK p \in Commands : p = done + 1
  BY <1>1, LaunchedNew DEF DescriptorsInv
<1>3. /\ done < raised /\ done' = p /\ done \in Nat
      /\ Followed(p) \/ NotFollowed(p) \/ PipeFails(p) \/ ForkFails(p)
  BY <1>1, <1>2 DEF Launch
<1>4. p \in Commands /\ child[p] = "none" /\ ~Tracked(p) /\ done < p
  BY <1>1, <1>2, LaunchedNew DEF DescriptorsInv, Tracked, Pid
<1>5. \A f \in fds : f[1] # p
  BY <1>3, <1>4, DescriptorsOf
<1>6. CASE Followed(p)
  <2>1. PICK w \in Plans : Started(p, w)
    BY <1>6 DEF Followed
  <2>2. \A q \in Commands \ {p} : child'[q] = child[q]
    BY <1>4, <2>1, StartedKeeps DEF DescriptorsInv
  <2>3. fds' = fds \cup {<<p, s, "r">> : s \in Streams}
    BY <1>6 DEF Followed, TakeFree, TakeNew, Track
  <2>4. Tracked(p)' /\ \A q \in Commands \ {p} : Tracked(q)' <=> Tracked(q)
    BY <1>4, <1>6, TrackedAfter DEF DescriptorsInv
  <2>5. OnlyOf(p)
    BY <2>2, <2>3, <2>4 DEF OnlyOf
  <2>6. \A f \in fds' : f[1] = p => f[3] = "r"
    BY <1>5, <2>3
  <2>7. \A s \in Streams : <<p, s, "r">> \in fds'
    BY <2>3
  <2> QED
    BY <1>3, <1>4, <2>4, <2>5, <2>6, <2>7, DescriptorsAdd
<1>7. CASE NotFollowed(p) \/ PipeFails(p) \/ ForkFails(p)
  <2>1. /\ UNCHANGED <<cmd_runnings, entry>>
        /\ \A q \in Commands \ {p} : child'[q] = child[q]
    BY <1>4, <1>7, FailedStep DEF DescriptorsInv
  <2>2. (\A q \in Commands : Tracked(q)' <=> Tracked(q)) /\ ~Tracked(p)'
    BY <1>4, <2>1 DEF Tracked
  <2>3. OnlyOf(p) /\ \A f \in fds' : f[1] = p => LeakedByLaunch(f)'
    <3>1. CASE NotFollowed(p)
      <4>1. fds' = fds
        BY <3>1 DEF NotFollowed, daemon
      <4> QED
        BY <1>5, <2>1, <2>2, <4>1 DEF OnlyOf
    <3>2. CASE PipeFails(p)
      <4>1. PICK made \in SUBSET Streams : made # Streams /\ fds' = fds \cup {<<p, s, "w">> : s \in made}
        BY <3>2 DEF PipeFails
      <4>2. OnlyOf(p)
        BY <2>1, <2>2, <4>1 DEF OnlyOf
      <4>3. PICK s \in Streams : s \notin made
        BY <4>1
      <4>4. <<p, s, "w">> \notin fds'
        BY <1>5, <4>1, <4>3
      <4>5. \A f \in fds' : f[1] = p => f[3] = "w"
        BY <1>5, <4>1
      <4> QED
        BY <4>2, <4>4, <4>5 DEF LeakedByLaunch
    <3>3. CASE ForkFails(p)
      <4>1. PICK made \in SUBSET Streams : fds' = fds \cup ({p} \X made \X {"r", "w"})
        BY <3>3 DEF ForkFails
      <4>2. child' = child
        BY <3>3 DEF ForkFails, process
      <4>3. OnlyOf(p)
        BY <2>1, <2>2, <4>1 DEF OnlyOf
      <4> QED
        BY <1>4, <4>2, <4>3 DEF LeakedByLaunch
    <3> QED
      BY <1>7, <3>1, <3>2, <3>3
  <2> QED
    BY <1>3, <1>4, <2>2, <2>3, DescriptorsAdd
<1> QED
  BY <1>3, <1>6, <1>7

LEMMA DescriptorsReap ==
  ASSUME DescriptorsInv, Inv', Reap
  PROVE  DescriptorsInv'
<1>1. PICK p \in Dead : Exited(p) /\ child' = [child EXCEPT ![p] = "reaped"]
  BY DEF Reap
<1>2. /\ done' = done /\ p \in Commands /\ child[p] = "zombie" /\ done \in Nat
      /\ \A q \in Commands : child'[q] = "none" <=> child[q] = "none"
  BY <1>1, CommandsAssumption DEF Reap, Dead, DescriptorsInv, Inv, TypeOK
<1>3. CASE UNCHANGED daemon
  <2>1. \A q \in Commands : Tracked(q)' <=> Tracked(q)
    BY <1>3 DEF Tracked, daemon
  <2>2. fds' = fds /\ done <= done'
    BY <1>2, <1>3 DEF daemon
  <2> QED
    BY <1>2, <2>1, <2>2, DescriptorsSame
<1>4. ASSUME NEW i \in DOMAIN cmd_runnings, Pid(i) = p, Forget(i)
      PROVE  DescriptorsInv'
  <2>1. fds' = fds \ {<<p, s, "r">> : s \in Streams}
    BY <1>4 DEF Forget, Pid
  <2>2. ~Tracked(p)'
    <3>1. ASSUME NEW k \in DOMAIN cmd_runnings' PROVE Pid(k)' # p
      BY <1>4, ForgetStep DEF DescriptorsInv
    <3> QED
      BY <3>1 DEF Tracked, Pid
  <2>3. ASSUME NEW q \in Commands \ {p} PROVE Tracked(q)' <=> Tracked(q)
    <3>1. ASSUME NEW k \in DOMAIN cmd_runnings', Pid(k)' = q PROVE \E l \in DOMAIN cmd_runnings : Pid(l) = q
      BY <1>4, <3>1, ForgetPids DEF DescriptorsInv
    <3>2. ASSUME NEW l \in DOMAIN cmd_runnings, Pid(l) = q PROVE \E k \in DOMAIN cmd_runnings' : Pid(k)' = q
      BY <1>4, <3>2, ForgetPids DEF DescriptorsInv
    <3> QED
      BY <3>1, <3>2 DEF Tracked, Pid
  <2>4. Tracked(p)
    BY <1>4 DEF Tracked, Pid
  <2>5. \A f \in fds' : f[1] # p
    <3>1. ASSUME NEW f \in fds, f[1] = p PROVE f \in {<<p, s, "r">> : s \in Streams}
      <4>1. f \in Commands \X Streams \X {"r", "w"} /\ f[3] = "r"
        BY <2>4, <3>1 DEF DescriptorsInv, DescriptorsAccounted, Inv, TypeOK
      <4>2. f = <<p, f[2], "r">> /\ f[2] \in Streams
        BY <3>1, <4>1
      <4> QED
        BY <4>2
    <3> QED
      BY <2>1, <3>1
  <2>6. ASSUME NEW f \in fds' PROVE IF Tracked(f[1])' THEN f[3] = "r" ELSE LeakedByLaunch(f)'
    <3>1. f \in fds /\ f[1] \in Commands \ {p}
      BY <2>1, <2>5, DescriptorsOf
    <3>2. (Tracked(f[1])' <=> Tracked(f[1])) /\ (child'[f[1]] = "none" <=> child[f[1]] = "none")
      BY <1>2, <2>3, <3>1
    <3>3. IF Tracked(f[1]) THEN f[3] = "r" ELSE LeakedByLaunch(f)
      BY <3>1 DEF DescriptorsInv, DescriptorsAccounted
    <3>4. \A s \in Streams : <<f[1], s, "w">> \in fds' => <<f[1], s, "w">> \in fds
      BY <2>1
    <3> QED
      BY <3>2, <3>3, <3>4 DEF LeakedByLaunch
  <2>7. ASSUME NEW q \in Commands, NEW s \in Streams, Tracked(q)' PROVE <<q, s, "r">> \in fds'
    <3>1. q # p /\ <<q, s, "r">> \in fds
      BY <2>2, <2>3, <2>7 DEF DescriptorsInv, DescriptorsAccounted
    <3> QED
      BY <2>1, <3>1
  <2>8. \A f \in fds' : f[1] <= done'
    BY <1>2, <2>1, DescriptorsOf
  <2> QED
    BY <2>6, <2>7, <2>8 DEF DescriptorsInv, DescriptorsAccounted
<1> QED
  BY <1>1, <1>3, <1>4 DEF Exited, Pid

LEMMA DescriptorsStep == DescriptorsInv /\ Inv' /\ [Next]_vars => DescriptorsInv'
<1> SUFFICES ASSUME DescriptorsInv, Inv', [Next]_vars PROVE DescriptorsInv'
  OBVIOUS
<1>1. done \in Nat /\ raised \in Nat /\ done <= raised
  BY CommandsAssumption DEF DescriptorsInv, Inv, TypeOK
<1>2. CASE Log
  <2>1. /\ UNCHANGED <<cmd_runnings, fds, done, child>>
        /\ \A d \in Entries : entry'[d].pid = entry[d].pid
    <3>1. CASE \E r \in revents.out : First(r) /\ Read(r[1], r[2])
      BY <1>2, <3>1, ReadFrom, ReadType DEF Log, DescriptorsInv
    <3>2. CASE UNCHANGED <<log, entry, pipe>>
      BY <1>2, <3>2 DEF Log
    <3> QED
      BY <1>2, <3>1, <3>2 DEF Log
  <2>2. \A i \in DOMAIN cmd_runnings : cmd_runnings[i] \in Entries
    BY ListedEntry DEF DescriptorsInv
  <2>3. \A p \in Commands : Tracked(p)' <=> Tracked(p)
    BY <2>1, <2>2 DEF Tracked
  <2> QED
    BY <1>1, <2>1, <2>3, DescriptorsSame
<1>3. CASE Launch
  BY <1>3, DescriptorsLaunch
<1>4. CASE Reap
  BY <1>4, DescriptorsReap
<1>5. CASE /\ UNCHANGED daemon /\ done' \in {done, raised}
           /\ \A p \in Commands : child'[p] = "none" <=> child[p] = "none"
  <2>1. \A p \in Commands : Tracked(p)' <=> Tracked(p)
    BY <1>5 DEF Tracked, daemon
  <2>2. fds' = fds /\ done <= done'
    BY <1>1, <1>5 DEF daemon
  <2> QED
    BY <1>5, <2>1, <2>2, DescriptorsSame
<1>6. CASE Poll \/ EventsDone \/ Reload \/ ReadSigchld \/ SignalsDone \/ NobodyDead
  BY <1>5, <1>6 DEF Poll, EventsDone, Reload, ReadSigchld, SignalsDone, NobodyDead, process
<1>7. CASE Raise \/ AskReload \/ UNCHANGED vars
  BY <1>5, <1>7 DEF Raise, AskReload, vars, process
<1>8. ASSUME NEW p \in Commands, Write(p) \/ Die(p) PROVE DescriptorsInv'
  BY <1>5, <1>8 DEF Write, Die, DescriptorsInv, Inv, TypeOK
<1> QED
  BY <1>2, <1>3, <1>4, <1>6, <1>7, <1>8 DEF Next, Daemon, Finish, Killed

(* The descriptors the daemon has open are the two read ends of each        *)
(* command it follows, and what failed launches leave behind                *)
(* (ind_comm.c:296-297 and 395-424).                                        *)
THEOREM DescriptorsAlways == Spec => []DescriptorsAccounted
<1>1. Init => DescriptorsInv
  <2> SUFFICES ASSUME Init PROVE DescriptorsInv
    OBVIOUS
  <2>1. fds = {} /\ DOMAIN cmd_runnings = {}
    BY DEF Init
  <2> QED
    BY <2>1, InvInit DEF DescriptorsInv, DescriptorsAccounted, Tracked
<1>2. DescriptorsInv => DescriptorsAccounted
  BY DEF DescriptorsInv
<1> QED
  BY <1>1, <1>2, DescriptorsStep, Invariant, PTL DEF Spec

-----------------------------------------------------------------------------
(***************************************************************************)
(* Output.  For one stream of one command, L is what is logged, B what the  *)
(* buffer holds, Q what the pipe holds.                                     *)
(***************************************************************************)
Rising(t) == \A j, k \in DOMAIN t : j < k => t[j].n < t[k].n
Below(t, u) == \A j \in DOMAIN t, k \in DOMAIN u : t[j].n < u[k].n

Ordered(L, B, Q) ==
  /\ \A a \in DOMAIN L : Rising(L[a]) /\ Below(L[a], B) /\ Below(L[a], Q)
  /\ \A a, b \in DOMAIN L : a < b => Below(L[a], L[b])
  /\ Rising(B) /\ Rising(Q) /\ Below(B, Q)

Occurs(m, L, B, Q) ==
  \/ \E a \in DOMAIN L : \E j \in DOMAIN L[a] : L[a][j] = m
  \/ \E j \in DOMAIN B : B[j] = m
  \/ \E j \in DOMAIN Q : Q[j] = m

(* The first packet of a pipe and the others.                               *)
LEMMA HeadBelow ==
  ASSUME NEW Q \in Seq(Items), Q # <<>>
  PROVE  /\ Head(Q) \in Items /\ Tail(Q) \in Seq(Items)
         /\ <<Head(Q)>> \in Seq(Items)
         /\ \A j \in DOMAIN Q : Q[j] = Head(Q) \/ \E k \in DOMAIN Tail(Q) : Tail(Q)[k] = Q[j]
         /\ \A k \in DOMAIN Tail(Q) : \E j \in DOMAIN Q : Q[j] = Tail(Q)[k]
         /\ \E j \in DOMAIN Q : Q[j] = Head(Q)
         /\ Rising(Q) => Rising(Tail(Q)) /\ Below(<<Head(Q)>>, Tail(Q))
         /\ \A t : Below(t, Q) => Below(t, Tail(Q)) /\ Below(t, <<Head(Q)>>)
<1> DEFINE T == Tail(Q)
           h == Head(Q)
<1>1. /\ 1 \in DOMAIN Q /\ h = Q[1] /\ h \in Items /\ T \in Seq(Items)
      /\ \A k \in DOMAIN T : k + 1 \in DOMAIN Q /\ T[k] = Q[k + 1]
  BY PopProperties
<1>2. /\ Len(Q) \in Nat /\ DOMAIN Q = 1 .. Len(Q)
      /\ Len(T) = Len(Q) - 1 /\ DOMAIN T = 1 .. Len(Q) - 1
  BY <1>1, HeadTailProperties, LenProperties
<1> HIDE DEF T, h
<1>3. <<h>> \in Seq(Items) /\ DOMAIN <<h>> = {1} /\ <<h>>[1] = h
  BY <1>1
<1>4. \A j \in DOMAIN Q : Q[j] = h \/ \E k \in DOMAIN T : T[k] = Q[j]
  <2> SUFFICES ASSUME NEW j \in DOMAIN Q, j # 1 PROVE \E k \in DOMAIN T : T[k] = Q[j]
    BY <1>1
  <2>1. j - 1 \in DOMAIN T /\ (j - 1) + 1 = j
    BY <1>2
  <2> QED
    BY <1>1, <2>1
<1>5. Rising(Q) => Rising(T) /\ Below(<<h>>, T)
  <2> SUFFICES ASSUME Rising(Q) PROVE Rising(T) /\ Below(<<h>>, T)
    OBVIOUS
  <2>1. Rising(T)
    BY <1>1, <1>2 DEF Rising
  <2>2. \A k \in DOMAIN T : 1 < k + 1
    BY <1>2
  <2>3. Below(<<h>>, T)
    BY <1>1, <1>3, <2>2 DEF Rising, Below
  <2> QED
    BY <2>1, <2>3
<1>6. ASSUME NEW t, Below(t, Q) PROVE Below(t, T) /\ Below(t, <<h>>)
  BY <1>1, <1>3, <1>6 DEF Below
<1> QED
  BY <1>1, <1>3, <1>4, <1>5, <1>6 DEF T, h

(* A packet put behind others.                                              *)
LEMMA AppendBelow ==
  ASSUME NEW B \in Seq(Items), NEW m \in Items
  PROVE  /\ Append(B, m) \in Seq(Items)
         /\ \A k \in DOMAIN Append(B, m) : Append(B, m)[k] = m \/ \E j \in DOMAIN B : B[j] = Append(B, m)[k]
         /\ \A j \in DOMAIN B : \E k \in DOMAIN Append(B, m) : Append(B, m)[k] = B[j]
         /\ \E k \in DOMAIN Append(B, m) : Append(B, m)[k] = m
         /\ Rising(B) /\ Below(B, <<m>>) => Rising(Append(B, m))
         /\ \A t : Below(t, B) /\ Below(t, <<m>>) => Below(t, Append(B, m))
         /\ \A t : Below(B, t) /\ Below(<<m>>, t) => Below(Append(B, m), t)
<1> DEFINE A == Append(B, m)
<1>1. /\ A \in Seq(Items) /\ Len(A) = Len(B) + 1 /\ DOMAIN B \subseteq DOMAIN A
      /\ Len(A) \in DOMAIN A /\ A[Len(A)] = m
      /\ \A k \in DOMAIN B : A[k] = B[k]
      /\ \A k \in DOMAIN A : k \in DOMAIN B \/ k = Len(A)
  BY AppendTo
<1>2. Len(B) \in Nat /\ DOMAIN B = 1 .. Len(B)
  BY LenProperties
<1> HIDE DEF A
<1>3. DOMAIN <<m>> = {1} /\ <<m>>[1] = m
  OBVIOUS
<1>4. ASSUME Rising(B), Below(B, <<m>>) PROVE Rising(A)
  BY <1>1, <1>2, <1>3, <1>4 DEF Rising, Below
<1>5. ASSUME NEW t, Below(t, B), Below(t, <<m>>) PROVE Below(t, A)
  BY <1>1, <1>3, <1>5 DEF Below
<1>6. ASSUME NEW t, Below(B, t), Below(<<m>>, t) PROVE Below(A, t)
  BY <1>1, <1>3, <1>6 DEF Below
<1>7. /\ \A k \in DOMAIN A : A[k] = m \/ \E j \in DOMAIN B : B[j] = A[k]
      /\ \A j \in DOMAIN B : \E k \in DOMAIN A : A[k] = B[j]
      /\ \E k \in DOMAIN A : A[k] = m
  BY <1>1
<1> QED
  BY <1>1, <1>4, <1>5, <1>6, <1>7 DEF A

(* A line put behind the others in the log.                                 *)
LEMMA LogLine ==
  ASSUME NEW L \in Seq(Seq(Items)), NEW l \in Seq(Items)
  PROVE  LET A == Append(L, l) IN
         /\ A \in Seq(Seq(Items))
         /\ \A a \in DOMAIN L : a \in DOMAIN A /\ A[a] = L[a]
         /\ \E a \in DOMAIN A : A[a] = l
         /\ \A a \in DOMAIN A : a \in DOMAIN L \/ A[a] = l
         /\ \A a, b \in DOMAIN A : a < b => a \in DOMAIN L
<1> DEFINE A == Append(L, l)
<1>1. /\ A \in Seq(Seq(Items)) /\ Len(A) = Len(L) + 1 /\ DOMAIN L \subseteq DOMAIN A
      /\ Len(A) \in DOMAIN A /\ A[Len(A)] = l
      /\ \A k \in DOMAIN L : A[k] = L[k]
      /\ \A k \in DOMAIN A : k \in DOMAIN L \/ k = Len(A)
  BY AppendTo
<1>2. Len(L) \in Nat /\ DOMAIN A = 1 .. Len(A)
  BY <1>1, LenProperties
<1> HIDE DEF A
<1>3. \A a, b \in DOMAIN A : a < b => a \in DOMAIN L
  BY <1>1, <1>2
<1> QED
  BY <1>1, <1>3 DEF A

LEMMA Empties ==
  /\ <<>> \in Seq(Items) /\ DOMAIN <<>> = {} /\ Rising(<<>>)
  /\ \A t : Below(t, <<>>) /\ Below(<<>>, t)
BY DEF Rising, Below

(* Order is kept when the part of a line is read,                           *)
LEMMA OrderPart ==
  ASSUME NEW L \in Seq(Seq(Items)), NEW B \in Seq(Items), NEW Q \in Seq(Items), Q # <<>>, Ordered(L, B, Q)
  PROVE  Ordered(L, <<Head(Q)>>, Tail(Q))
<1>1. Rising(<<Head(Q)>>)
  BY DEF Rising
<1> QED
  BY <1>1, HeadBelow DEF Ordered

(* when the end of a line is read, which logs it,                           *)
LEMMA OrderLine ==
  ASSUME NEW L \in Seq(Seq(Items)), NEW B \in Seq(Items), NEW Q \in Seq(Items), Q # <<>>, Ordered(L, B, Q)
  PROVE  Ordered(Append(L, Append(B, Head(Q))), <<>>, Tail(Q))
<1> DEFINE h == Head(Q)
           l == Append(B, h)
           A == Append(L, l)
           T == Tail(Q)
<1>1. /\ h \in Items /\ T \in Seq(Items)
      /\ Rising(T) /\ Below(<<h>>, T) /\ Below(B, <<h>>) /\ Below(B, T)
      /\ \A a \in DOMAIN L : Below(L[a], T) /\ Below(L[a], <<h>>)
  BY HeadBelow DEF Ordered
<1> HIDE DEF h, T
<1>2. /\ l \in Seq(Items) /\ Rising(l) /\ Below(l, T)
      /\ \A a \in DOMAIN L : Below(L[a], l)
  BY <1>1, AppendBelow DEF Ordered
<1> HIDE DEF l
<1>3. /\ \A a \in DOMAIN L : a \in DOMAIN A /\ A[a] = L[a]
      /\ \A a \in DOMAIN A : a \in DOMAIN L \/ A[a] = l
      /\ \A a, b \in DOMAIN A : a < b => a \in DOMAIN L
  BY <1>2, LogLine
<1> HIDE DEF A
<1>4. \A a \in DOMAIN A : Rising(A[a]) /\ Below(A[a], <<>>) /\ Below(A[a], T)
  BY <1>1, <1>2, <1>3, Empties DEF Ordered
<1>5. \A a, b \in DOMAIN A : a < b => Below(A[a], A[b])
  BY <1>2, <1>3 DEF Ordered
<1>6. Ordered(A, <<>>, T)
  BY <1>1, <1>4, <1>5, Empties DEF Ordered
<1> QED
  BY <1>6 DEF A, l, h, T

(* when the buffer is logged and the pipe closed,                           *)
LEMMA OrderFlush ==
  ASSUME NEW L \in Seq(Seq(Items)), NEW B \in Seq(Items), NEW Q \in Seq(Items), Ordered(L, B, Q)
  PROVE  Ordered(Append(L, B), <<>>, <<>>) /\ Ordered(L, <<>>, <<>>)
<1> DEFINE A == Append(L, B)
<1>1. /\ \A a \in DOMAIN L : a \in DOMAIN A /\ A[a] = L[a]
      /\ \A a \in DOMAIN A : a \in DOMAIN L \/ A[a] = B
      /\ \A a, b \in DOMAIN A : a < b => a \in DOMAIN L
  BY LogLine
<1> HIDE DEF A
<1>2. \A a \in DOMAIN A : Rising(A[a])
  BY <1>1 DEF Ordered
<1>3. \A a, b \in DOMAIN A : a < b => Below(A[a], A[b])
  BY <1>1 DEF Ordered
<1>4. Ordered(A, <<>>, <<>>) /\ Ordered(L, <<>>, <<>>)
  BY <1>2, <1>3, Empties DEF Ordered
<1> QED
  BY <1>4 DEF A

(* and when a packet is written that comes after all the others.            *)
LEMMA OrderWrite ==
  ASSUME NEW L \in Seq(Seq(Items)), NEW B \in Seq(Items), NEW Q \in Seq(Items), Ordered(L, B, Q),
         NEW m \in Items, \A x : Occurs(x, L, B, Q) => x.n < m.n
  PROVE  Ordered(L, B, Append(Q, m))
<1>1. Below(B, <<m>>) /\ Below(Q, <<m>>) /\ \A a \in DOMAIN L : Below(L[a], <<m>>)
  BY DEF Below, Occurs
<1> QED
  BY <1>1, AppendBelow DEF Ordered

-----------------------------------------------------------------------------
(* The buffer of a command is that of the one entry that follows it.        *)
LEMMA BufIs ==
  ASSUME Inv, NEW i \in DOMAIN cmd_runnings, NEW p \in Commands, Pid(i) = p, NEW s \in Streams
  PROVE  Tracked(p) /\ Buf(p, s) = entry[cmd_runnings[i]].buf[s] /\ Buf(p, s) \in Seq(Items)
<1>1. Tracked(p)
  BY DEF Tracked, Pid
<1>2. Follower(p) \in DOMAIN cmd_runnings /\ Pid(Follower(p)) = p
  BY DEF Follower, Pid
<1>3. Follower(p) = i
  BY <1>2 DEF Inv, Followers
<1>4. entry[cmd_runnings[i]].buf[s] \in Seq(Items)
  BY ListedEntry DEF Buffers
<1> QED
  BY <1>1, <1>3, <1>4 DEF Buf

LEMMA BufNext ==
  ASSUME Inv', NEW i \in DOMAIN cmd_runnings', NEW p \in Commands, Pid(i)' = p, NEW s \in Streams
  PROVE  Tracked(p)' /\ Buf(p, s)' = entry'[cmd_runnings'[i]].buf[s]
<1>1. Tracked(p)'
  BY DEF Tracked, Pid
<1>2. Follower(p)' \in DOMAIN cmd_runnings' /\ entry'[cmd_runnings'[Follower(p)']].pid = p
  BY DEF Follower, Pid
<1>3. Follower(p)' = i
  BY <1>2 DEF Inv, Followers, Pid
<1> QED
  BY <1>1, <1>3 DEF Buf

LEMMA BufType ==
  ASSUME Inv, NEW p \in Commands, NEW s \in Streams
  PROVE  /\ Buf(p, s) \in Seq(Items)
         /\ log[p][s] \in Seq(Seq(Items))
         /\ pipe[p][s] \in Seq(Items)
<1>1. ASSUME Tracked(p) PROVE Buf(p, s) \in Seq(Items)
  <2>1. PICK i \in DOMAIN cmd_runnings : Pid(i) = p
    BY <1>1 DEF Tracked, Pid
  <2> QED
    BY <2>1, BufIs
<1>2. ASSUME ~Tracked(p) PROVE Buf(p, s) \in Seq(Items)
  BY <1>2, Empties DEF Buf
<1>3. /\ log \in [Commands -> [Streams -> Seq(Seq(Items))]]
      /\ pipe \in [Commands -> [Streams -> Seq(Items)]]
  BY DEF Inv, TypeOK, Buffers
<1>4. log[p][s] \in Seq(Seq(Items)) /\ pipe[p][s] \in Seq(Items)
  BY <1>3
<1> QED
  BY <1>1, <1>2, <1>4

LEMMA PlanType ==
  ASSUME Inv, NEW p \in Commands
  PROVE  plan[p] \in Seq(Packets)
<1>1. plan[p] \in Plans \cup {<<>>}
  BY DEF Inv, TypeOK
<1>2. <<>> \in Seq(Packets) /\ Plans \subseteq Seq(Packets)
  BY CommandsAssumption
<1> QED
  BY <1>1, <1>2

(* What a step may do with a stream of a command.                           *)
Rests(p, s) ==
  log'[p][s] = log[p][s] /\ Buf(p, s)' = Buf(p, s) /\ pipe'[p][s] = pipe[p][s]

Takes(p, s) ==
  LET m == Head(pipe[p][s]) IN
  /\ Tracked(p)
  /\ pipe[p][s] # <<>>
  /\ pipe'[p][s] = Tail(pipe[p][s])
  /\ IF plan[m.by][m.n].line
     THEN log'[p][s] = Append(log[p][s], Append(Buf(p, s), m)) /\ Buf(p, s)' = <<>>
     ELSE log'[p][s] = log[p][s] /\ Buf(p, s)' = <<m>>

Flushes(p, s) ==
  /\ ~Tracked(p)'
  /\ log'[p][s] = IF Buf(p, s) = <<>> THEN log[p][s] ELSE Append(log[p][s], Buf(p, s))
  /\ Buf(p, s)' = <<>>
  /\ pipe'[p][s] = <<>>

Puts(p, s) ==
  /\ child[p] = "running"
  /\ wrote[p] < Len(plan[p])
  /\ plan[p][wrote[p] + 1].to = s
  /\ wrote'[p] = wrote[p] + 1
  /\ log'[p][s] = log[p][s] /\ Buf(p, s)' = Buf(p, s)
  /\ pipe'[p][s] = Append(pipe[p][s], [by |-> p, n |-> wrote[p] + 1])

Ages(p) ==
  \/ child'[p] = child[p]
  \/ child[p] = "none" /\ child'[p] = "running"
  \/ child[p] = "running" /\ child'[p] = "zombie"
  \/ child[p] = "zombie" /\ child'[p] = "reaped"

OutputMoves ==
  /\ \A p \in Commands, s \in Streams : Rests(p, s) \/ Takes(p, s) \/ Flushes(p, s) \/ Puts(p, s)
  /\ \A p \in Commands :
       \/ plan'[p] = plan[p] /\ wrote'[p] = wrote[p]
       \/ /\ child[p] = "none" /\ child'[p] = "running" /\ wrote'[p] = wrote[p]
          /\ ~Tracked(p)' => plan'[p] = <<>>
          /\ \A s \in Streams : Rests(p, s)
       \/ plan'[p] = plan[p] /\ \E s \in Streams : Puts(p, s)
  /\ \A p \in Commands : Ages(p)
  /\ \A p \in Commands : Tracked(p)' => Tracked(p) \/ child[p] = "none"
  /\ \A p \in Commands : Tracked(p) => Tracked(p)' \/ (child'[p] = "reaped" /\ \A s \in Streams : Flushes(p, s))

(* Steps that leave the entries, the log and the pipes alone.               *)
LEMMA MovesNothing ==
  ASSUME UNCHANGED <<cmd_runnings, entry, log, pipe, plan, wrote>>,
         \A p \in Commands : Ages(p)
  PROVE  OutputMoves
<1>1. \A p \in Commands : Tracked(p)' <=> Tracked(p)
  BY DEF Tracked
<1>2. \A p \in Commands, s \in Streams : Buf(p, s)' = Buf(p, s)
  BY DEF Buf, Tracked, Follower, Pid
<1> QED
  BY <1>1, <1>2 DEF OutputMoves, Rests

LEMMA MovesWrite ==
  ASSUME Inv, NEW p \in Commands, Write(p)
  PROVE  OutputMoves
<1>1. /\ child[p] = "running" /\ wrote[p] < Len(plan[p])
      /\ child' = child /\ plan' = plan
      /\ UNCHANGED <<cmd_runnings, entry, log>>
      /\ \A q \in Commands : Ages(q)
  BY DEF Write, daemon, Ages
<1>2. \A q \in Commands : Tracked(q)' <=> Tracked(q)
  BY <1>1 DEF Tracked
<1>3. \A q \in Commands, s \in Streams : Buf(q, s)' = Buf(q, s)
  BY <1>1 DEF Buf, Tracked, Follower, Pid
<1>4. pipe \in [Commands -> [Streams -> Seq(Items)]] /\ wrote \in [Commands -> Nat]
  BY DEF Inv, TypeOK, Buffers
<1>5. PICK n \in Nat : n = wrote[p] + 1
  BY <1>4
<1>6. PICK t \in Streams : t = plan[p][n].to
  <2>1. plan[p] \in Seq(Packets)
    BY PlanType
  <2>2. n \in 1 .. Len(plan[p])
    BY <1>1, <1>4, <1>5, <2>1, LenProperties
  <2>3. plan[p][n] \in Packets
    BY <2>1, <2>2, ElementOfSeq
  <2> QED
    BY <2>3 DEF Packets
<1>7. /\ pipe' = [pipe EXCEPT ![p][t] = Append(@, [by |-> p, n |-> n])]
      /\ wrote' = [wrote EXCEPT ![p] = n]
  BY <1>5, <1>6 DEF Write
<1>8. /\ pipe'[p][t] = Append(pipe[p][t], [by |-> p, n |-> n])
      /\ wrote'[p] = n
      /\ \A q \in Commands, s \in Streams : (q # p \/ s # t) => pipe'[q][s] = pipe[q][s]
      /\ \A q \in Commands : q # p => wrote'[q] = wrote[q]
  BY <1>4, <1>7
<1>9. Puts(p, t)
  BY <1>1, <1>3, <1>5, <1>6, <1>8 DEF Puts
<1>10. \A q \in Commands, s \in Streams : Rests(q, s) \/ Puts(q, s)
  BY <1>1, <1>3, <1>8, <1>9 DEF Rests
<1> QED
  BY <1>1, <1>2, <1>8, <1>9, <1>10 DEF OutputMoves

LEMMA MovesLog ==
  ASSUME Inv, Inv', Log
  PROVE  OutputMoves
<1>1. UNCHANGED <<cmd_runnings, child, plan, wrote>> /\ \A q \in Commands : Ages(q)
  BY DEF Log, Ages
<1>2. CASE UNCHANGED <<log, entry, pipe>>
  BY <1>1, <1>2, MovesNothing
<1>3. CASE \E r \in revents.out : First(r) /\ Read(r[1], r[2])
  <2>1. PICK r \in revents.out : Read(r[1], r[2])
    BY <1>3
  <2>2. PICK i \in DOMAIN cmd_runnings :
           /\ r[1] = cmd_runnings[i] /\ r[1] \in Entries /\ r[2] \in Streams
           /\ entry[r[1]].pid = Pid(i) /\ Pid(i) \in Commands
           /\ pipe[Pid(i)][r[2]] \in Seq(Items) /\ pipe[Pid(i)][r[2]] # <<>>
    BY ReadFrom
  <2>3. PICK c \in Entries, t \in Streams, p \in Commands :
          c = cmd_runnings[i] /\ Read(c, t) /\ p = Pid(i) /\ p = entry[c].pid /\ pipe[p][t] # <<>>
    BY <2>1, <2>2
  <2> DEFINE m == Head(pipe[p][t])
             ends == plan[m.by][m.n].line
  <2>4. /\ pipe' = [pipe EXCEPT ![p][t] = Tail(@)]
        /\ log' = IF ends THEN [log EXCEPT ![p][t] = Append(@, Append(entry[c].buf[t], m))] ELSE log
        /\ entry' = [entry EXCEPT ![c].buf[t] = IF ends THEN <<>> ELSE <<m>>]
    BY <2>3 DEF Read
  <2> HIDE DEF m, ends
  <2>5. /\ pipe \in [Commands -> [Streams -> Seq(Items)]]
        /\ log \in [Commands -> [Streams -> Seq(Seq(Items))]]
        /\ entry \in [Entries -> [pid : Commands \cup {0}, buf : [Streams -> Seq(Items)]]]
    BY DEF Inv, TypeOK, Buffers
  <2>6. /\ pipe'[p][t] = Tail(pipe[p][t])
        /\ log'[p][t] = IF ends THEN Append(log[p][t], Append(entry[c].buf[t], m)) ELSE log[p][t]
        /\ \A q \in Commands, s \in Streams :
             q # p \/ s # t => pipe'[q][s] = pipe[q][s] /\ log'[q][s] = log[q][s]
    BY <2>4, <2>5
  <2>7. /\ entry'[c].buf[t] = IF ends THEN <<>> ELSE <<m>>
        /\ \A d \in Entries : entry'[d].pid = entry[d].pid
        /\ \A d \in Entries, s \in Streams : d # c \/ s # t => entry'[d].buf[s] = entry[d].buf[s]
    <3> DEFINE b == [entry[c].buf EXCEPT ![t] = IF ends THEN <<>> ELSE <<m>>]
    <3>1. entry' = [entry EXCEPT ![c] = [@ EXCEPT !.buf = b]]
      BY <2>4
    <3>2. b[t] = (IF ends THEN <<>> ELSE <<m>>) /\ \A s \in Streams : s # t => b[s] = entry[c].buf[s]
      BY <2>5
    <3> HIDE DEF b
    <3>3. entry'[c].buf = b /\ entry'[c].pid = entry[c].pid /\ \A d \in Entries : d # c => entry'[d] = entry[d]
      BY <2>5, <3>1
    <3> QED
      BY <3>2, <3>3
  <2>8. \A k \in DOMAIN cmd_runnings : Pid(k)' = Pid(k) /\ cmd_runnings[k] \in Entries
    BY <1>1, <2>7, ListedEntry DEF Pid
  <2>9. \A q \in Commands : Tracked(q)' <=> Tracked(q)
    BY <1>1, <2>8 DEF Tracked, Pid
  <2>10. /\ Tracked(p) /\ Buf(p, t) = entry[c].buf[t]
         /\ Buf(p, t)' = IF ends THEN <<>> ELSE <<m>>
    <3>1. Tracked(p) /\ Buf(p, t) = entry[c].buf[t]
      BY <2>3, BufIs
    <3>2. i \in DOMAIN cmd_runnings' /\ Pid(i)' = p /\ cmd_runnings'[i] = c
      BY <1>1, <2>3, <2>8
    <3>3. Buf(p, t)' = entry'[c].buf[t]
      BY <3>2, BufNext
    <3> QED
      BY <2>7, <3>1, <3>3
  <2>11. Takes(p, t)
    BY <2>3, <2>6, <2>10 DEF Takes, m, ends
  <2>12. ASSUME NEW q \in Commands, NEW s \in Streams, q # p \/ s # t
         PROVE  Buf(q, s)' = Buf(q, s)
    <3>1. CASE ~Tracked(q)
      BY <2>9, <3>1 DEF Buf
    <3>2. CASE Tracked(q)
      <4>1. PICK k \in DOMAIN cmd_runnings : Pid(k) = q
        BY <3>2 DEF Tracked, Pid
      <4>2. k \in DOMAIN cmd_runnings' /\ Pid(k)' = q /\ cmd_runnings'[k] = cmd_runnings[k]
        BY <1>1, <2>8, <4>1
      <4>3. cmd_runnings[k] # c \/ s # t
        BY <2>3, <2>12, <4>1 DEF Pid
      <4>4. entry'[cmd_runnings[k]].buf[s] = entry[cmd_runnings[k]].buf[s]
        BY <2>7, <2>8, <4>3
      <4>5. Buf(q, s) = entry[cmd_runnings[k]].buf[s]
        BY <4>1, BufIs
      <4>6. Buf(q, s)' = entry'[cmd_runnings[k]].buf[s]
        BY <4>2, BufNext
      <4> QED
        BY <4>4, <4>5, <4>6
    <3> QED
      BY <3>1, <3>2
  <2>13. \A q \in Commands, s \in Streams : Rests(q, s) \/ Takes(q, s)
    BY <2>6, <2>11, <2>12 DEF Rests
  <2> QED
    BY <1>1, <2>9, <2>13 DEF OutputMoves
<1> QED
  BY <1>2, <1>3 DEF Log

LEMMA MovesLaunch ==
  ASSUME Inv, Inv', Launch
  PROVE  OutputMoves
<1>1. done < raised
  BY DEF Launch
<1>2. PICK p \in Commands : p = done + 1
  BY <1>1, LaunchedNew
<1>3. /\ child[p] = "none" /\ ~Tracked(p)
      /\ Followed(p) \/ NotFollowed(p) \/ PipeFails(p) \/ ForkFails(p)
  BY <1>1, <1>2, LaunchedNew DEF Launch, Tracked, Pid
<1>4. CASE ForkFails(p)
  BY <1>4, MovesNothing DEF ForkFails, process, Ages
<1>5. CASE Followed(p) \/ NotFollowed(p) \/ PipeFails(p)
  <2>1. PICK w \in Plans \cup {<<>>} : Started(p, w)
    BY <1>5 DEF Followed, NotFollowed, PipeFails
  <2>2. /\ wrote' = wrote /\ pipe' = pipe /\ child'[p] = "running"
        /\ \A q \in Commands \ {p} : child'[q] = child[q] /\ plan'[q] = plan[q]
        /\ \A q \in Commands : Ages(q)
    BY <1>3, <2>1, StartedKeeps DEF Started, Inv, TypeOK, Ages
  <2>3. log' = log
    BY <1>5 DEF Followed, NotFollowed, PipeFails, TakeFree, TakeNew, Track, daemon
  <2>4. SUFFICES /\ \A q \in Commands, s \in Streams :
                      Buf(q, s)' = Buf(q, s) /\ (q # p => (Tracked(q)' <=> Tracked(q)))
                 /\ ~Tracked(p)' => plan'[p] = <<>>
    <3> SUFFICES ASSUME /\ \A q \in Commands, s \in Streams :
                             Buf(q, s)' = Buf(q, s) /\ (q # p => (Tracked(q)' <=> Tracked(q)))
                        /\ ~Tracked(p)' => plan'[p] = <<>>
                 PROVE OutputMoves
      OBVIOUS
    <3>1. \A q \in Commands, s \in Streams : Rests(q, s)
      BY <2>2, <2>3 DEF Rests
    <3>2. \A q \in Commands : q # p => (Tracked(q)' <=> Tracked(q))
      BY DEF Streams
    <3> QED
      BY <1>3, <2>2, <3>1, <3>2 DEF OutputMoves
  <2>5. CASE NotFollowed(p) \/ PipeFails(p)
    <3>1. UNCHANGED <<cmd_runnings, entry>>
      BY <2>5, FailedStep
    <3>2. plan'[p] = <<>>
      BY <2>5 DEF NotFollowed, PipeFails, Started, Inv, TypeOK
    <3> QED
      BY <3>1, <3>2 DEF Buf, Tracked, Follower
  <2>6. CASE Followed(p)
    <3>1. PICK c \in Entries :
            /\ Track(p, c) /\ ~InUse(c)
            /\ cmd_runnings'[1] = c /\ cmd_runnings' \in Seq(Entries)
            /\ Len(cmd_runnings') = Len(cmd_runnings) + 1
            /\ \A k \in DOMAIN cmd_runnings :
                 k + 1 \in DOMAIN cmd_runnings' /\ cmd_runnings'[k + 1] = cmd_runnings[k]
      BY <2>6, Taken DEF Followed
    <3>2. 1 \in DOMAIN cmd_runnings'
      <4>1. Len(cmd_runnings) \in Nat /\ DOMAIN cmd_runnings' = 1 .. Len(cmd_runnings')
        BY <3>1, LenProperties DEF Inv, TypeOK
      <4> QED
        BY <3>1, <4>1
    <3>3. entry' = [entry EXCEPT ![c] = [pid |-> p, buf |-> Empty]]
      BY <3>1 DEF Track
    <3>4. \A i \in DOMAIN cmd_runnings : cmd_runnings[i] \in Entries \ {c}
      BY <3>1, ListedEntry DEF InUse
    <3>5. entry'[c] = [pid |-> p, buf |-> Empty]
          /\ \A i \in DOMAIN cmd_runnings : entry'[cmd_runnings[i]] = entry[cmd_runnings[i]]
      BY <3>3, <3>4 DEF Inv, TypeOK
    <3>6. Tracked(p)' /\ \A q \in Commands \ {p} : Tracked(q)' <=> Tracked(q)
      BY <1>3, <2>6, TrackedAfter
    <3>7. ASSUME NEW q \in Commands, NEW s \in Streams PROVE Buf(q, s)' = Buf(q, s)
      <4>1. CASE q = p
        <5>1. Pid(1)' = p /\ entry'[cmd_runnings'[1]].buf[s] = <<>>
          BY <3>1, <3>5 DEF Pid, Empty
        <5>2. Buf(p, s)' = <<>>
          BY <3>2, <5>1, BufNext
        <5> QED
          BY <1>3, <4>1, <5>2 DEF Buf
      <4>2. CASE q # p /\ ~Tracked(q)
        BY <3>6, <4>2 DEF Buf
      <4>3. CASE q # p /\ Tracked(q)
        <5>1. PICK k \in DOMAIN cmd_runnings : Pid(k) = q
          BY <4>3 DEF Tracked, Pid
        <5>2. Buf(q, s) = entry[cmd_runnings[k]].buf[s]
          BY <5>1, BufIs
        <5>3. k + 1 \in DOMAIN cmd_runnings' /\ Pid(k + 1)' = q
              /\ entry'[cmd_runnings'[k + 1]].buf[s] = entry[cmd_runnings[k]].buf[s]
          BY <3>1, <3>5, <5>1 DEF Pid
        <5> QED
          BY <5>2, <5>3, BufNext
      <4> QED
        BY <4>1, <4>2, <4>3
    <3> QED
      BY <3>6, <3>7
  <2> QED
    BY <1>5, <2>5, <2>6
<1> QED
  BY <1>3, <1>4, <1>5

LEMMA MovesReap ==
  ASSUME Inv, Inv', Reap
  PROVE  OutputMoves
<1>1. PICK p \in Dead : Exited(p) /\ child' = [child EXCEPT ![p] = "reaped"]
  BY DEF Reap
<1>2. /\ plan' = plan /\ wrote' = wrote /\ p \in Commands
      /\ \A q \in Commands : Ages(q)
      /\ child'[p] = "reaped"
  BY <1>1 DEF Reap, Dead, Inv, TypeOK, Ages
<1>3. CASE UNCHANGED <<daemon, pipe>>
  BY <1>2, <1>3, MovesNothing DEF daemon
<1>4. ASSUME NEW i \in DOMAIN cmd_runnings, Pid(i) = p, Forget(i)
      PROVE  OutputMoves
  <2>1. PICK c \in Entries : c = cmd_runnings[i] /\ entry[c].pid = p
    BY <1>4, ListedEntry DEF Pid
  <2>2. /\ log' = [log EXCEPT ![p] = Flush(c)]
        /\ pipe' = [pipe EXCEPT ![p] = Empty]
        /\ entry' = [entry EXCEPT ![c] = Unused]
    <3>1. /\ log' = [log EXCEPT ![entry[cmd_runnings[i]].pid] = Flush(cmd_runnings[i])]
          /\ pipe' = [pipe EXCEPT ![entry[cmd_runnings[i]].pid] = Empty]
          /\ entry' = [entry EXCEPT ![cmd_runnings[i]] = Unused]
      BY <1>4 DEF Forget
    <3> QED
      BY <2>1, <3>1
  <2>3. /\ log'[p] = Flush(c) /\ pipe'[p] = Empty
        /\ \A q \in Commands : q # p => log'[q] = log[q] /\ pipe'[q] = pipe[q]
    BY <1>2, <2>2 DEF Inv, TypeOK
  <2>4. ~Tracked(p)'
    <3>1. ASSUME NEW k \in DOMAIN cmd_runnings' PROVE Pid(k)' # p
      BY <1>4, ForgetStep
    <3> QED
      BY <3>1 DEF Tracked, Pid
  <2>5. ASSUME NEW s \in Streams PROVE Flushes(p, s)
    <3>1. Buf(p, s) = entry[c].buf[s]
      BY <1>2, <1>4, <2>1, BufIs
    <3>2. log'[p][s] = IF Buf(p, s) = <<>> THEN log[p][s] ELSE Append(log[p][s], Buf(p, s))
      BY <2>1, <2>3, <3>1 DEF Flush
    <3>3. pipe'[p][s] = <<>> /\ Buf(p, s)' = <<>>
      BY <2>3, <2>4 DEF Empty, Buf
    <3> QED
      BY <2>4, <3>2, <3>3 DEF Flushes
  <2>6. ASSUME NEW q \in Commands, q # p
        PROVE  (Tracked(q)' <=> Tracked(q)) /\ \A s \in Streams : Buf(q, s)' = Buf(q, s)
    <3>1. CASE Tracked(q)
      <4>1. PICK l \in DOMAIN cmd_runnings : Pid(l) = q /\ l # i
        BY <1>4, <2>6, <3>1 DEF Tracked, Pid
      <4>2. PICK k \in DOMAIN cmd_runnings' : cmd_runnings'[k] = cmd_runnings[l] /\ Pid(k)' = q
        BY <1>4, <4>1, ForgetPids
      <4>3. entry'[cmd_runnings[l]] = entry[cmd_runnings[l]]
        <5>1. cmd_runnings[l] # c /\ cmd_runnings[l] \in Entries
          BY <2>1, <4>1, ListedEntry DEF Inv, Lists, NoTwice
        <5> QED
          BY <2>2, <5>1 DEF Inv, TypeOK
      <4>4. ASSUME NEW s \in Streams PROVE Buf(q, s)' = Buf(q, s)
        <5>1. Buf(q, s) = entry[cmd_runnings[l]].buf[s]
          BY <4>1, BufIs
        <5>2. Buf(q, s)' = entry'[cmd_runnings'[k]].buf[s]
          BY <4>2, BufNext
        <5> QED
          BY <4>2, <4>3, <5>1, <5>2
      <4>5. Tracked(q)'
        BY <4>2 DEF Tracked, Pid
      <4> QED
        BY <3>1, <4>4, <4>5
    <3>2. CASE ~Tracked(q)
      <4>1. ~Tracked(q)'
        <5>1. ASSUME NEW k \in DOMAIN cmd_runnings' PROVE Pid(k)' # q
          <6>1. PICK l \in DOMAIN cmd_runnings : Pid(k)' = Pid(l)
            BY <1>4, ForgetStep
          <6> QED
            BY <3>2, <6>1 DEF Tracked, Pid
        <5> QED
          BY <5>1 DEF Tracked, Pid
      <4> QED
        BY <3>2, <4>1 DEF Buf
    <3> QED
      BY <3>1, <3>2
  <2>7. \A q \in Commands, s \in Streams : Rests(q, s) \/ Flushes(q, s)
    BY <2>3, <2>5, <2>6 DEF Rests
  <2>8. \A q \in Commands : Tracked(q)' => Tracked(q)
    BY <2>4, <2>6
  <2>9. \A q \in Commands :
          Tracked(q) => Tracked(q)' \/ (child'[q] = "reaped" /\ \A s \in Streams : Flushes(q, s))
    BY <1>2, <2>5, <2>6
  <2> QED
    BY <1>2, <2>7, <2>8, <2>9 DEF OutputMoves
<1> QED
  BY <1>1, <1>3, <1>4 DEF Exited, Pid

LEMMA Moves == Inv /\ Inv' /\ [Next]_vars => OutputMoves
<1> SUFFICES ASSUME Inv, Inv', [Next]_vars PROVE OutputMoves
  OBVIOUS
<1>1. CASE Poll \/ EventsDone \/ Reload \/ ReadSigchld \/ SignalsDone \/ NobodyDead
  BY <1>1, MovesNothing DEF Poll, EventsDone, Reload, ReadSigchld, SignalsDone, NobodyDead, daemon, process, Ages
<1>2. CASE Raise \/ AskReload \/ UNCHANGED vars
  BY <1>2, MovesNothing DEF Raise, AskReload, vars, daemon, process, Ages
<1>3. ASSUME NEW p \in Commands, Die(p) PROVE OutputMoves
  <2>1. \A q \in Commands : Ages(q)
    BY <1>3 DEF Die, Inv, TypeOK, Ages
  <2> QED
    BY <1>3, <2>1, MovesNothing DEF Die, daemon
<1> QED
  BY <1>1, <1>2, <1>3, MovesLog, MovesLaunch, MovesReap, MovesWrite DEF Next, Daemon, Finish, Killed

-----------------------------------------------------------------------------
(* What a read, the end of a command and a write do to the packets held.    *)
LEMMA OccursPart ==
  ASSUME NEW L, NEW B, NEW Q \in Seq(Items), Q # <<>>, NEW m
  PROVE  /\ Occurs(m, L, <<Head(Q)>>, Tail(Q)) => Occurs(m, L, B, Q)
         /\ Occurs(m, L, B, Q) => Occurs(m, L, <<Head(Q)>>, Tail(Q)) \/ \E j \in DOMAIN B : B[j] = m
<1> DEFINE h == Head(Q)
           T == Tail(Q)
<1>1. /\ \A j \in DOMAIN Q : Q[j] = h \/ \E k \in DOMAIN T : T[k] = Q[j]
      /\ \A k \in DOMAIN T : \E j \in DOMAIN Q : Q[j] = T[k]
      /\ \E j \in DOMAIN Q : Q[j] = h
  BY HeadBelow
<1> HIDE DEF T, h
<1>2. 1 \in DOMAIN <<h>> /\ \A j \in DOMAIN <<h>> : <<h>>[j] = h
  OBVIOUS
<1>3. /\ Occurs(m, L, <<h>>, T) => Occurs(m, L, B, Q)
      /\ Occurs(m, L, B, Q) => Occurs(m, L, <<h>>, T) \/ \E j \in DOMAIN B : B[j] = m
  BY <1>1, <1>2 DEF Occurs
<1> QED
  BY <1>3 DEF T, h

LEMMA OccursLine ==
  ASSUME NEW L \in Seq(Seq(Items)), NEW B \in Seq(Items), NEW Q \in Seq(Items), Q # <<>>, NEW m
  PROVE  Occurs(m, Append(L, Append(B, Head(Q))), <<>>, Tail(Q)) <=> Occurs(m, L, B, Q)
<1> DEFINE h == Head(Q)
           T == Tail(Q)
           l == Append(B, h)
           A == Append(L, l)
<1>1. /\ \A j \in DOMAIN Q : Q[j] = h \/ \E k \in DOMAIN T : T[k] = Q[j]
      /\ \A k \in DOMAIN T : \E j \in DOMAIN Q : Q[j] = T[k]
      /\ \E j \in DOMAIN Q : Q[j] = h
      /\ h \in Items
  BY HeadBelow
<1> HIDE DEF T, h
<1>2. /\ \A k \in DOMAIN l : l[k] = h \/ \E j \in DOMAIN B : B[j] = l[k]
      /\ \A j \in DOMAIN B : \E k \in DOMAIN l : l[k] = B[j]
      /\ \E k \in DOMAIN l : l[k] = h
      /\ l \in Seq(Items)
  BY <1>1, AppendBelow
<1> HIDE DEF l
<1>3. /\ \A a \in DOMAIN L : a \in DOMAIN A /\ A[a] = L[a]
      /\ \E a \in DOMAIN A : A[a] = l
      /\ \A a \in DOMAIN A : a \in DOMAIN L \/ A[a] = l
  BY <1>2, LogLine
<1> HIDE DEF A
<1>4. ASSUME Occurs(m, A, <<>>, T) PROVE Occurs(m, L, B, Q)
  <2>1. CASE \E k \in DOMAIN T : T[k] = m
    BY <1>1, <2>1 DEF Occurs
  <2>2. CASE \E a \in DOMAIN A : \E j \in DOMAIN A[a] : A[a][j] = m
    <3>1. (\E a \in DOMAIN L : \E j \in DOMAIN L[a] : L[a][j] = m) \/ \E j \in DOMAIN l : l[j] = m
      BY <1>3, <2>2
    <3>2. CASE \E j \in DOMAIN l : l[j] = m
      BY <1>1, <1>2, <3>2 DEF Occurs
    <3> QED
      BY <3>1, <3>2 DEF Occurs
  <2> QED
    BY <1>4, <2>1, <2>2, Empties DEF Occurs
<1>5. ASSUME Occurs(m, L, B, Q) PROVE Occurs(m, A, <<>>, T)
  <2>1. CASE \E a \in DOMAIN L : \E j \in DOMAIN L[a] : L[a][j] = m
    BY <1>3, <2>1 DEF Occurs
  <2>2. CASE (\E j \in DOMAIN B : B[j] = m) \/ m = h
    <3>1. \E j \in DOMAIN l : l[j] = m
      BY <1>2, <2>2
    <3> QED
      BY <1>3, <3>1 DEF Occurs
  <2>3. CASE \E k \in DOMAIN T : T[k] = m
    BY <2>3 DEF Occurs
  <2> QED
    BY <1>1, <1>5, <2>1, <2>2, <2>3 DEF Occurs
<1> QED
  BY <1>4, <1>5 DEF A, l, T, h

LEMMA OccursFlush ==
  ASSUME NEW L \in Seq(Seq(Items)), NEW B \in Seq(Items), NEW Q, NEW m,
         Occurs(m, Append(L, B), <<>>, <<>>) \/ Occurs(m, L, <<>>, <<>>)
  PROVE  Occurs(m, L, B, Q)
<1> DEFINE A == Append(L, B)
<1>1. /\ \A a \in DOMAIN L : A[a] = L[a]
      /\ \A a \in DOMAIN A : a \in DOMAIN L \/ A[a] = B
  BY LogLine
<1>2. Occurs(m, A, <<>>, <<>>) \/ Occurs(m, L, <<>>, <<>>)
  OBVIOUS
<1> HIDE DEF A
<1> QED
  BY <1>1, <1>2, Empties DEF Occurs

LEMMA OccursWrite ==
  ASSUME NEW L, NEW B, NEW Q \in Seq(Items), NEW x \in Items, NEW m
  PROVE  Occurs(m, L, B, Append(Q, x)) <=> Occurs(m, L, B, Q) \/ m = x
<1> DEFINE A == Append(Q, x)
<1>1. /\ \A k \in DOMAIN A : A[k] = x \/ \E j \in DOMAIN Q : Q[j] = A[k]
      /\ \A j \in DOMAIN Q : \E k \in DOMAIN A : A[k] = Q[j]
      /\ \E k \in DOMAIN A : A[k] = x
  BY AppendBelow
<1> HIDE DEF A
<1>2. Occurs(m, L, B, A) <=> Occurs(m, L, B, Q) \/ m = x
  BY <1>1 DEF Occurs
<1> QED
  BY <1>2 DEF A

-----------------------------------------------------------------------------
(* What is logged, buffered and in the pipe is in the order in which it was *)
(* written, and was written by that command to that stream; a process that  *)
(* is not there yet has written nothing.                                    *)
Held(m, p, s) == Occurs(m, log[p][s], Buf(p, s), pipe[p][s])

InOrder(p, s) == Ordered(log[p][s], Buf(p, s), pipe[p][s])

Mine(p, s) == \A m : Held(m, p, s) => m.by = p /\ m.n \in 1 .. wrote[p] /\ plan[p][m.n].to = s

OutInv ==
  /\ \A p \in Commands : child[p] = "none" => wrote[p] = 0
  /\ \A p \in Commands : wrote[p] <= Len(plan[p])
  /\ \A p \in Commands, s \in Streams : InOrder(p, s) /\ Mine(p, s)

LEMMA OutInit == Init => OutInv
<1> SUFFICES ASSUME Init PROVE OutInv
  OBVIOUS
<1>1. \A p \in Commands : wrote[p] = 0 /\ plan[p] = <<>> /\ log[p] = Empty /\ pipe[p] = Empty
  BY DEF Init
<1>2. \A p \in Commands : ~Tracked(p)
  BY DEF Init, Tracked
<1>3. ASSUME NEW p \in Commands, NEW s \in Streams
      PROVE  log[p][s] = <<>> /\ pipe[p][s] = <<>> /\ Buf(p, s) = <<>>
  BY <1>1, <1>2 DEF Empty, Buf
<1>4. Ordered(<<>>, <<>>, <<>>) /\ \A m : ~Occurs(m, <<>>, <<>>, <<>>)
  BY Empties DEF Ordered, Occurs
<1>5. \A p \in Commands, s \in Streams : InOrder(p, s) /\ Mine(p, s)
  BY <1>3, <1>4 DEF InOrder, Mine, Held
<1> QED
  BY <1>1, <1>5 DEF OutInv

LEMMA NextItem ==
  ASSUME Inv, NEW p \in Commands
  PROVE  \E x \in Items : x = [by |-> p, n |-> wrote[p] + 1]
<1>1. wrote[p] + 1 \in Nat
  BY DEF Inv, TypeOK
<1>2. [by |-> p, n |-> wrote[p] + 1] \in Items
  BY <1>1 DEF Items
<1> QED
  BY <1>2

(* What is held after a step was held before, or is written by it.          *)
LEMMA HeldBefore ==
  ASSUME Inv, OutInv, NEW p \in Commands, NEW s \in Streams, NEW m, Held(m, p, s)',
         Rests(p, s) \/ Takes(p, s) \/ Flushes(p, s) \/ Puts(p, s)
  PROVE  \/ Held(m, p, s)
         \/ Puts(p, s) /\ m = [by |-> p, n |-> wrote[p] + 1]
<1>1. /\ Buf(p, s) \in Seq(Items)
      /\ log[p][s] \in Seq(Seq(Items))
      /\ pipe[p][s] \in Seq(Items)
  BY BufType
<1>2. Occurs(m, log'[p][s], Buf(p, s)', pipe'[p][s])
  BY DEF Held
<1>3. CASE Rests(p, s)
  BY <1>2, <1>3 DEF Rests, Held
<1>4. CASE Takes(p, s)
  <2>1. pipe[p][s] # <<>>
    BY <1>4 DEF Takes
  <2>2. Occurs(m, log[p][s], Buf(p, s), pipe[p][s])
    <3>1. \/ Occurs(m, log[p][s], <<Head(pipe[p][s])>>, Tail(pipe[p][s]))
          \/ Occurs(m, Append(log[p][s], Append(Buf(p, s), Head(pipe[p][s]))), <<>>, Tail(pipe[p][s]))
      BY <1>2, <1>4 DEF Takes
    <3> QED
      BY <1>1, <2>1, <3>1, OccursPart, OccursLine
  <2> QED
    BY <2>2 DEF Held
<1>5. CASE Flushes(p, s)
  <2>1. Occurs(m, Append(log[p][s], Buf(p, s)), <<>>, <<>>) \/ Occurs(m, log[p][s], <<>>, <<>>)
    BY <1>2, <1>5 DEF Flushes
  <2> QED
    BY <1>1, <2>1, OccursFlush DEF Held
<1>6. CASE Puts(p, s)
  <2>1. PICK x \in Items : x = [by |-> p, n |-> wrote[p] + 1]
    BY NextItem
  <2>2. Occurs(m, log[p][s], Buf(p, s), Append(pipe[p][s], x))
    BY <1>2, <1>6, <2>1 DEF Puts
  <2>3. Occurs(m, log[p][s], Buf(p, s), pipe[p][s]) \/ m = x
    BY <1>1, <2>2, OccursWrite
  <2> QED
    BY <1>6, <2>1, <2>3 DEF Held
<1> QED
  BY <1>3, <1>4, <1>5, <1>6

LEMMA InOrderAfter ==
  ASSUME Inv, OutInv, NEW p \in Commands, NEW s \in Streams,
         Rests(p, s) \/ Takes(p, s) \/ Flushes(p, s) \/ Puts(p, s)
  PROVE  InOrder(p, s)'
<1>1. /\ Buf(p, s) \in Seq(Items)
      /\ log[p][s] \in Seq(Seq(Items))
      /\ pipe[p][s] \in Seq(Items)
  BY BufType
<1>2. Ordered(log[p][s], Buf(p, s), pipe[p][s]) /\ Mine(p, s)
  BY DEF OutInv, InOrder
<1>3. CASE Rests(p, s)
  BY <1>2, <1>3 DEF Rests, InOrder
<1>4. CASE Takes(p, s)
  <2>1. pipe[p][s] # <<>>
    BY <1>4 DEF Takes
  <2>2. /\ Ordered(log[p][s], <<Head(pipe[p][s])>>, Tail(pipe[p][s]))
        /\ Ordered(Append(log[p][s], Append(Buf(p, s), Head(pipe[p][s]))), <<>>, Tail(pipe[p][s]))
    BY <1>1, <1>2, <2>1, OrderPart, OrderLine
  <2>3. Ordered(log'[p][s], Buf(p, s)', pipe'[p][s])
    BY <1>4, <2>2 DEF Takes
  <2> QED
    BY <2>3 DEF InOrder
<1>5. CASE Flushes(p, s)
  <2>1. /\ Ordered(Append(log[p][s], Buf(p, s)), <<>>, <<>>)
        /\ Ordered(log[p][s], <<>>, <<>>)
    BY <1>1, <1>2, OrderFlush
  <2>2. Ordered(log'[p][s], Buf(p, s)', pipe'[p][s])
    BY <1>5, <2>1 DEF Flushes
  <2> QED
    BY <2>2 DEF InOrder
<1>6. CASE Puts(p, s)
  <2>1. wrote[p] \in Nat
    BY DEF Inv, TypeOK
  <2>2. PICK x \in Items : x = [by |-> p, n |-> wrote[p] + 1]
    BY NextItem
  <2>3. \A m : Occurs(m, log[p][s], Buf(p, s), pipe[p][s]) => m.n < x.n
    BY <1>2, <2>1, <2>2 DEF Mine, Held
  <2>4. Ordered(log[p][s], Buf(p, s), Append(pipe[p][s], x))
    BY <1>1, <1>2, <2>3, OrderWrite
  <2>5. Ordered(log'[p][s], Buf(p, s)', pipe'[p][s])
    BY <1>6, <2>2, <2>4 DEF Puts
  <2> QED
    BY <2>5 DEF InOrder
<1> QED
  BY <1>3, <1>4, <1>5, <1>6

(* What a step may do with the plan of a command and with what it wrote.    *)
LEMMA WroteAfter ==
  ASSUME Inv, Inv', OutInv, OutputMoves, NEW p \in Commands
  PROVE  /\ wrote[p] \in Nat /\ wrote'[p] \in Nat
         /\ wrote'[p] = wrote[p] \/ wrote'[p] = wrote[p] + 1
         /\ plan'[p] = plan[p] \/ (wrote'[p] = 0 /\ wrote[p] = 0)
         /\ child'[p] = "none" => wrote'[p] = 0
         /\ child[p] = "none" => wrote'[p] = 0
         /\ wrote'[p] <= Len(plan'[p])
         /\ \A s \in Streams : Puts(p, s) => plan'[p] = plan[p]
<1>1. wrote[p] \in Nat /\ wrote'[p] \in Nat
  BY DEF Inv, TypeOK
<1>2. Len(plan'[p]) \in Nat /\ Len(plan[p]) \in Nat
  <2>1. plan'[p] \in Plans \cup {<<>>}
    BY DEF Inv, TypeOK
  <2>2. plan'[p] \in Seq(Packets)
    BY <2>1, CommandsAssumption, EmptySeq
  <2>3. plan[p] \in Seq(Packets)
    BY PlanType
  <2> QED
    BY <2>2, <2>3, LenProperties
<1>3. /\ child[p] = "none" => wrote[p] = 0
      /\ wrote[p] <= Len(plan[p])
      /\ child'[p] = "none" => child[p] = "none"
  BY DEF OutInv, OutputMoves, Ages
<1>4. CASE plan'[p] = plan[p] /\ wrote'[p] = wrote[p]
  BY <1>1, <1>3, <1>4
<1>5. CASE child[p] = "none" /\ child'[p] = "running" /\ wrote'[p] = wrote[p]
  <2>1. wrote'[p] = 0 /\ wrote[p] = 0 /\ \A s \in Streams : ~Puts(p, s)
    BY <1>3, <1>5 DEF Puts
  <2> QED
    BY <1>2, <2>1
<1>6. CASE plan'[p] = plan[p] /\ \E s \in Streams : Puts(p, s)
  <2>1. /\ child[p] = "running" /\ child'[p] # "none"
        /\ wrote[p] < Len(plan[p]) /\ wrote'[p] = wrote[p] + 1
    BY <1>3, <1>6 DEF Puts
  <2>2. wrote'[p] <= Len(plan'[p])
    BY <1>1, <1>2, <1>6, <2>1
  <2> QED
    BY <1>1, <1>6, <2>1, <2>2
<1> QED
  BY <1>4, <1>5, <1>6 DEF OutputMoves

LEMMA OutStep ==
  ASSUME Inv, Inv', OutInv, OutputMoves
  PROVE  OutInv'
<1>1. \A p \in Commands : (child'[p] = "none" => wrote'[p] = 0) /\ wrote'[p] <= Len(plan'[p])
  BY WroteAfter
<1>2. ASSUME NEW p \in Commands, NEW s \in Streams PROVE InOrder(p, s)' /\ Mine(p, s)'
  <2>1. Rests(p, s) \/ Takes(p, s) \/ Flushes(p, s) \/ Puts(p, s)
    BY DEF OutputMoves
  <2>2. InOrder(p, s)'
    BY <2>1, InOrderAfter
  <2>3. /\ wrote[p] \in Nat /\ wrote'[p] \in Nat
        /\ wrote'[p] = wrote[p] \/ wrote'[p] = wrote[p] + 1
        /\ plan'[p] = plan[p] \/ wrote[p] = 0
        /\ Puts(p, s) => plan'[p] = plan[p]
    BY WroteAfter
  <2>4. ASSUME NEW m, Held(m, p, s)'
        PROVE  m.by = p /\ m.n \in 1 .. wrote'[p] /\ plan'[p][m.n].to = s
    <3>1. CASE Held(m, p, s)
      <4>1. m.by = p /\ m.n \in 1 .. wrote[p] /\ plan[p][m.n].to = s
        BY <3>1 DEF OutInv, Mine
      <4>2. plan'[p] = plan[p] /\ m.n \in 1 .. wrote'[p]
        BY <2>3, <4>1
      <4> QED
        BY <4>1, <4>2
    <3>2. CASE Puts(p, s) /\ m = [by |-> p, n |-> wrote[p] + 1]
      BY <2>3, <3>2 DEF Puts
    <3> QED
      BY <2>1, <2>4, <3>1, <3>2, HeldBefore
  <2>5. Mine(p, s)'
    BY <2>4 DEF Mine
  <2> QED
    BY <2>2, <2>5
<1> QED
  BY <1>1, <1>2 DEF OutInv

LEMMA OutInvariant == Spec => [](Inv /\ OutInv)
<1>1. Init => Inv /\ OutInv
  BY InvInit, OutInit
<1>2. Inv /\ OutInv /\ [Next]_vars => (Inv /\ OutInv)'
  BY InvStep, Moves, OutStep
<1> QED
  BY <1>1, <1>2, PTL DEF Spec

(* The places of the packets, in the terms of the lemmas above.             *)
LEMMA PlacesAre ==
  ASSUME NEW p, NEW s, NEW x
  PROVE  x \in Places(p, s) <=>
           \/ \E a \in DOMAIN log[p][s] : x \in {<<1, a, j>> : j \in DOMAIN log[p][s][a]}
           \/ \E i \in DOMAIN cmd_runnings :
                Pid(i) = p /\ x \in {<<2, i, j>> : j \in DOMAIN entry[cmd_runnings[i]].buf[s]}
           \/ x \in {<<3, 1, j>> : j \in DOMAIN pipe[p][s]}
<1> DEFINE U1 == UNION {{<<1, i, j>> : j \in DOMAIN log[p][s][i]} : i \in DOMAIN log[p][s]}
           U2 == UNION {{<<2, i, j>> : j \in DOMAIN entry[cmd_runnings[i]].buf[s]} :
                          i \in {k \in DOMAIN cmd_runnings : entry[cmd_runnings[k]].pid = p}}
           U3 == {<<3, 1, j>> : j \in DOMAIN pipe[p][s]}
<1>1. Places(p, s) = U1 \cup U2 \cup U3
  BY DEF Places
<1>2. x \in U1 <=> \E a \in DOMAIN log[p][s] : x \in {<<1, a, j>> : j \in DOMAIN log[p][s][a]}
  OBVIOUS
<1>3. x \in U2 <=> \E i \in DOMAIN cmd_runnings :
                     Pid(i) = p /\ x \in {<<2, i, j>> : j \in DOMAIN entry[cmd_runnings[i]].buf[s]}
  BY DEF Pid
<1> HIDE DEF U1, U2
<1> QED
  BY <1>1, <1>2, <1>3

LEMMA PlaceIs ==
  ASSUME Inv, NEW p \in Commands, NEW s \in Streams, NEW x \in Places(p, s)
  PROVE  \/ \E a \in DOMAIN log[p][s] : \E j \in DOMAIN log[p][s][a] :
              x = <<1, a, j>> /\ At(p, s, x) = log[p][s][a][j]
         \/ \E i \in DOMAIN cmd_runnings : Pid(i) = p /\ \E j \in DOMAIN Buf(p, s) :
              x = <<2, i, j>> /\ At(p, s, x) = Buf(p, s)[j]
         \/ \E j \in DOMAIN pipe[p][s] : x = <<3, 1, j>> /\ At(p, s, x) = pipe[p][s][j]
<1>1. CASE \E a \in DOMAIN log[p][s] : x \in {<<1, a, j>> : j \in DOMAIN log[p][s][a]}
  <2>1. PICK a \in DOMAIN log[p][s] : \E j \in DOMAIN log[p][s][a] : x = <<1, a, j>>
    BY <1>1
  <2>2. PICK j \in DOMAIN log[p][s][a] : x = <<1, a, j>>
    BY <2>1
  <2>3. At(p, s, x) = log[p][s][a][j]
    BY <2>2 DEF At
  <2> QED
    BY <2>2, <2>3
<1>2. CASE \E i \in DOMAIN cmd_runnings :
             Pid(i) = p /\ x \in {<<2, i, j>> : j \in DOMAIN entry[cmd_runnings[i]].buf[s]}
  <2>1. PICK i \in DOMAIN cmd_runnings : Pid(i) = p /\ \E j \in DOMAIN entry[cmd_runnings[i]].buf[s] : x = <<2, i, j>>
    BY <1>2
  <2>2. PICK j \in DOMAIN entry[cmd_runnings[i]].buf[s] : x = <<2, i, j>>
    BY <2>1
  <2>3. At(p, s, x) = entry[cmd_runnings[i]].buf[s][j]
    BY <2>2 DEF At
  <2>4. Buf(p, s) = entry[cmd_runnings[i]].buf[s]
    BY <2>1, BufIs
  <2> QED
    BY <2>1, <2>2, <2>3, <2>4
<1>3. CASE x \in {<<3, 1, j>> : j \in DOMAIN pipe[p][s]}
  <2>1. PICK j \in DOMAIN pipe[p][s] : x = <<3, 1, j>>
    BY <1>3
  <2>2. At(p, s, x) = pipe[p][s][j]
    BY <2>1 DEF At
  <2> QED
    BY <2>1, <2>2
<1> QED
  BY <1>1, <1>2, <1>3, PlacesAre

LEMMA PlaceOf ==
  ASSUME Inv, NEW p \in Commands, NEW s \in Streams
  PROVE  /\ \A m : Held(m, p, s) <=> \E x \in Places(p, s) : At(p, s, x) = m
         /\ \A m : (\E j \in DOMAIN Buf(p, s) : Buf(p, s)[j] = m)
                     <=> \E x \in Places(p, s) : x[1] = 2 /\ At(p, s, x) = m
<1>1. ASSUME NEW x \in Places(p, s)
      PROVE  Held(At(p, s, x), p, s) /\ (x[1] = 2 => \E j \in DOMAIN Buf(p, s) : Buf(p, s)[j] = At(p, s, x))
  BY PlaceIs DEF Held, Occurs
<1>2. ASSUME NEW a \in DOMAIN log[p][s], NEW j \in DOMAIN log[p][s][a]
      PROVE  <<1, a, j>> \in Places(p, s) /\ At(p, s, <<1, a, j>>) = log[p][s][a][j]
  <2>1. <<1, a, j>> \in {<<1, a, k>> : k \in DOMAIN log[p][s][a]}
    OBVIOUS
  <2> QED
    BY <2>1, PlacesAre DEF At
<1>3. ASSUME NEW j \in DOMAIN Buf(p, s)
      PROVE  \E x \in Places(p, s) : x[1] = 2 /\ At(p, s, x) = Buf(p, s)[j]
  <2>1. Tracked(p)
    BY <1>3, Empties DEF Buf
  <2>2. PICK i \in DOMAIN cmd_runnings : Pid(i) = p
    BY <2>1 DEF Tracked, Pid
  <2>3. Buf(p, s) = entry[cmd_runnings[i]].buf[s]
    BY <2>2, BufIs
  <2>4. <<2, i, j>> \in Places(p, s)
    <3>1. <<2, i, j>> \in {<<2, i, k>> : k \in DOMAIN entry[cmd_runnings[i]].buf[s]}
      BY <1>3, <2>3
    <3> QED
      BY <2>2, <3>1, PlacesAre
  <2>5. At(p, s, <<2, i, j>>) = Buf(p, s)[j] /\ <<2, i, j>>[1] = 2
    BY <2>3 DEF At
  <2> QED
    BY <2>4, <2>5
<1>4. ASSUME NEW j \in DOMAIN pipe[p][s]
      PROVE  <<3, 1, j>> \in Places(p, s) /\ At(p, s, <<3, 1, j>>) = pipe[p][s][j]
  <2>1. <<3, 1, j>> \in {<<3, 1, k>> : k \in DOMAIN pipe[p][s]}
    OBVIOUS
  <2> QED
    BY <2>1, PlacesAre DEF At
<1>5. ASSUME NEW m, Held(m, p, s) PROVE \E x \in Places(p, s) : At(p, s, x) = m
  BY <1>2, <1>3, <1>4, <1>5 DEF Held, Occurs
<1> QED
  BY <1>1, <1>3, <1>5

(* What is logged for a stream of a command, then what its buffer and its   *)
(* pipe hold, was all written by that command to that stream, in this       *)
(* order, and nothing twice (ind_comm.c:291-292, 314-340 and 349-367).      *)
THEOREM OrderAlways == Spec => []OutputInOrder
<1>1. ASSUME Inv, OutInv PROVE OutputInOrder
  <2>1. ASSUME NEW p \in Commands, NEW s \in Streams, NEW x \in Places(p, s)
        PROVE  At(p, s, x).by = p /\ plan[p][At(p, s, x).n].to = s
    BY <1>1, PlaceOf DEF OutInv, Mine
  <2>2. ASSUME NEW p \in Commands, NEW s \in Streams,
               NEW x \in Places(p, s), NEW y \in Places(p, s), Before(x, y)
        PROVE  At(p, s, x).n < At(p, s, y).n
    <3>1. Ordered(log[p][s], Buf(p, s), pipe[p][s])
      BY <1>1 DEF OutInv, InOrder
    <3>2. CASE \E a \in DOMAIN log[p][s] : \E j \in DOMAIN log[p][s][a] :
                 x = <<1, a, j>> /\ At(p, s, x) = log[p][s][a][j]
      <4>1. PICK a \in DOMAIN log[p][s] : \E j \in DOMAIN log[p][s][a] :
              x = <<1, a, j>> /\ At(p, s, x) = log[p][s][a][j]
        BY <3>2
      <4>5. PICK j \in DOMAIN log[p][s][a] : x = <<1, a, j>> /\ At(p, s, x) = log[p][s][a][j]
        BY <4>1
      <4>2. CASE \E b \in DOMAIN log[p][s] : \E k \in DOMAIN log[p][s][b] :
                   y = <<1, b, k>> /\ At(p, s, y) = log[p][s][b][k]
        <5>1. PICK b \in DOMAIN log[p][s] : \E k \in DOMAIN log[p][s][b] :
                y = <<1, b, k>> /\ At(p, s, y) = log[p][s][b][k]
          BY <4>2
        <5>2. PICK k \in DOMAIN log[p][s][b] : y = <<1, b, k>> /\ At(p, s, y) = log[p][s][b][k]
          BY <5>1
        <5>3. a < b \/ (a = b /\ j < k)
          BY <2>2, <4>5, <5>2 DEF Before
        <5> QED
          BY <3>1, <4>5, <5>2, <5>3 DEF Ordered, Rising, Below
      <4>3. CASE \E k \in DOMAIN Buf(p, s) : At(p, s, y) = Buf(p, s)[k]
        BY <3>1, <4>3, <4>5 DEF Ordered, Below
      <4>4. CASE \E k \in DOMAIN pipe[p][s] : At(p, s, y) = pipe[p][s][k]
        BY <3>1, <4>4, <4>5 DEF Ordered, Below
      <4> QED
        BY <1>1, <4>2, <4>3, <4>4, PlaceIs
    <3>3. CASE \E i \in DOMAIN cmd_runnings : Pid(i) = p /\ \E j \in DOMAIN Buf(p, s) :
                 x = <<2, i, j>> /\ At(p, s, x) = Buf(p, s)[j]
      <4>1. PICK i \in DOMAIN cmd_runnings, j \in DOMAIN Buf(p, s) :
              Pid(i) = p /\ x = <<2, i, j>> /\ At(p, s, x) = Buf(p, s)[j]
        BY <3>3
      <4>2. CASE \E l \in DOMAIN cmd_runnings : Pid(l) = p /\ \E k \in DOMAIN Buf(p, s) :
                   y = <<2, l, k>> /\ At(p, s, y) = Buf(p, s)[k]
        <5>1. PICK l \in DOMAIN cmd_runnings, k \in DOMAIN Buf(p, s) :
                Pid(l) = p /\ y = <<2, l, k>> /\ At(p, s, y) = Buf(p, s)[k]
          BY <4>2
        <5>2. l = i
          BY <1>1, <4>1, <5>1 DEF Inv, Followers
        <5>3. i \in Nat
          BY <1>1, LenProperties DEF Inv, TypeOK
        <5>4. j < k
          BY <2>2, <4>1, <5>1, <5>2, <5>3 DEF Before
        <5> QED
          BY <3>1, <4>1, <5>1, <5>4 DEF Ordered, Rising
      <4>3. CASE \E k \in DOMAIN pipe[p][s] : At(p, s, y) = pipe[p][s][k]
        BY <3>1, <4>1, <4>3 DEF Ordered, Below
      <4>4. ~\E b \in DOMAIN log[p][s] : \E k \in DOMAIN log[p][s][b] : y = <<1, b, k>>
        BY <2>2, <4>1 DEF Before
      <4> QED
        BY <1>1, <4>2, <4>3, <4>4, PlaceIs
    <3>4. CASE \E j \in DOMAIN pipe[p][s] : x = <<3, 1, j>> /\ At(p, s, x) = pipe[p][s][j]
      <4>1. PICK j \in DOMAIN pipe[p][s] : x = <<3, 1, j>> /\ At(p, s, x) = pipe[p][s][j]
        BY <3>4
      <4>2. /\ ~\E b \in DOMAIN log[p][s] : \E k \in DOMAIN log[p][s][b] : y = <<1, b, k>>
            /\ ~\E l \in DOMAIN cmd_runnings : \E k \in DOMAIN Buf(p, s) : y = <<2, l, k>>
        BY <2>2, <4>1 DEF Before
      <4>3. PICK k \in DOMAIN pipe[p][s] : y = <<3, 1, k>> /\ At(p, s, y) = pipe[p][s][k]
        BY <1>1, <4>2, PlaceIs
      <4>4. j < k
        BY <2>2, <4>1, <4>3 DEF Before
      <4> QED
        BY <3>1, <4>1, <4>3, <4>4 DEF Ordered, Rising
    <3> QED
      BY <1>1, <3>2, <3>3, <3>4, PlaceIs
  <2> QED
    BY <2>1, <2>2 DEF OutputInOrder
<1> QED
  BY <1>1, OutInvariant, PTL

-----------------------------------------------------------------------------
(* What is kept.  What a command wrote to a stream and the pipe does not    *)
(* hold any more was written before what it holds; what was written after   *)
(* the packet of the buffer is in the pipe.  The buffer holds one packet,   *)
(* the part of a line.                                                      *)
Has(p, s, n) == \E m : Held(m, p, s) /\ m.n = n
Buffered(p, s, n) == \E j \in DOMAIN Buf(p, s) : Buf(p, s)[j].n = n
Piped(p, s, n) == \E k \in DOMAIN pipe[p][s] : pipe[p][s][k].n = n

Written(p, s) == {n \in 1 .. wrote[p] : plan[p][n].to = s}

Latest(p, s) ==
  \A n \in Written(p, s) :
    /\ (\E k \in DOMAIN pipe[p][s] : pipe[p][s][k].n <= n) => Piped(p, s, n)
    /\ (\E j \in DOMAIN Buf(p, s) : Buf(p, s)[j].n < n) => Piped(p, s, n)

Kept(p, s) ==
  \A n \in Written(p, s) :
    IF plan[p][n].line THEN Has(p, s, n) /\ ~Buffered(p, s, n)
    ELSE Has(p, s, n) \/ ReplacedBy(p, s, n) \in 1 .. wrote[p]

KeptInv ==
  /\ \A p \in Commands, s \in Streams : \A j, k \in DOMAIN Buf(p, s) : j = k
  /\ \A p \in Commands, s \in Streams : Tracked(p) => Latest(p, s) /\ Kept(p, s)

(* The part of a line that is replaced in the buffer is replaced by the     *)
(* packet of its stream that was written next.                              *)
LEMMA NextIs ==
  ASSUME NEW p \in Commands, NEW s \in Streams, NEW n \in Nat, NEW m \in n + 1 .. Len(plan[p]),
         Len(plan[p]) \in Nat,
         plan[p][m].to = s, ~plan[p][m].line,
         \A l \in n + 1 .. m - 1 : plan[p][l].to # s
  PROVE  ReplacedBy(p, s, n) = m
<1> DEFINE next == {k \in n + 1 .. Len(plan[p]) :
                      /\ plan[p][k].to = s
                      /\ \A l \in n + 1 .. k - 1 : plan[p][l].to # s}
<1>1. m \in next
  OBVIOUS
<1>2. ASSUME NEW k \in next PROVE k = m
  <2>1. k \in n + 1 .. Len(plan[p]) /\ plan[p][k].to = s
    OBVIOUS
  <2>2. CASE k < m
    BY <2>1, <2>2
  <2>3. CASE m < k
    <3>1. m \in n + 1 .. k - 1
      BY <2>1, <2>3
    <3> QED
      BY <3>1
  <2> QED
    BY <2>1, <2>2, <2>3
<1>3. ReplacedBy(p, s, n) = IF \E k \in next : ~plan[p][k].line THEN CHOOSE k \in next : TRUE ELSE 0
  BY DEF ReplacedBy
<1> HIDE DEF next
<1> QED
  BY <1>1, <1>2, <1>3

LEMMA KeptInit == Init => KeptInv
<1> SUFFICES ASSUME Init PROVE KeptInv
  OBVIOUS
<1>1. \A p \in Commands : ~Tracked(p)
  BY DEF Init, Tracked
<1>2. \A p \in Commands, s \in Streams : Buf(p, s) = <<>>
  BY <1>1 DEF Buf
<1> QED
  BY <1>1, <1>2, Empties DEF KeptInv

(* The buffer never holds two packets.                                      *)
LEMMA OneBuffered ==
  ASSUME KeptInv, NEW p \in Commands, NEW s \in Streams,
         Rests(p, s) \/ Takes(p, s) \/ Flushes(p, s) \/ Puts(p, s)
  PROVE  \A j, k \in DOMAIN Buf(p, s)' : j = k
<1>1. CASE Rests(p, s) \/ Puts(p, s)
  BY <1>1 DEF KeptInv, Rests, Puts
<1>2. CASE Takes(p, s) \/ Flushes(p, s)
  <2>1. Buf(p, s)' = <<>> \/ Buf(p, s)' = <<Head(pipe[p][s])>>
    BY <1>2 DEF Takes, Flushes
  <2> QED
    BY <2>1, Empties
<1> QED
  BY <1>1, <1>2

(* The steps that leave what was written as it is: what is read goes        *)
(* to the buffer or to the log.                                             *)
LEMMA KeptReading ==
  ASSUME Inv, OutInv, KeptInv, NEW p \in Commands, NEW s \in Streams, Takes(p, s),
         plan'[p] = plan[p], Written(p, s)' = Written(p, s), 1 .. wrote[p] \subseteq 1 .. wrote'[p]
  PROVE  Latest(p, s)' /\ Kept(p, s)'
<1>1. /\ Buf(p, s) \in Seq(Items)
      /\ log[p][s] \in Seq(Seq(Items))
      /\ pipe[p][s] \in Seq(Items)
      /\ Tracked(p) /\ pipe[p][s] # <<>>
  BY BufType DEF Takes
<1>2. PICK L \in Seq(Seq(Items)), B \in Seq(Items), Q \in Seq(Items) :
        L = log[p][s] /\ B = Buf(p, s) /\ Q = pipe[p][s] /\ Q # <<>>
  BY <1>1
<1>3. PICK h \in Items, T \in Seq(Items) : h = Head(Q) /\ T = Tail(Q)
  BY <1>2, HeadBelow
<1>4. /\ \A j \in DOMAIN Q : Q[j] = h \/ \E k \in DOMAIN T : T[k] = Q[j]
      /\ \A k \in DOMAIN T : \E j \in DOMAIN Q : Q[j] = T[k]
      /\ \E j \in DOMAIN Q : Q[j] = h
      /\ Rising(Q) => Below(<<h>>, T)
  <2>1. /\ \A j \in DOMAIN Q : Q[j] = Head(Q) \/ \E k \in DOMAIN Tail(Q) : Tail(Q)[k] = Q[j]
        /\ \A k \in DOMAIN Tail(Q) : \E j \in DOMAIN Q : Q[j] = Tail(Q)[k]
        /\ \E j \in DOMAIN Q : Q[j] = Head(Q)
        /\ Rising(Q) => Below(<<Head(Q)>>, Tail(Q))
    BY <1>2, HeadBelow
  <2> QED
    BY <1>3, <2>1
<1>5. /\ \A k \in DOMAIN T : h.n < T[k].n
      /\ \A j \in DOMAIN B : B[j].n < h.n
  <2>1. Rising(Q) /\ Below(B, Q)
    BY <1>2 DEF OutInv, InOrder, Ordered
  <2>2. <<h>>[1] = h /\ 1 \in DOMAIN <<h>>
    OBVIOUS
  <2> QED
    BY <1>4, <2>1, <2>2 DEF Below
<1>6. h.by = p /\ h.n \in Written(p, s)
  <2>1. Held(h, p, s)
    BY <1>2, <1>4 DEF Held, Occurs
  <2> QED
    BY <2>1 DEF OutInv, Mine, Written
<1>7. /\ pipe'[p][s] = T
      /\ Written(p, s)' = Written(p, s)
      /\ IF plan[p][h.n].line
         THEN log'[p][s] = Append(L, Append(B, h)) /\ Buf(p, s)' = <<>>
         ELSE log'[p][s] = L /\ Buf(p, s)' = <<h>>
  BY <1>2, <1>3, <1>6 DEF Takes
<1>8. /\ \A n \in Written(p, s) :
           /\ (\E k \in DOMAIN Q : Q[k].n <= n) => \E k \in DOMAIN Q : Q[k].n = n
           /\ (\E j \in DOMAIN B : B[j].n < n) => \E k \in DOMAIN Q : Q[k].n = n
      /\ Kept(p, s)
      /\ \A j, k \in DOMAIN B : j = k
  BY <1>1, <1>2 DEF KeptInv, Latest, Piped
<1>9. /\ Written(p, s) \subseteq Nat /\ h.n \in Nat
      /\ \A k \in DOMAIN T : T[k].n \in Nat
      /\ \A k \in DOMAIN Q : Q[k].n \in Nat
      /\ \A j \in DOMAIN B : B[j].n \in Nat
  <2>1. wrote[p] \in Nat
    BY DEF Inv, TypeOK
  <2>2. Written(p, s) \subseteq Nat
    BY <2>1 DEF Written
  <2>3. \A x \in Items : x.n \in Nat
    BY DEF Items
  <2>4. /\ \A k \in DOMAIN T : T[k] \in Items
        /\ \A k \in DOMAIN Q : Q[k] \in Items
        /\ \A j \in DOMAIN B : B[j] \in Items
    BY <1>2, <1>3, ElementOfSeq, LenProperties
  <2> QED
    BY <1>3, <2>2, <2>3, <2>4
<1>10. ASSUME NEW n \in Written(p, s), h.n < n
       PROVE  \E k \in DOMAIN T : T[k].n = n
  <2>1. \E k \in DOMAIN Q : Q[k].n <= n
    BY <1>4, <1>9, <1>10
  <2>2. PICK k \in DOMAIN Q : Q[k].n = n
    BY <1>8, <2>1
  <2>3. Q[k] # h
    BY <1>9, <1>10, <2>2
  <2> QED
    BY <1>4, <2>2, <2>3
<1>11. Latest(p, s)'
  <2>1. ASSUME NEW n \in Written(p, s), \E k \in DOMAIN T : T[k].n <= n
        PROVE  \E k \in DOMAIN T : T[k].n = n
    BY <1>5, <1>9, <1>10, <2>1
  <2>2. ASSUME NEW n \in Written(p, s), \E j \in DOMAIN Buf(p, s)' : Buf(p, s)'[j].n < n
        PROVE  \E k \in DOMAIN T : T[k].n = n
    <3>1. Buf(p, s)' = <<h>>
      BY <1>7, <2>2, Empties
    <3>2. h.n < n
      BY <2>2, <3>1
    <3> QED
      BY <1>10, <3>2
  <2> QED
    BY <1>7, <2>1, <2>2 DEF Latest, Piped
<1>12. \A n : ReplacedBy(p, s, n)' = ReplacedBy(p, s, n)
  BY DEF ReplacedBy
<1>13. CASE plan[p][h.n].line
  <2>1. \A m : Held(m, p, s)' <=> Held(m, p, s)
    <3>1. \A m : Occurs(m, Append(L, Append(B, h)), <<>>, T) <=> Occurs(m, L, B, Q)
      BY <1>2, <1>3, OccursLine
    <3> QED
      BY <1>2, <1>7, <1>13, <3>1 DEF Held
  <2>2. \A n : (Has(p, s, n)' <=> Has(p, s, n)) /\ ~Buffered(p, s, n)'
    BY <1>7, <1>13, <2>1, Empties DEF Has, Buffered
  <2>3. Kept(p, s)'
    BY <1>7, <1>8, <1>12, <2>2 DEF Kept
  <2> QED
    BY <1>11, <2>3
<1>14. CASE ~plan[p][h.n].line
  <2>1. \A m : Held(m, p, s) => Held(m, p, s)' \/ \E j \in DOMAIN B : B[j] = m
    <3>1. \A m : Occurs(m, L, B, Q) => Occurs(m, L, <<h>>, T) \/ \E j \in DOMAIN B : B[j] = m
      BY <1>2, <1>3, OccursPart
    <3> QED
      BY <1>2, <1>7, <1>14, <3>1 DEF Held
  <2>2. \A n : Has(p, s, n) => Has(p, s, n)' \/ Buffered(p, s, n)
    BY <1>2, <2>1 DEF Has, Buffered
  <2>3. \A n : Buffered(p, s, n)' => n = h.n
    BY <1>7, <1>14 DEF Buffered
  <2>4. ASSUME NEW n \in Written(p, s), Buffered(p, s, n)
        PROVE  ReplacedBy(p, s, n) = h.n
    <3>1. n < h.n
      BY <1>2, <1>5, <2>4 DEF Buffered
    <3>2. ASSUME NEW l \in Written(p, s), n < l PROVE h.n <= l
      <4>1. \E j \in DOMAIN B : B[j].n < l
        BY <1>2, <2>4, <3>2 DEF Buffered
      <4>2. PICK k \in DOMAIN Q : Q[k].n = l
        BY <1>8, <4>1
      <4>3. Q[k] = h \/ h.n < Q[k].n
        BY <1>4, <1>5
      <4> QED
        BY <1>9, <4>2, <4>3
    <3>3. wrote[p] \in Nat /\ Len(plan[p]) \in Nat /\ wrote[p] <= Len(plan[p])
      BY PlanType, LenProperties DEF Inv, TypeOK, OutInv
    <3>4. h.n \in 1 .. wrote[p] /\ n \in Nat /\ plan[p][h.n].to = s
      BY <1>6, <1>9 DEF Written
    <3>5. h.n \in n + 1 .. Len(plan[p])
      BY <3>1, <3>3, <3>4
    <3>6. ASSUME NEW l \in n + 1 .. h.n - 1 PROVE plan[p][l].to # s
      <4>1. l \in 1 .. wrote[p] /\ n < l /\ ~(h.n <= l)
        BY <3>3, <3>4
      <4> QED
        BY <3>2, <4>1 DEF Written
    <3> QED
      BY <1>14, <3>3, <3>4, <3>5, <3>6, NextIs
  <2>5. ASSUME NEW n \in Written(p, s), plan[p][n].line
        PROVE  Has(p, s, n)' /\ ~Buffered(p, s, n)'
    BY <1>8, <1>14, <2>2, <2>3, <2>5 DEF Kept
  <2>6. ASSUME NEW n \in Written(p, s), ~plan[p][n].line
        PROVE  Has(p, s, n)' \/ ReplacedBy(p, s, n) \in 1 .. wrote[p]
    <3>1. h.n \in 1 .. wrote[p]
      BY <1>6 DEF Written
    <3> QED
      BY <1>8, <2>2, <2>4, <2>6, <3>1 DEF Kept
  <2>7. Kept(p, s)'
    BY <1>7, <1>12, <2>5, <2>6 DEF Kept
  <2> QED
    BY <1>11, <2>7
<1> QED
  BY <1>13, <1>14

(* A packet that is written is in the pipe, the last one.                   *)
LEMMA KeptWriting ==
  ASSUME Inv, OutInv, KeptInv, NEW p \in Commands, NEW s \in Streams, Tracked(p), Puts(p, s),
         plan'[p] = plan[p]
  PROVE  Latest(p, s)' /\ Kept(p, s)'
<1>1. PICK x \in Items : x = [by |-> p, n |-> wrote[p] + 1]
  BY NextItem
<1>2. /\ wrote[p] \in Nat /\ wrote'[p] = wrote[p] + 1
      /\ log'[p][s] = log[p][s] /\ Buf(p, s)' = Buf(p, s)
      /\ pipe'[p][s] = Append(pipe[p][s], x)
  BY <1>1 DEF Puts, Inv, TypeOK
<1>3. Written(p, s)' = Written(p, s) \cup {x.n}
  <2>1. plan[p][x.n].to = s /\ x.n = wrote[p] + 1
    BY <1>1 DEF Puts
  <2>2. 1 .. wrote'[p] = (1 .. wrote[p]) \cup {x.n}
    BY <1>2, <2>1
  <2> QED
    BY <2>1, <2>2 DEF Written
<1>4. pipe[p][s] \in Seq(Items)
  BY BufType
<1>5. PICK A : A = Append(pipe[p][s], x)
  OBVIOUS
<1>6. /\ \A k \in DOMAIN A : A[k] = x \/ \E j \in DOMAIN pipe[p][s] : pipe[p][s][j] = A[k]
      /\ \A j \in DOMAIN pipe[p][s] : \E k \in DOMAIN A : A[k] = pipe[p][s][j]
      /\ \E k \in DOMAIN A : A[k] = x
  <2>1. /\ \A k \in DOMAIN Append(pipe[p][s], x) :
             \/ Append(pipe[p][s], x)[k] = x
             \/ \E j \in DOMAIN pipe[p][s] : pipe[p][s][j] = Append(pipe[p][s], x)[k]
        /\ \A j \in DOMAIN pipe[p][s] :
             \E k \in DOMAIN Append(pipe[p][s], x) : Append(pipe[p][s], x)[k] = pipe[p][s][j]
        /\ \E k \in DOMAIN Append(pipe[p][s], x) : Append(pipe[p][s], x)[k] = x
    BY <1>4, AppendBelow
  <2> QED
    BY <1>5, <2>1
<1>7. \A n : Piped(p, s, n)' <=> (Piped(p, s, n) \/ n = x.n)
  <2>1. pipe'[p][s] = A
    BY <1>2, <1>5
  <2> QED
    BY <1>6, <2>1 DEF Piped
<1>8. Latest(p, s) /\ Kept(p, s)
  BY DEF KeptInv
<1>9. \A n \in Written(p, s) : n \in Nat /\ n < x.n
  BY <1>1, <1>2 DEF Written
<1>10. Latest(p, s)'
  <2>1. ASSUME NEW n \in Written(p, s), \E k \in DOMAIN A : A[k].n <= n
        PROVE  Piped(p, s, n)'
    <3>1. \E k \in DOMAIN pipe[p][s] : pipe[p][s][k].n <= n
      <4>1. ~(x.n <= n)
        BY <1>1, <1>2, <1>9
      <4> QED
        BY <1>6, <2>1, <4>1
    <3> QED
      BY <1>7, <1>8, <3>1 DEF Latest
  <2>2. ASSUME NEW n \in Written(p, s), \E j \in DOMAIN Buf(p, s) : Buf(p, s)[j].n < n
        PROVE  Piped(p, s, n)'
    BY <1>7, <1>8, <2>2 DEF Latest
  <2>3. Piped(p, s, x.n)'
    BY <1>7
  <2> QED
    BY <1>2, <1>3, <1>5, <2>1, <2>2, <2>3 DEF Latest
<1>11. \A n : ReplacedBy(p, s, n)' = ReplacedBy(p, s, n)
  BY DEF ReplacedBy
<1>12. /\ \A n : Buffered(p, s, n)' <=> Buffered(p, s, n)
       /\ \A n : Has(p, s, n)' <=> Has(p, s, n) \/ n = x.n
  <2>1. \A m : Occurs(m, log[p][s], Buf(p, s), Append(pipe[p][s], x))
                 <=> Occurs(m, log[p][s], Buf(p, s), pipe[p][s]) \/ m = x
    BY <1>4, OccursWrite
  <2>2. \A m : Held(m, p, s)' <=> Held(m, p, s) \/ m = x
    BY <1>2, <2>1 DEF Held
  <2> QED
    BY <1>2, <2>2 DEF Has, Buffered
<1>13. ~Buffered(p, s, x.n)
  <2>1. ASSUME NEW j \in DOMAIN Buf(p, s) PROVE Buf(p, s)[j].n \in 1 .. wrote[p]
    <3>1. Held(Buf(p, s)[j], p, s)
      BY DEF Held, Occurs
    <3> QED
      BY <3>1 DEF OutInv, Mine
  <2> QED
    BY <1>1, <1>2, <2>1 DEF Buffered
<1>14. Kept(p, s)'
  <2>1. \A n \in Written(p, s) : ReplacedBy(p, s, n) \in 1 .. wrote[p] => ReplacedBy(p, s, n) \in 1 .. wrote'[p]
    BY <1>2
  <2> QED
    BY <1>3, <1>8, <1>11, <1>12, <1>13, <2>1 DEF Kept
<1> QED
  BY <1>10, <1>14

(* What a command writes to a stream says nothing of the other one.         *)
LEMMA WrittenSame ==
  ASSUME Inv, NEW p \in Commands, NEW s \in Streams, ~Puts(p, s), plan'[p] = plan[p],
         wrote'[p] = wrote[p] \/ \E t \in Streams : Puts(p, t)
  PROVE  Written(p, s)' = Written(p, s) /\ 1 .. wrote[p] \subseteq 1 .. wrote'[p]
<1>1. wrote[p] \in Nat
  BY DEF Inv, TypeOK
<1>2. CASE wrote'[p] = wrote[p]
  BY <1>2 DEF Written
<1>3. CASE \E t \in Streams : Puts(p, t)
  <2>1. PICK t \in Streams : Puts(p, t) /\ t # s
    BY <1>3
  <2>2. wrote'[p] = wrote[p] + 1 /\ plan[p][wrote[p] + 1].to # s
    BY <2>1 DEF Puts
  <2>3. 1 .. wrote'[p] = (1 .. wrote[p]) \cup {wrote[p] + 1}
    BY <1>1, <2>2
  <2> QED
    BY <2>2, <2>3 DEF Written
<1> QED
  BY <1>2, <1>3

LEMMA KeptResting ==
  ASSUME Inv, OutInv, KeptInv, NEW p \in Commands, NEW s \in Streams, Tracked(p), Rests(p, s),
         plan'[p] = plan[p], Written(p, s)' = Written(p, s), 1 .. wrote[p] \subseteq 1 .. wrote'[p]
  PROVE  Latest(p, s)' /\ Kept(p, s)'
<1>1. Latest(p, s) /\ Kept(p, s)
  BY DEF KeptInv
<1>2. /\ \A n : Piped(p, s, n)' <=> Piped(p, s, n)
      /\ \A n : Buffered(p, s, n)' <=> Buffered(p, s, n)
      /\ \A n : Has(p, s, n)' <=> Has(p, s, n)
  BY DEF Rests, Piped, Buffered, Has, Held
<1>3. Latest(p, s)'
  BY <1>1, <1>2 DEF Rests, Latest
<1>4. \A n : ReplacedBy(p, s, n)' = ReplacedBy(p, s, n)
  BY DEF ReplacedBy
<1>5. Kept(p, s)'
  BY <1>1, <1>2, <1>4 DEF Kept
<1> QED
  BY <1>3, <1>5

LEMMA KeptStep ==
  ASSUME Inv, Inv', OutInv, KeptInv, OutputMoves
  PROVE  KeptInv'
<1>1. ASSUME NEW p \in Commands, NEW s \in Streams PROVE \A j, k \in DOMAIN Buf(p, s)' : j = k
  BY OneBuffered DEF OutputMoves
<1>2. ASSUME NEW p \in Commands, NEW s \in Streams, Tracked(p)'
      PROVE  Latest(p, s)' /\ Kept(p, s)'
  <2>1. CASE child[p] = "none"
    <3>1. wrote'[p] = 0
      BY <2>1, WroteAfter
    <3>2. Written(p, s)' = {}
      BY <3>1 DEF Written
    <3> QED
      BY <3>2 DEF Latest, Kept
  <2>2. CASE Tracked(p) /\ child[p] # "none"
    <3>1. \/ plan'[p] = plan[p] /\ wrote'[p] = wrote[p]
          \/ plan'[p] = plan[p] /\ \E t \in Streams : Puts(p, t)
      BY <2>2 DEF OutputMoves
    <3>2. CASE Puts(p, s)
      BY <2>2, <3>1, <3>2, KeptWriting
    <3>3. CASE ~Puts(p, s)
      <4>1. Written(p, s)' = Written(p, s) /\ 1 .. wrote[p] \subseteq 1 .. wrote'[p]
        BY <3>1, <3>3, WrittenSame
      <4>2. CASE Takes(p, s)
        BY <3>1, <4>1, <4>2, KeptReading
      <4>3. CASE Rests(p, s)
        BY <2>2, <3>1, <4>1, <4>3, KeptResting
      <4> QED
        BY <1>2, <3>3, <4>2, <4>3 DEF OutputMoves, Flushes
    <3> QED
      BY <3>2, <3>3
  <2> QED
    BY <1>2, <2>1, <2>2 DEF OutputMoves
<1> QED
  BY <1>1, <1>2 DEF KeptInv

LEMMA KeptInvariant == Spec => [](Inv /\ OutInv /\ KeptInv)
<1>1. Init => Inv /\ OutInv /\ KeptInv
  BY InvInit, OutInit, KeptInit
<1>2. Inv /\ OutInv /\ KeptInv /\ [Next]_vars => (Inv /\ OutInv /\ KeptInv)'
  BY InvStep, Moves, OutStep, KeptStep
<1> QED
  BY <1>1, <1>2, PTL DEF Spec

(* While a command is followed, every line it wrote is logged or still in   *)
(* its pipe, and the part of a line is lost only to a part right after it   *)
(* that replaced it in the buffer (ind_comm.c:326-338).                     *)
THEOREM KeptAlways == Spec => []OutputKept
<1>1. ASSUME Inv, OutInv, KeptInv PROVE OutputKept
  <2>1. ASSUME NEW p \in Commands, Tracked(p), NEW n \in 1 .. wrote[p], NEW s \in Streams, s = plan[p][n].to
        PROVE  IF plan[p][n].line THEN SeenAt(p, s, n) /\ ~BufferedAt(p, s, n)
               ELSE SeenAt(p, s, n) \/ ReplacedBy(p, s, n) \in 1 .. wrote[p]
    <3>1. n \in Written(p, s) /\ Kept(p, s)
      BY <1>1, <2>1 DEF KeptInv, Written
    <3>2. SeenAt(p, s, n) <=> Has(p, s, n)
      BY <1>1, PlaceOf DEF SeenAt, Has
    <3>3. BufferedAt(p, s, n) <=> Buffered(p, s, n)
      BY <1>1, PlaceOf DEF BufferedAt, Buffered
    <3> QED
      BY <3>1, <3>2, <3>3 DEF Kept
  <2>2. ASSUME NEW p \in Commands, NEW n \in 1 .. wrote[p] PROVE plan[p][n].to \in Streams
    <3>1. /\ plan[p] \in Seq(Packets) /\ Len(plan[p]) \in Nat
          /\ wrote[p] \in Nat /\ wrote[p] <= Len(plan[p])
      BY <1>1, PlanType, LenProperties DEF Inv, TypeOK, OutInv
    <3>2. n \in 1 .. Len(plan[p])
      BY <3>1
    <3>3. plan[p][n] \in Packets
      BY <3>1, <3>2, ElementOfSeq
    <3> QED
      BY <3>3 DEF Packets
  <2> QED
    BY <2>1, <2>2 DEF OutputKept
<1> QED
  BY <1>1, KeptInvariant, PTL

-----------------------------------------------------------------------------
(* A command that is not followed leaves nothing in a pipe, and has nothing *)
(* to say unless its end was waited for.                                    *)
Ignored ==
  \A p \in Commands : ~Tracked(p) =>
    /\ \A s \in Streams : pipe[p][s] = <<>>
    /\ child[p] # "reaped" => plan[p] = <<>>

LEMMA IgnoredInit == Init => Ignored
  BY DEF Init, Ignored, Empty

(* A command that is not followed neither writes nor is read.               *)
LEMMA IgnoredRests ==
  ASSUME Inv, Inv', OutputMoves, Ignored,
         NEW p \in Commands, ~Tracked(p), ~Tracked(p)'
  PROVE  /\ \A s \in Streams : Rests(p, s) /\ ~Puts(p, s)
         /\ wrote'[p] = wrote[p]
<1>1. wrote[p] \in Nat
  BY DEF Inv, TypeOK
<1>2. \A s \in Streams : ~Puts(p, s)
  <2>1. child[p] = "running" => plan[p] = <<>>
    BY DEF Ignored
  <2>2. plan[p] = <<>> => ~(wrote[p] < Len(plan[p]))
    BY <1>1
  <2> QED
    BY <2>1, <2>2 DEF Puts
<1>3. ASSUME NEW s \in Streams PROVE Rests(p, s)
  <2>1. Rests(p, s) \/ Takes(p, s) \/ Flushes(p, s) \/ Puts(p, s)
    BY DEF OutputMoves
  <2>2. ~Takes(p, s)
    BY DEF Takes
  <2>3. ASSUME Flushes(p, s) PROVE Rests(p, s)
    <3>1. Buf(p, s) = <<>> /\ pipe[p][s] = <<>>
      BY DEF Buf, Ignored
    <3> QED
      BY <2>3, <3>1 DEF Flushes, Rests
  <2> QED
    BY <1>2, <2>1, <2>2, <2>3
<1>4. wrote'[p] = wrote[p]
  BY <1>2 DEF OutputMoves
<1> QED
  BY <1>2, <1>3, <1>4

LEMMA IgnoredStep ==
  ASSUME Inv, Inv', OutputMoves, Ignored
  PROVE  Ignored'
<1> SUFFICES ASSUME NEW p \in Commands, ~Tracked(p)'
             PROVE  /\ \A s \in Streams : pipe'[p][s] = <<>>
                    /\ child'[p] # "reaped" => plan'[p] = <<>>
  BY DEF Ignored
<1>1. CASE Tracked(p)
  BY <1>1 DEF OutputMoves, Flushes
<1>2. CASE ~Tracked(p)
  <2>1. /\ \A s \in Streams : Rests(p, s) /\ ~Puts(p, s)
    BY <1>2, IgnoredRests
  <2>2. \A s \in Streams : pipe'[p][s] = <<>>
    BY <1>2, <2>1 DEF Rests, Ignored
  <2>3. plan'[p] = plan[p] \/ plan'[p] = <<>>
    BY <2>1 DEF OutputMoves
  <2>4. child'[p] # "reaped" => child[p] # "reaped"
    BY DEF OutputMoves, Ages
  <2> QED
    BY <1>2, <2>2, <2>3, <2>4 DEF Ignored
<1> QED
  BY <1>1, <1>2

(* What a stream has still to say, and its packets that are lines.          *)
Unsaid(p, s) == PlanOf(p, s, wrote[p] + 1 .. Len(plan[p]))
Ends(p, s) == PlanOf(p, s, {l \in DOMAIN plan[p] : plan[p][l].line})

Stage(p) == IF child[p] = "none" THEN "not yet" ELSE IF Tracked(p) THEN "yes" ELSE "no more"

(* The steps of the promise, in these terms.                                *)
LEMMA PromiseRests ==
  ASSUME NEW p \in Commands, NEW s \in Streams, Rests(p, s),
         UNCHANGED <<Stage(p), Unsaid(p, s), Ends(p, s)>>
  PROVE  UNCHANGED Output(p, s)!vars
BY DEF Rests, Stage, Unsaid, Ends, Output!vars

LEMMA PromiseBegins ==
  ASSUME Inv, Inv', OutInv, Ignored, OutputMoves, NEW p \in Commands, NEW s \in Streams,
         child[p] = "none", child'[p] # "none"
  PROVE  Output(p, s)!Next
<1>1. /\ child'[p] = "running" /\ wrote'[p] = wrote[p] /\ Rests(p, s)
      /\ ~Tracked(p)' => plan'[p] = <<>>
  <2>1. \A t \in Streams : ~Puts(p, t)
    BY DEF Puts
  <2>2. child'[p] = "running"
    BY DEF OutputMoves, Ages
  <2>3. ~Tracked(p)
    BY DEF Inv, Followers, Tracked, Pid
  <2>4. CASE plan'[p] = plan[p] /\ wrote'[p] = wrote[p]
    <3>1. plan[p] = <<>>
      BY <2>3 DEF Ignored
    <3>2. Rests(p, s)
      <4>1. ~Takes(p, s)
        BY <2>3 DEF Takes
      <4>2. Flushes(p, s) => Rests(p, s)
        BY <2>3 DEF Flushes, Rests, Buf, Ignored
      <4> QED
        BY <2>1, <4>1, <4>2 DEF OutputMoves
    <3> QED
      BY <2>2, <2>4, <3>1, <3>2
  <2> QED
    BY <2>1, <2>2, <2>4 DEF OutputMoves
<1>2. wrote'[p] = 0 /\ wrote[p] = 0
  BY <1>1 DEF OutInv
<1>3. CASE Tracked(p)'
  <2>1. plan'[p] \in Seq(Packets)
    <3>1. plan'[p] \in Plans \cup {<<>>}
      BY DEF Inv, TypeOK
    <3> QED
      BY <3>1, CommandsAssumption, EmptySeq
  <2>2. DOMAIN plan'[p] = 0 + 1 .. Len(plan'[p])
    BY <2>1, LenProperties
  <2>3. Ends(p, s)' \subseteq Unsaid(p, s)'
    BY <1>2, <2>2 DEF Ends, Unsaid, PlanOf
  <2>4. Output(p, s)!Follow
    BY <1>1, <1>3, <2>3 DEF Rests, Ends, Unsaid, Output!Follow
  <2> QED
    BY <2>4 DEF Output!Next
<1>4. CASE ~Tracked(p)'
  <2>1. plan[p] = <<>> /\ plan'[p] = <<>>
    <3>1. ~Tracked(p)
      BY DEF Inv, Followers, Tracked, Pid
    <3> QED
      BY <1>1, <1>4, <3>1 DEF Ignored
  <2>2. UNCHANGED <<Unsaid(p, s), Ends(p, s)>>
    BY <1>2, <2>1 DEF Unsaid, Ends, PlanOf
  <2>3. Output(p, s)!Miss
    BY <1>1, <1>4, <2>2 DEF Rests, Ends, Unsaid, Output!Miss
  <2> QED
    BY <2>3 DEF Output!Next
<1> QED
  BY <1>3, <1>4

(* A stream has as much to say as before unless the command writes to it.   *)
LEMMA UnsaidSame ==
  ASSUME Inv, OutputMoves, NEW p \in Commands, NEW s \in Streams,
         child[p] # "none", ~Puts(p, s)
  PROVE  UNCHANGED <<Unsaid(p, s), Ends(p, s)>>
<1>1. plan'[p] = plan[p]
  BY DEF OutputMoves
<1>2. Ends(p, s)' = Ends(p, s)
  BY <1>1 DEF Ends, PlanOf
<1>3. CASE wrote'[p] = wrote[p]
  BY <1>1, <1>2, <1>3 DEF Unsaid, PlanOf
<1>4. CASE \E t \in Streams : t # s /\ Puts(p, t)
  <2>1. /\ wrote'[p] = wrote[p] + 1 /\ plan[p][wrote[p] + 1].to # s
    BY <1>4 DEF Puts
  <2>2. PICK n \in Nat, k \in Nat : n = wrote[p] /\ k = Len(plan[p])
    BY PlanType, LenProperties DEF Inv, TypeOK
  <2>3. {l \in n + 1 .. k : plan[p][l].to = s} = {l \in n + 1 + 1 .. k : plan[p][l].to = s}
    <3>1. \A l \in n + 1 .. k : l = n + 1 \/ l \in n + 1 + 1 .. k
      BY <2>2
    <3>2. n + 1 + 1 .. k \subseteq n + 1 .. k
      BY <2>2
    <3> QED
      BY <2>1, <2>2, <3>1, <3>2
  <2>4. Unsaid(p, s)' = Unsaid(p, s)
    BY <1>1, <2>1, <2>2, <2>3 DEF Unsaid, PlanOf
  <2> QED
    BY <1>2, <2>4
<1>5. wrote'[p] = wrote[p] \/ \E t \in Streams : t # s /\ Puts(p, t)
  BY DEF OutputMoves
<1> QED
  BY <1>3, <1>4, <1>5

LEMMA PromiseReads ==
  ASSUME Inv, Inv', OutInv, OutputMoves, NEW p \in Commands, NEW s \in Streams,
         Takes(p, s), Tracked(p)'
  PROVE  Output(p, s)!Next
<1> DEFINE m == Head(pipe[p][s])
<1>1. /\ pipe[p][s] \in Seq(Items) /\ pipe[p][s] # <<>> /\ Tracked(p)
  BY BufType DEF Takes
<1>2. m \in Items /\ \E j \in DOMAIN pipe[p][s] : pipe[p][s][j] = m
  BY <1>1, HeadTailProperties, LenProperties
<1>3. m.by = p /\ m.n \in 1 .. wrote[p] /\ plan[p][m.n].to = s
  <2>1. Held(m, p, s)
    BY <1>2 DEF Held, Occurs
  <2> QED
    BY <2>1 DEF OutInv, Mine
<1>4. m.n \in DOMAIN plan[p]
  <2>1. plan[p] \in Seq(Packets) /\ wrote[p] \in Nat /\ wrote[p] <= Len(plan[p])
    BY PlanType DEF Inv, TypeOK, OutInv
  <2>2. DOMAIN plan[p] = 1 .. Len(plan[p]) /\ Len(plan[p]) \in Nat
    BY <2>1, LenProperties
  <2> QED
    BY <1>3, <2>1, <2>2
<1>5. m \in Ends(p, s) <=> plan[p][m.n].line
  <2>1. m = [by |-> p, n |-> m.n]
    BY <1>2, <1>3 DEF Items
  <2>2. ASSUME plan[p][m.n].line PROVE m \in Ends(p, s)
    BY <1>3, <1>4, <2>1, <2>2 DEF Ends, PlanOf
  <2>3. ASSUME m \in Ends(p, s) PROVE plan[p][m.n].line
    BY <2>3 DEF Ends, PlanOf
  <2> QED
    BY <2>2, <2>3
<1>6. child[p] # "none" /\ child'[p] # "none" /\ ~Puts(p, s)
  <2>1. child[p] # "none" /\ child'[p] # "none"
    BY <1>1 DEF Inv, Followers, Tracked, Pid
  <2>2. pipe'[p][s] = Tail(pipe[p][s])
    BY DEF Takes
  <2>3. Len(pipe'[p][s]) = Len(pipe[p][s]) - 1 /\ Len(pipe[p][s]) \in Nat
    BY <1>1, <2>2, HeadTailProperties, LenProperties
  <2>4. ASSUME Puts(p, s) PROVE FALSE
    <3>1. PICK x \in Items : x = [by |-> p, n |-> wrote[p] + 1]
      BY NextItem
    <3>2. pipe'[p][s] = Append(pipe[p][s], x)
      BY <2>4, <3>1 DEF Puts
    <3>3. Len(pipe'[p][s]) = Len(pipe[p][s]) + 1
      BY <1>1, <3>2, AppendProperties
    <3> QED
      BY <2>3, <3>3
  <2> QED
    BY <2>1, <2>4
<1>7. UNCHANGED <<Unsaid(p, s), Ends(p, s)>>
  BY <1>6, UnsaidSame
<1>8. /\ pipe'[p][s] = Tail(pipe[p][s])
      /\ \/ /\ m \in Ends(p, s)
            /\ log'[p][s] = Append(log[p][s], Append(Buf(p, s), m)) /\ Buf(p, s)' = <<>>
         \/ /\ m \notin Ends(p, s)
            /\ log'[p][s] = log[p][s] /\ Buf(p, s)' = <<m>>
  BY <1>3, <1>5 DEF Takes
<1>9. Output(p, s)!Read
  BY <1>1, <1>6, <1>7, <1>8 DEF Unsaid, Ends, Output!Read
<1> QED
  BY <1>9 DEF Output!Next

LEMMA PromiseWrites ==
  ASSUME Inv, Inv', OutputMoves, NEW p \in Commands, NEW s \in Streams,
         Puts(p, s), Tracked(p), Tracked(p)'
  PROVE  Output(p, s)!Next
<1>1. PICK n \in Nat, k \in Nat : n = wrote[p] /\ k = Len(plan[p]) /\ n < k
  BY PlanType, LenProperties DEF Inv, TypeOK, Puts
<1>2. plan'[p] = plan[p] /\ wrote'[p] = n + 1 /\ plan[p][n + 1].to = s
  BY <1>1 DEF OutputMoves, Puts
<1>3. PICK x \in Items : x = [by |-> p, n |-> n + 1]
  BY <1>1, NextItem
<1>4. x \in Unsaid(p, s) /\ \A y \in Unsaid(p, s) : x.n <= y.n
  BY <1>1, <1>2, <1>3 DEF Unsaid, PlanOf
<1>5. Unsaid(p, s)' = Unsaid(p, s) \ {x}
  <2>1. n + 1 + 1 .. k = (n + 1 .. k) \ {n + 1}
    BY <1>1
  <2>2. Unsaid(p, s) = {[by |-> p, n |-> l] : l \in {l \in n + 1 .. k : plan[p][l].to = s}}
    BY <1>1 DEF Unsaid, PlanOf
  <2>3. Unsaid(p, s)' = {[by |-> p, n |-> l] : l \in {l \in n + 1 + 1 .. k : plan[p][l].to = s}}
    BY <1>1, <1>2 DEF Unsaid, PlanOf
  <2> QED
    BY <1>3, <2>1, <2>2, <2>3
<1>6. Ends(p, s)' = Ends(p, s)
  BY <1>2 DEF Ends, PlanOf
<1>7. child[p] # "none" /\ child'[p] # "none"
  BY DEF Inv, Followers, Tracked, Pid
<1>8. Output(p, s)!Write(x)
  BY <1>1, <1>3, <1>4, <1>5, <1>6, <1>7 DEF Puts, Unsaid, Ends, Output!Write
<1> QED
  BY <1>4, <1>8 DEF Unsaid, Output!Next

LEMMA PromiseEnds ==
  ASSUME Inv, Inv', OutputMoves, NEW p \in Commands, NEW s \in Streams,
         Tracked(p), ~Tracked(p)'
  PROVE  Output(p, s)!Next
<1>1. child'[p] = "reaped" /\ \A t \in Streams : Flushes(p, t)
  BY DEF OutputMoves
<1>2. child[p] # "none"
  BY DEF Inv, Followers, Tracked, Pid
<1>3. ~Puts(p, s)
  <2>1. child[p] # "running"
    BY <1>1 DEF OutputMoves, Ages, Inv, Followers, Tracked, Pid
  <2> QED
    BY <2>1 DEF Puts
<1>4. UNCHANGED <<Unsaid(p, s), Ends(p, s)>>
  BY <1>2, <1>3, UnsaidSame
<1>5. Output(p, s)!End
  BY <1>1, <1>2, <1>4 DEF Flushes, Unsaid, Ends, Output!End
<1> QED
  BY <1>5 DEF Output!Next

LEMMA PromiseStep ==
  ASSUME Inv, Inv', OutInv, Ignored, OutputMoves, NEW p \in Commands, NEW s \in Streams
  PROVE  [Output(p, s)!Next]_(Output(p, s)!vars)
<1>1. CASE child[p] = "none" /\ child'[p] # "none"
  BY <1>1, PromiseBegins
<1>2. CASE child[p] = "none" /\ child'[p] = "none"
  <2>1. ~Tracked(p) /\ ~Tracked(p)'
    BY <1>2 DEF Inv, Followers, Tracked, Pid
  <2>2. Rests(p, s) /\ wrote'[p] = wrote[p] /\ \A t \in Streams : ~Puts(p, t)
    BY <2>1, IgnoredRests
  <2>3. plan'[p] = plan[p]
    BY <1>2, <2>2 DEF OutputMoves
  <2>4. UNCHANGED <<Stage(p), Unsaid(p, s), Ends(p, s)>>
    BY <1>2, <2>1, <2>2, <2>3 DEF Stage, Unsaid, Ends, PlanOf
  <2> QED
    BY <2>2, <2>4, PromiseRests
<1>3. CASE child[p] # "none" /\ ~Tracked(p)
  <2>1. ~Tracked(p)' /\ child'[p] # "none"
    BY <1>3 DEF OutputMoves, Ages
  <2>2. Rests(p, s) /\ ~Puts(p, s)
    BY <1>3, <2>1, IgnoredRests
  <2>3. UNCHANGED <<Stage(p), Unsaid(p, s), Ends(p, s)>>
    BY <1>3, <2>1, <2>2, UnsaidSame DEF Stage
  <2> QED
    BY <2>2, <2>3, PromiseRests
<1>4. CASE Tracked(p) /\ ~Tracked(p)'
  BY <1>4, PromiseEnds
<1>5. CASE Tracked(p) /\ Tracked(p)'
  <2>1. child[p] # "none" /\ child'[p] # "none"
    BY <1>5 DEF Inv, Followers, Tracked, Pid
  <2>2. CASE Takes(p, s)
    BY <1>5, <2>2, PromiseReads
  <2>3. CASE Puts(p, s)
    BY <1>5, <2>3, PromiseWrites
  <2>4. CASE Rests(p, s) /\ ~Puts(p, s)
    <3>1. UNCHANGED <<Stage(p), Unsaid(p, s), Ends(p, s)>>
      BY <1>5, <2>1, <2>4, UnsaidSame DEF Stage
    <3> QED
      BY <2>4, <3>1, PromiseRests
  <2> QED
    BY <1>5, <2>2, <2>3, <2>4 DEF OutputMoves, Flushes
<1> QED
  BY <1>1, <1>2, <1>3, <1>4, <1>5

(* Each stream of each command, seen alone, is one that is followed, read   *)
(* in order, and logged line by line as OutputPromise says, whatever the    *)
(* other commands do (ind_comm.c:98-124, 287-306, 314-370).                 *)
THEOREM OutputsKeepPromise == Spec => OutputsPromised
<1>1. Init => \A p \in Commands, s \in Streams : Output(p, s)!Init
  BY DEF Init, PlanOf, Buf, Tracked, Empty, Output!Init
<1>2. Init => Inv /\ OutInv /\ Ignored
  BY InvInit, OutInit, IgnoredInit
<1>3. Inv /\ OutInv /\ Ignored /\ [Next]_vars => (Inv /\ OutInv /\ Ignored)'
  BY InvStep, Moves, OutStep, IgnoredStep
<1>4. Inv /\ OutInv /\ Ignored /\ (Inv /\ OutInv /\ Ignored)' /\ [Next]_vars
        => \A p \in Commands, s \in Streams : [Output(p, s)!Next]_(Output(p, s)!vars)
  BY Moves, PromiseStep
<1> QED
  BY <1>1, <1>2, <1>3, <1>4, PTL DEF Spec, OutputsPromised

-----------------------------------------------------------------------------
(* cmd_do_log on bytes.  What is in memory while its loop runs: estr is     *)
(* ahead of the turns taken by the lines ended, of which there is at most   *)
(* one a turn; from bstr on the packet is as it was read; a NUL ends it.    *)
Memory ==
  /\ Len(packet) > 0 /\ Len(packet) < RbufSize /\ RbufSize \in Nat
  /\ nbrds <= Len(packet)
  /\ Len(logged) + nbrds <= Len(packet)
  /\ estr = 1 + (Len(packet) - nbrds) + Len(logged)
  /\ rbuf \in Seq(Nat) /\ Len(rbuf) = RbufSize
  /\ rbuf[Len(packet) + 1] = Nul
  /\ \A i \in bstr .. Len(packet) : rbuf[i] = packet[i]
  /\ \A i \in Len(packet) + 2 .. RbufSize :
       rbuf[i] <= Letter(0) /\ (rbuf[i] = Newline => behind[i - (Len(packet) + 1)] = Newline)
  /\ Len(behind) + Len(packet) + 1 = RbufSize
  /\ IF logged = <<>> THEN buf = kept ELSE buf = <<>> /\ bstr < estr

(* Where the loop ended lines in the packet so far.                         *)
SoFar(c) ==
  /\ Len(c) <= Len(logged)
  /\ \A k \in DOMAIN c : c[k] \in Newlines /\ c[k] < bstr
  /\ \A j, k \in DOMAIN c : j < k => c[j] < c[k]
  /\ \A i \in Newlines : i < estr => (CutAt(c, i) <=> ~CutAt(c, i - 1))
  /\ \A k \in DOMAIN c : logged[k] = LineOf(c, k)

(* The line that the loop is in starts behind the last of them, or the loop *)
(* logged what is left and is behind the packet.                            *)
Inside(c) == bstr <= Len(packet) + 1 /\ Len(c) = Len(logged) /\ bstr = Begin(c, Len(c) + 1)

Outside(c) ==
  /\ Len(packet) + 1 < bstr /\ bstr < estr
  /\ 1 < Len(c) /\ Len(c) < Len(logged) /\ NewlineBehind
  /\ logged[Len(c) + 1] = Left(c)
  /\ \A k \in Len(c) + 2 .. Len(logged) : NoLetter(logged[k])

LogTypes ==
  /\ nbrds \in Nat /\ bstr \in Nat \ {0} /\ estr \in Nat
  /\ packet \in Seq(Nat) /\ \A i \in DOMAIN packet : packet[i] # Nul
  /\ behind \in Seq(Nat)
  /\ buf \in Seq(Nat) /\ kept \in Seq(Nat) /\ logged \in Seq(Seq(Nat))

LogInv ==
  /\ LogTypes
  /\ strayed \in BOOLEAN
  /\ IF reading THEN ~strayed /\ Memory /\ \E c \in Seq(Nat) : SoFar(c) /\ (Inside(c) \/ Outside(c))
     ELSE LinesLogged

(* A string: up to the first NUL.                                           *)
LEMMA StringFound ==
  ASSUME NEW mem \in Seq(Nat), NEW i \in 1 .. Len(mem), NEW e \in i .. Len(mem), mem[e] = Nul
  PROVE  \E j \in i .. e :
           /\ mem[j] = Nul
           /\ \A k \in i .. j - 1 : mem[k] # Nul
           /\ StringAt(mem, i) = SubSeq(mem, i, j - 1)
<1>1. Len(mem) \in Nat
  BY LenProperties
<1> DEFINE Nuls == {j \in i .. Len(mem) : mem[j] = Nul}
<1>2. Nuls \subseteq Nat /\ e \in Nuls
  BY <1>1
<1>3. PICK j \in Nuls : \A k \in Nuls : j <= k
  BY <1>2, Least
<1>4. j \in i .. e /\ mem[j] = Nul /\ \A k \in i .. j - 1 : mem[k] # Nul
  <2>1. j <= e /\ j \in i .. Len(mem) /\ mem[j] = Nul
    BY <1>2, <1>3
  <2>2. ASSUME NEW k \in i .. j - 1 PROVE mem[k] # Nul
    <3>1. k \in i .. Len(mem) /\ ~(j <= k)
      BY <1>1, <2>1
    <3> QED
      BY <1>3, <3>1
  <2> QED
    BY <1>1, <2>1, <2>2
<1>5. StringAt(mem, i) = SubSeq(mem, i, j - 1)
  <2> DEFINE End(h) == mem[h] = Nul /\ \A k \in i .. h - 1 : mem[k] # Nul
  <2>1. ASSUME NEW h \in i .. Len(mem), End(h) PROVE h = j
    <3>1. h \in Int /\ j \in Int /\ i \in Int /\ j \in i .. Len(mem)
      BY <1>1, <1>4
    <3>2. ~(j < h)
      BY <1>4, <2>1, <3>1
    <3>3. ~(h < j)
      BY <1>4, <2>1, <3>1
    <3> QED
      BY <3>1, <3>2, <3>3
  <2>2. j \in i .. Len(mem) /\ End(j)
    BY <1>1, <1>4
  <2>3. (CHOOSE h \in i .. Len(mem) : End(h)) = j
    BY <2>1, <2>2
  <2> QED
    BY <2>3 DEF StringAt
<1> QED
  BY <1>4, <1>5

(* A part of a sequence, and of another that is the same there.             *)
LEMMA PartIs ==
  ASSUME NEW s \in Seq(Nat), NEW a \in 1 .. Len(s) + 1, NEW b \in 0 .. Len(s)
  PROVE  /\ SubSeq(s, a, b) \in Seq(Nat)
         /\ Len(SubSeq(s, a, b)) = IF a <= b THEN b - a + 1 ELSE 0
         /\ \A k \in 1 .. b - a + 1 : SubSeq(s, a, b)[k] = s[a + k - 1]
<1>1. Len(s) \in Nat /\ \A k \in 1 .. Len(s) : s[k] \in Nat
  BY LenProperties, ElementOfSeq
<1>2. a \in Int /\ b \in Int /\ \A k \in a .. b : s[k] \in Nat
  BY <1>1
<1> QED
  BY <1>2, SubSeqProperties

LEMMA SamePart ==
  ASSUME NEW s \in Seq(Nat), NEW t \in Seq(Nat),
         NEW a \in 1 .. Len(s) + 1, NEW b \in 0 .. Len(s),
         a <= Len(t) + 1, b <= Len(t), \A k \in a .. b : s[k] = t[k]
  PROVE  SubSeq(s, a, b) = SubSeq(t, a, b)
<1>1. Len(s) \in Nat /\ Len(t) \in Nat
  BY LenProperties
<1>2. a \in 1 .. Len(t) + 1 /\ b \in 0 .. Len(t) /\ a \in Int /\ b \in Int
  BY <1>1
<1>3. PICK u, v : u = SubSeq(s, a, b) /\ v = SubSeq(t, a, b)
  OBVIOUS
<1>4. /\ u \in Seq(Nat) /\ v \in Seq(Nat) /\ Len(u) = Len(v)
      /\ Len(u) = IF a <= b THEN b - a + 1 ELSE 0
      /\ \A k \in 1 .. b - a + 1 : u[k] = s[a + k - 1]
      /\ \A k \in 1 .. b - a + 1 : v[k] = t[a + k - 1]
  <2>1. /\ u \in Seq(Nat) /\ Len(u) = IF a <= b THEN b - a + 1 ELSE 0
        /\ \A k \in 1 .. b - a + 1 : u[k] = s[a + k - 1]
    BY <1>3, PartIs
  <2>2. /\ v \in Seq(Nat) /\ Len(v) = IF a <= b THEN b - a + 1 ELSE 0
        /\ \A k \in 1 .. b - a + 1 : v[k] = t[a + k - 1]
    BY <1>2, <1>3, PartIs
  <2>3. Len(u) = Len(v)
    BY <2>1, <2>2
  <2> QED
    BY <2>1, <2>2, <2>3
<1>5. ASSUME NEW k \in 1 .. Len(u) PROVE u[k] = v[k]
  <2>1. k \in 1 .. b - a + 1 /\ a + k - 1 \in a .. b
    BY <1>2, <1>4
  <2> QED
    BY <1>4, <2>1
<1> QED
  BY <1>3, <1>4, <1>5, SeqEqual

-----------------------------------------------------------------------------
LEMMA LogInvInit == LogInit => LogInv
<1> SUFFICES ASSUME LogInit PROVE LogInv
  OBVIOUS
<1>1. <<>> \in Cuts
  <2>1. <<>> \in [1 .. 0 -> Newlines] /\ 0 \in 0 .. Len(packet)
    BY DEF LogInit
  <2>2. Newlines = {}
    BY DEF LogInit, Newlines
  <2> QED
    BY <2>1, <2>2 DEF Cuts
<1>2. Left(<<>>) = <<>>
  <2>1. packet = <<>> /\ Len(packet) = 0 /\ Begin(<<>>, Len(<<>>) + 1) = 1
    BY DEF LogInit, Begin
  <2> QED
    BY <2>1, SubSeqEmpty DEF Left
<1>3. LinesLogged
  <2>1. Append(logged, buf) = << <<>> >> /\ Len(logged) = 0 /\ ~strayed
    BY DEF LogInit
  <2>2. Append(logged, buf)[1] = <<>> /\ Len(Append(logged, buf)) = 1
    BY <2>1
  <2>3. /\ Len(<<>>) = 0 /\ 1 .. Len(<<>>) = {} /\ Len(<<>>) + 2 .. Len(Append(logged, buf)) = {}
    BY <2>2
  <2> QED
    BY <1>1, <1>2, <2>1, <2>2, <2>3 DEF LinesLogged
<1>4. LogTypes
  BY DEF LogInit, LogTypes
<1> QED
  BY <1>3, <1>4 DEF LogInit, LogInv

(* What is in rbuf when read returned.                                      *)
InMemory(m, p, d, n, h) ==
  /\ m \in Seq(Nat)
  /\ Len(m) = n + 1 + h
  /\ m[n + 1] = Nul
  /\ \A i \in 1 .. n : m[i] = p[i]
  /\ \A i \in n + 2 .. n + 1 + h : m[i] = d[i - (n + 1)]

LEMMA MemoryRead ==
  ASSUME NEW p \in Seq(Nat), NEW d \in Seq(Nat), NEW n \in Nat, NEW h \in Nat,
         Len(p) = n, Len(d) = h, NEW m, m = p \o <<Nul>> \o d
  PROVE  InMemory(m, p, d, n, h)
<1>1. <<Nul>> \in Seq(Nat) /\ Len(<<Nul>>) = 1 /\ <<Nul>>[1] = Nul
  BY DEF Nul
<1>2. PICK a : a = p \o <<Nul>>
  OBVIOUS
<1>3. /\ a \in Seq(Nat) /\ Len(a) = n + 1
      /\ \A i \in 1 .. n + 1 : a[i] = IF i <= n THEN p[i] ELSE <<Nul>>[i - n]
  <2>1. /\ p \o <<Nul>> \in Seq(Nat) /\ Len(p \o <<Nul>>) = Len(p) + Len(<<Nul>>)
        /\ \A i \in 1 .. Len(p) + Len(<<Nul>>) :
             (p \o <<Nul>>)[i] = IF i <= Len(p) THEN p[i] ELSE <<Nul>>[i - Len(p)]
    BY <1>1, ConcatProperties
  <2>2. Len(p) + Len(<<Nul>>) = n + 1
    BY <1>1
  <2> QED
    BY ONLY <1>2, <2>1, <2>2, Len(p) = n
<1>4. /\ m \in Seq(Nat) /\ Len(m) = n + 1 + h
      /\ \A i \in 1 .. n + 1 + h : m[i] = IF i <= n + 1 THEN a[i] ELSE d[i - (n + 1)]
  <2>1. /\ a \o d \in Seq(Nat) /\ Len(a \o d) = Len(a) + Len(d)
        /\ \A i \in 1 .. Len(a) + Len(d) : (a \o d)[i] = IF i <= Len(a) THEN a[i] ELSE d[i - Len(a)]
    BY <1>3, ConcatProperties
  <2>2. Len(a) + Len(d) = n + 1 + h /\ m = a \o d
    BY <1>2, <1>3
  <2> QED
    BY <1>3, <2>1, <2>2
<1>5. m[n + 1] = Nul
  <2>1. n + 1 \in 1 .. n + 1 /\ n + 1 \in 1 .. n + 1 + h /\ n + 1 - n = 1 /\ ~(n + 1 <= n) /\ n + 1 <= n + 1
    OBVIOUS
  <2>2. m[n + 1] = a[n + 1]
    BY <1>4, <2>1
  <2>3. a[n + 1] = <<Nul>>[1]
    BY <1>3, <2>1
  <2> QED
    BY <1>1, <2>2, <2>3
<1>6. \A i \in 1 .. n : m[i] = p[i]
  BY <1>3, <1>4
<1>7. ASSUME NEW i \in n + 2 .. n + 1 + h PROVE m[i] = d[i - (n + 1)]
  <2>1. i \in 1 .. n + 1 + h /\ ~(i <= n + 1)
    OBVIOUS
  <2> QED
    BY <1>4, <2>1
<1> QED
  BY <1>4, <1>5, <1>6, <1>7 DEF InMemory

(* Letters are no NUL and no newline.                                       *)
LEMMA BytesOf ==
  /\ Stale \subseteq Nat /\ \A x \in Stale : x <= Letter(0)
  /\ \A p \in BytePackets : p \in Seq(Nat) /\ 0 < Len(p) /\ Len(p) < RbufSize /\ \A i \in DOMAIN p : p[i] # Nul
<1>1. Stale \subseteq Nat /\ \A x \in Stale : x <= Letter(0)
  BY DEF Stale, Nul, Newline, Letter
<1>2. ASSUME NEW p \in BytePackets
      PROVE  p \in Seq(Nat) /\ 0 < Len(p) /\ Len(p) < RbufSize /\ \A i \in DOMAIN p : p[i] # Nul
  <2>1. PICK n \in 1 .. RbufSize - 1 :
          /\ p \in [1 .. n -> {Newline} \cup {Letter(i) : i \in 1 .. n}]
          /\ \A i \in 1 .. n : p[i] \in {Newline, Letter(i)}
    BY DEF BytePackets
  <2>2. n \in Nat /\ 0 < n /\ n < RbufSize
    BY OutputLinesAssumption
  <2>3. \A i \in 1 .. n : p[i] \in Nat /\ p[i] # Nul
    BY <2>1, <2>2 DEF Newline, Letter, Nul
  <2>4. p \in [1 .. n -> Nat]
    BY <2>1, <2>3
  <2>5. p \in Seq(Nat)
    BY <2>2, <2>4, SeqDef
  <2>6. Len(p) = n /\ DOMAIN p = 1 .. n
    BY <2>2, <2>4, <2>5, LenProperties
  <2> QED
    BY <2>2, <2>3, <2>5, <2>6
<1> QED
  BY <1>1, <1>2

LEMMA ReadPipeStep == LogInv /\ ReadPipe => LogInv'
<1> SUFFICES ASSUME LogInv, ReadPipe PROVE LogInv'
  OBVIOUS
<1>1. /\ packet' \in Seq(Nat) /\ 0 < Len(packet') /\ Len(packet') < RbufSize
      /\ \A i \in DOMAIN packet' : packet'[i] # Nul
      /\ Len(packet') \in Nat
  BY BytesOf, LenProperties DEF ReadPipe
<1>2. PICK n \in Nat, h \in Nat : Len(packet') = n /\ n + 1 + h = RbufSize /\ RbufSize \in Nat
  <2>1. RbufSize - (Len(packet') + 1) \in Nat /\ RbufSize \in Nat
    BY <1>1, OutputLinesAssumption
  <2>2. Len(packet') + 1 + (RbufSize - (Len(packet') + 1)) = RbufSize
    BY <1>1, <2>1
  <2> QED
    BY <1>1, <2>1, <2>2
<1>3. behind' \in [1 .. h -> Stale] /\ behind' \in Seq(Nat) /\ Len(behind') = h
  <2>1. RbufSize - (Len(packet') + 1) = h
    BY <1>2
  <2>2. behind' \in [1 .. h -> Stale]
    BY <2>1 DEF ReadPipe
  <2>3. behind' \in [1 .. h -> Nat]
    BY <2>2, BytesOf
  <2>4. behind' \in Seq(Nat)
    BY <2>3, SeqDef
  <2> QED
    BY <2>2, <2>3, <2>4, LenProperties
<1>4. /\ rbuf' \in Seq(Nat)
      /\ Len(rbuf') = n + 1 + h
      /\ rbuf'[n + 1] = Nul
      /\ \A i \in 1 .. n : rbuf'[i] = packet'[i]
      /\ \A i \in n + 2 .. n + 1 + h : rbuf'[i] = behind'[i - (n + 1)]
  <2>0. PICK p \in Seq(Nat), d \in Seq(Nat) : p = packet' /\ d = behind' /\ Len(p) = n /\ Len(d) = h
    BY <1>1, <1>2, <1>3
  <2>1. PICK m : m = p \o <<Nul>> \o d
    OBVIOUS
  <2>2. InMemory(m, p, d, n, h)
    BY <1>2, <2>0, <2>1, MemoryRead
  <2>3. rbuf' = m
    BY <2>0, <2>1 DEF ReadPipe
  <2> QED
    BY <2>0, <2>2, <2>3 DEF InMemory
<1>5. /\ reading' = TRUE /\ ~strayed' /\ strayed' \in BOOLEAN /\ nbrds' = n /\ bstr' = 1 /\ estr' = 1
      /\ kept' = buf /\ buf' = buf /\ logged' = <<>> /\ Len(logged') = 0
  BY <1>2 DEF ReadPipe, LogInv
<1>6. LogTypes'
  BY <1>1, <1>3, <1>5 DEF LogInv, LogTypes
<1>7. Memory'
  <2>1. ASSUME NEW i \in n + 2 .. n + 1 + h
        PROVE  rbuf'[i] <= Letter(0) /\ rbuf'[i] = behind'[i - (n + 1)]
    <3>1. i - (n + 1) \in 1 .. h
      OBVIOUS
    <3>2. behind'[i - (n + 1)] \in Stale
      BY <1>3, <3>1
    <3> QED
      BY <1>4, <3>2, BytesOf
  <2>2. /\ Len(packet') + 1 = n + 1 /\ Len(packet') + 2 = n + 2
        /\ RbufSize = n + 1 + h
        /\ Len(logged') + nbrds' <= Len(packet') /\ nbrds' <= Len(packet')
        /\ estr' = 1 + (Len(packet') - nbrds') + Len(logged')
        /\ Len(behind') + Len(packet') + 1 = RbufSize
    BY <1>2, <1>3, <1>5
  <2> QED
    BY <1>1, <1>2, <1>4, <1>5, <2>1, <2>2 DEF Memory
<1>8. SoFar(<<>>)' /\ Inside(<<>>)'
  <2>1. \A i \in Newlines' : i \in Nat /\ ~(i < 1)
    BY <1>1, LenProperties DEF Newlines
  <2>2. SoFar(<<>>)'
    BY <1>5, <2>1 DEF SoFar
  <2>3. Begin(<<>>, Len(<<>>) + 1) = 1
    BY DEF Begin
  <2>4. Inside(<<>>)'
    BY <1>2, <1>5, <2>3 DEF Inside, Begin
  <2> QED
    BY <2>2, <2>4
<1>9. <<>> \in Seq(Nat)
  OBVIOUS
<1> QED
  BY <1>5, <1>6, <1>7, <1>8, <1>9 DEF LogInv

LEMMA BehindPointer ==
  ASSUME LogTypes, Memory, NEW c \in Seq(Nat), Inside(c) \/ Outside(c)
  PROVE  bstr <= estr
<1>1. nbrds \in Nat /\ bstr \in Nat /\ estr \in Nat /\ Len(packet) \in Nat /\ nbrds <= Len(packet)
  BY LenProperties DEF LogTypes, Memory
<1>2. CASE logged = <<>>
  <2>1. Len(logged) = 0 /\ Len(c) \in Nat
    BY <1>2, LenProperties
  <2>2. Inside(c) /\ Len(c) = 0
    BY <2>1 DEF Inside, Outside
  <2>3. bstr = 1
    BY <2>2 DEF Inside, Begin
  <2>4. estr = 1 + (Len(packet) - nbrds)
    BY <1>1, <2>1 DEF Memory
  <2> QED
    BY <1>1, <2>3, <2>4
<1>3. CASE logged # <<>>
  BY <1>1, <1>3 DEF Memory
<1> QED
  BY <1>2, <1>3

(* A turn that finds no newline.                                            *)
LEMMA NextByteStep == LogInv /\ NextByte => LogInv'
<1> SUFFICES ASSUME LogInv, NextByte PROVE LogInv'
  OBVIOUS
<1>1. /\ reading /\ nbrds > 0 /\ (estr <= RbufSize => rbuf[estr] # Newline)
      /\ estr' = estr + 1 /\ nbrds' = nbrds - 1
      /\ UNCHANGED <<reading, bstr, rbuf, strayed, buf, logged, packet, behind, kept>>
  BY DEF NextByte, history
<1>2. /\ nbrds \in Nat /\ bstr \in Nat \ {0} /\ estr \in Nat /\ Len(packet) \in Nat /\ Len(logged) \in Nat
      /\ DOMAIN packet = 1 .. Len(packet)
  BY LenProperties DEF LogInv, LogTypes
<1>3. reading /\ ~strayed /\ Memory
  BY <1>1, <1>2 DEF LogInv
<1>4. PICK c \in Seq(Nat) : SoFar(c) /\ (Inside(c) \/ Outside(c))
  BY <1>3 DEF LogInv
<1>5. LogTypes'
  BY <1>1, <1>2 DEF LogInv, LogTypes
<1>6. Memory'
  <2>1. bstr < estr => bstr' < estr'
    BY <1>1, <1>2
  <2>2. /\ nbrds' <= Len(packet) /\ Len(logged) + nbrds' <= Len(packet)
        /\ estr' = 1 + (Len(packet) - nbrds') + Len(logged)
    <3>1. /\ nbrds <= Len(packet) /\ Len(logged) + nbrds <= Len(packet)
          /\ estr = 1 + (Len(packet) - nbrds) + Len(logged)
      BY <1>3 DEF Memory
    <3> QED
      BY ONLY <1>1, <1>2, <3>1
  <2> QED
    BY <1>1, <1>3, <2>1, <2>2 DEF Memory
<1>7. \A k \in DOMAIN c : LineOf(c, k)' = LineOf(c, k)
  BY <1>1 DEF LineOf, Begin
<1>8. SoFar(c)'
  <2>1. Newlines' = Newlines /\ \A i \in Newlines : i \in 1 .. Len(packet) /\ packet[i] = Newline
    BY <1>1, <1>2 DEF Newlines
  <2>2. bstr <= estr
    BY <1>3, <1>4, BehindPointer DEF LogInv
  <2>3. estr \notin Newlines
    <3>1. CASE estr <= Len(packet)
      <4>1. estr \in bstr .. Len(packet)
        BY <1>2, <2>2, <3>1
      <4>2. rbuf[estr] = packet[estr]
        BY <1>3, <4>1 DEF Memory
      <4>3. estr <= RbufSize
        BY <1>2, <1>3, <3>1 DEF Memory
      <4> QED
        BY <1>1, <2>1, <4>2, <4>3
    <3>2. CASE ~(estr <= Len(packet))
      BY <1>2, <2>1, <3>2
    <3> QED
      BY <3>1, <3>2
  <2>4. \A i \in Newlines : i < estr' => i < estr
    BY <1>1, <1>2, <2>1, <2>3
  <2> QED
    BY <1>1, <1>4, <1>7, <2>1, <2>4 DEF SoFar, CutAt
<1>9. Inside(c)' \/ Outside(c)'
  <2>1. CASE Inside(c)
    BY <1>1, <2>1 DEF Inside, Begin
  <2>2. CASE Outside(c)
    <3>1. bstr' < estr'
      BY <1>1, <1>2, <2>2 DEF Outside
    <3>2. Left(c)' = Left(c) /\ NewlineBehind' = NewlineBehind
      BY <1>1 DEF Left, Begin, NewlineBehind
    <3> QED
      BY <1>1, <2>2, <3>1, <3>2 DEF Outside
  <2> QED
    BY <1>4, <2>1, <2>2
<1> QED
  BY <1>1, <1>3, <1>4, <1>5, <1>6, <1>8, <1>9 DEF LogInv

(* A line ended in the packet is the next of its lines.                     *)
LEMMA CutsAfter ==
  ASSUME LogTypes, NEW c \in Seq(Nat), SoFar(c), Inside(c), bstr <= estr, estr \in Newlines,
         Len(c) > 0 => bstr < estr,
         NEW text, text = SubSeq(packet, bstr, estr - 1),
         logged' = Append(logged, buf \o text), buf \o text \in Seq(Nat),
         IF logged = <<>> THEN buf = kept ELSE buf = <<>>,
         bstr' = estr + 1, estr' = estr + 2, UNCHANGED history
  PROVE  \E d \in Seq(Nat) : SoFar(d)' /\ Inside(d)'
<1>1. /\ bstr \in Nat /\ estr \in Nat /\ Len(c) \in Nat /\ Len(logged) \in Nat /\ Len(packet) \in Nat
      /\ DOMAIN c = 1 .. Len(c) /\ DOMAIN packet = 1 .. Len(packet) /\ Newlines \subseteq 1 .. Len(packet)
      /\ logged \in Seq(Seq(Nat)) /\ \A k \in DOMAIN c : c[k] \in Nat
  BY LenProperties, ElementOfSeq DEF LogTypes, Newlines
<1>2. PICK d : d = Append(c, estr)
  OBVIOUS
<1>3. /\ d \in Seq(Nat) /\ Len(d) = Len(c) + 1 /\ d[Len(d)] = estr
      /\ DOMAIN c \subseteq DOMAIN d /\ \A k \in DOMAIN c : d[k] = c[k]
      /\ \A k \in DOMAIN d : k \in DOMAIN c \/ k = Len(d)
      /\ Len(d) \in DOMAIN d
  <2>1. c \in Seq(Nat) /\ estr \in Nat
    BY <1>1
  <2>2. Len(d) = Len(c) + 1
    BY <1>2, <2>1, AppendIs
  <2>3. /\ d \in Seq(Nat) /\ d[Len(d)] = estr
        /\ DOMAIN c \subseteq DOMAIN d /\ \A k \in DOMAIN c : d[k] = c[k]
        /\ \A k \in DOMAIN d : k \in DOMAIN c \/ k = Len(d)
        /\ Len(d) \in DOMAIN d
    BY ONLY <1>2, <2>1, AppendIs
  <2> QED
    BY <2>2, <2>3
<1>4. /\ Len(logged') = Len(logged) + 1
      /\ logged'[Len(logged) + 1] = buf \o text
      /\ \A k \in DOMAIN logged : logged'[k] = logged[k]
      /\ DOMAIN logged = 1 .. Len(logged)
  <2>1. PICK line \in Seq(Nat) : line = buf \o text
    OBVIOUS
  <2>2. PICK old \in Seq(Seq(Nat)) : old = logged
    BY <1>1
  <2>3. PICK new : new = logged' /\ new = Append(old, line)
    BY <2>1, <2>2
  <2>4. /\ Len(new) = Len(old) + 1
        /\ new[Len(new)] = line
        /\ \A k \in DOMAIN old : new[k] = old[k]
    <3>1. PICK T : T = Seq(Nat)
      OBVIOUS
    <3>2. old \in Seq(T) /\ line \in T /\ new = Append(old, line)
      BY <2>1, <2>2, <2>3, <3>1
    <3> QED
      BY ONLY <3>2, AppendIs
  <2> QED
    BY <1>1, <2>1, <2>2, <2>3, <2>4, LenProperties
<1>5. Newlines' = Newlines /\ packet' = packet /\ kept' = kept
  BY DEF history, Newlines
<1>6. Len(c) = Len(logged) /\ bstr = Begin(c, Len(c) + 1)
  BY DEF Inside
<1>7. \A k \in DOMAIN c : c[k] < bstr
  BY DEF SoFar
<1>8. LineOf(d, Len(d)) = buf \o text
  <2>1. Begin(d, Len(d)) = bstr
    <3>1. CASE Len(c) = 0
      BY <1>3, <1>6, <3>1 DEF Begin
    <3>2. CASE Len(c) # 0
      <4>1. Len(c) \in DOMAIN c /\ Len(c) + 1 # 1 /\ Len(c) + 1 - 1 = Len(c)
        <5>1. Len(c) \in Nat /\ DOMAIN c = 1 .. Len(c)
          BY <1>1
        <5> QED
          BY ONLY <3>2, <5>1
      <4> QED
        BY <1>3, <1>6, <4>1 DEF Begin
    <3> QED
      BY <3>1, <3>2
  <2>2. (IF Len(d) = 1 THEN kept ELSE <<>>) = buf
    <3>1. Len(d) = 1 <=> Len(logged) = 0
      BY <1>1, <1>3, <1>6
    <3>2. Len(logged) = 0 <=> logged = <<>>
      BY <1>1, EmptySeq
    <3> QED
      BY <3>1, <3>2
  <2> QED
    BY <1>3, <2>1, <2>2 DEF LineOf
<1>9. \A k \in DOMAIN c : LineOf(d, k) = LineOf(c, k)
  <2>1. ASSUME NEW k \in DOMAIN c PROVE Begin(d, k) = Begin(c, k) /\ d[k] = c[k]
    <3>1. k = 1 \/ k - 1 \in DOMAIN c
      <4>1. Len(c) \in Nat /\ DOMAIN c = 1 .. Len(c)
        BY <1>1
      <4> QED
        BY ONLY <2>1, <4>1
    <3> QED
      BY <1>3, <3>1 DEF Begin
  <2> QED
    BY <2>1 DEF LineOf
<1>10. \A k \in DOMAIN d : logged'[k] = LineOf(d, k)
  <2>1. \A k \in DOMAIN c : logged[k] = LineOf(c, k) /\ k \in DOMAIN logged
    BY <1>1, <1>4, <1>6 DEF SoFar
  <2>2. \A k \in DOMAIN c : logged'[k] = LineOf(d, k)
    BY <1>4, <1>9, <2>1
  <2>3. logged'[Len(d)] = LineOf(d, Len(d))
    BY <1>3, <1>4, <1>6, <1>8
  <2> QED
    BY <1>3, <2>2, <2>3
<1>11. \A k \in DOMAIN d : d[k] \in Newlines /\ d[k] < estr + 1
  <2>1. \A k \in DOMAIN c : d[k] \in Newlines /\ d[k] < bstr
    BY <1>3, <1>7 DEF SoFar
  <2>2. ASSUME NEW k \in DOMAIN c PROVE d[k] < estr + 1
    <3>1. d[k] \in Nat /\ d[k] < bstr
      BY <1>1, <1>3, <2>1
    <3> QED
      BY <1>1, <3>1
  <2>3. d[Len(d)] \in Newlines /\ d[Len(d)] < estr + 1
    BY <1>1, <1>3
  <2> QED
    BY <1>3, <2>1, <2>2, <2>3
<1>12. \A j, k \in DOMAIN d : j < k => d[j] < d[k]
  <2>1. ASSUME NEW j \in DOMAIN d, NEW k \in DOMAIN d, j < k
        PROVE  d[j] < d[k]
    <3>1. j \in DOMAIN c
      <4>1. k \in DOMAIN c \/ k = Len(c) + 1
        BY <1>3
      <4>2. j # Len(c) + 1
        BY <1>1, <2>1, <4>1
      <4> QED
        BY <1>3, <4>2
    <3>2. CASE k \in DOMAIN c
      BY <1>3, <2>1, <3>1, <3>2 DEF SoFar
    <3>3. CASE k = Len(d)
      <4>1. d[j] \in Nat /\ d[j] < bstr /\ d[k] = estr
        BY <1>1, <1>3, <1>7, <3>1, <3>3
      <4> QED
        BY <1>1, <4>1
    <3> QED
      BY <1>3, <3>2, <3>3
  <2> QED
    BY <2>1
<1>13. \A i : CutAt(d, i) <=> CutAt(c, i) \/ i = estr
  BY <1>3 DEF CutAt
<1>14. \A i \in Newlines : i < estr + 2 => (CutAt(d, i) <=> ~CutAt(d, i - 1))
  <2>1. \A i \in Nat : CutAt(c, i) => i < bstr
    BY <1>7 DEF CutAt
  <2>2. ASSUME NEW i \in Newlines, i < estr PROVE CutAt(d, i) <=> ~CutAt(d, i - 1)
    <3>1. i \in Nat /\ i # estr /\ i - 1 # estr
      BY <1>1, <2>2
    <3>2. CutAt(c, i) <=> ~CutAt(c, i - 1)
      BY <2>2 DEF SoFar
    <3> QED
      BY <1>13, <3>1, <3>2
  <2>3. CutAt(d, estr) /\ ~CutAt(d, estr - 1)
    <3>1. estr - 1 \in Nat /\ estr - 1 # estr
      BY <1>1
    <3>2. ASSUME CutAt(c, estr - 1) PROVE FALSE
      <4>1. Len(c) > 0
        BY <1>1, <3>2 DEF CutAt
      <4>2. estr - 1 < bstr /\ bstr < estr
        BY <2>1, <3>1, <3>2, <4>1
      <4> QED
        BY <1>1, <4>2
    <3> QED
      BY <1>13, <3>1, <3>2
  <2>4. ~CutAt(d, estr + 1) /\ CutAt(d, estr + 1 - 1)
    <3>1. estr + 1 \in Nat /\ estr + 1 # estr /\ estr + 1 - 1 = estr /\ ~(estr + 1 < bstr)
      BY <1>1
    <3> QED
      BY <1>13, <2>1, <3>1
  <2>5. \A i \in Newlines : i < estr + 2 => i < estr \/ i = estr \/ i = estr + 1
    BY <1>1
  <2> HIDE <1>13
  <2>6. ASSUME NEW i \in Newlines, i < estr + 2 PROVE CutAt(d, i) <=> ~CutAt(d, i - 1)
    <3>1. CASE i < estr
      BY <2>2, <3>1
    <3>2. CASE i = estr
      BY <2>3, <3>2
    <3>3. CASE i = estr + 1
      BY <2>4, <3>3
    <3> QED
      BY <2>5, <2>6, <3>1, <3>2, <3>3
  <2> QED
    BY <2>6
<1>15. SoFar(d)'
  <2>1. Len(d) <= Len(logged')
    BY <1>1, <1>3, <1>4, <1>6
  <2>2. \A k \in DOMAIN d : LineOf(d, k)' = LineOf(d, k)
    BY <1>5 DEF LineOf, Begin
  <2> QED
    BY <1>5, <1>10, <1>11, <1>12, <1>14, <2>1, <2>2 DEF SoFar, CutAt
<1>16. Inside(d)'
  <2>1. Begin(d, Len(d) + 1) = estr + 1
    <3>1. Len(d) + 1 # 1 /\ Len(d) + 1 - 1 = Len(d)
      BY ONLY <1>1, <1>3
    <3> QED
      BY <1>3, <3>1 DEF Begin
  <2>2. estr + 1 <= Len(packet) + 1
    BY <1>1
  <2> QED
    BY <1>1, <1>3, <1>4, <1>5, <1>6, <2>1, <2>2 DEF Inside, Begin
<1> QED
  BY <1>3, <1>15, <1>16

(* What an ended line leaves in memory.                                     *)
LEMMA LineEnded ==
  ASSUME LogInv, EndLine
  PROVE  /\ reading /\ ~strayed /\ Memory
         /\ RbufSize \in Nat /\ Len(packet) < RbufSize
         /\ estr \in Nat /\ bstr \in Nat \ {0} /\ Len(packet) \in Nat /\ Len(logged) \in Nat
         /\ estr <= RbufSize /\ estr # Len(packet) + 1
         /\ rbuf' \in Seq(Nat) /\ Len(rbuf') = RbufSize
         /\ rbuf'[estr] = Nul
         /\ \A i \in 1 .. Len(rbuf') : i # estr => rbuf'[i] = rbuf[i]
         /\ estr \in 1 .. Len(rbuf')
<1>1. /\ reading /\ nbrds > 0 /\ estr <= RbufSize /\ rbuf[estr] = Newline
      /\ rbuf' = [rbuf EXCEPT ![estr] = Nul]
  BY DEF EndLine
<1>2. /\ nbrds \in Nat /\ bstr \in Nat \ {0} /\ estr \in Nat /\ Len(packet) \in Nat /\ Len(logged) \in Nat
  BY LenProperties DEF LogInv, LogTypes
<1>3. reading /\ ~strayed /\ Memory
  BY <1>1, <1>2 DEF LogInv
<1>4. estr # Len(packet) + 1
  BY <1>1, <1>3 DEF Memory, Nul, Newline
<1>5. /\ estr <= RbufSize /\ estr \in 1 .. RbufSize
      /\ RbufSize \in Nat /\ Len(packet) < RbufSize
  BY <1>1, <1>2, <1>3 DEF Memory
<1>6. rbuf \in Seq(Nat) /\ Len(rbuf) = RbufSize /\ Nul \in Nat
  BY <1>3 DEF Memory, Nul
<1>7. PICK m \in Seq(Nat) : m = rbuf
  BY <1>6
<1>8. PICK e \in 1 .. Len(m) : e = estr
  BY <1>7, <1>5, <1>6
<1>9. PICK r : r = rbuf'
  OBVIOUS
<1>10. r = [m EXCEPT ![e] = Nul]
  BY <1>7, <1>1, <1>8, <1>9
<1>11. /\ r \in Seq(Nat) /\ Len(r) = Len(m)
      /\ \A j \in 1 .. Len(m) : r[j] = IF j = e THEN Nul ELSE m[j]
  BY <1>6, <1>10, ExceptSeq
<1> QED
  BY <1>7, <1>2, <1>3, <1>4, <1>5, <1>6, <1>8, <1>11, <1>9

LEMMA EndLineStep == LogInv /\ EndLine => LogInv'
<1> SUFFICES ASSUME LogInv, EndLine PROVE LogInv'
  OBVIOUS
<1>1. /\ reading /\ ~strayed /\ Memory
      /\ RbufSize \in Nat /\ Len(packet) < RbufSize
      /\ estr \in Nat /\ bstr \in Nat \ {0} /\ Len(packet) \in Nat /\ Len(logged) \in Nat
      /\ estr <= RbufSize /\ estr # Len(packet) + 1
      /\ rbuf' \in Seq(Nat) /\ Len(rbuf') = RbufSize
      /\ rbuf'[estr] = Nul
      /\ \A i \in 1 .. Len(rbuf') : i # estr => rbuf'[i] = rbuf[i]
      /\ estr \in 1 .. Len(rbuf')
  BY LineEnded
<1>2. /\ nbrds > 0 /\ rbuf[estr] = Newline
      /\ logged' = Append(logged, buf \o StringAt(rbuf', bstr))
      /\ buf' = <<>> /\ bstr' = estr + 1 /\ estr' = estr + 2 /\ nbrds' = nbrds - 1
      /\ UNCHANGED <<reading, strayed, packet, behind, kept>>
  BY DEF EndLine, history
<1>3. PICK c \in Seq(Nat) : SoFar(c) /\ (Inside(c) \/ Outside(c))
  BY <1>1 DEF LogInv
<1>4. bstr <= estr /\ LogTypes
  BY <1>1, <1>3, BehindPointer DEF LogInv
<1>5. PICK r : r = rbuf'
  OBVIOUS
<1>6. bstr \in 1 .. Len(r) /\ estr \in bstr .. Len(r) /\ r \in Seq(Nat) /\ r[estr] = Nul
  BY <1>1, <1>4, <1>5
<1>7. PICK j \in bstr .. estr :
        /\ r[j] = Nul /\ \A k \in bstr .. j - 1 : r[k] # Nul
        /\ StringAt(r, bstr) = SubSeq(r, bstr, j - 1)
  BY <1>6, StringFound
<1>8. PICK text : text = StringAt(rbuf', bstr) /\ text = SubSeq(r, bstr, j - 1)
  BY <1>5, <1>7
<1>9. /\ j \in Nat /\ bstr <= j /\ j <= estr
      /\ text \in Seq(Nat) /\ DOMAIN text = 1 .. j - bstr
      /\ \A k \in DOMAIN text : text[k] = r[bstr + k - 1]
  <2>1. j \in Nat /\ bstr <= j /\ j <= estr /\ j <= Len(r) /\ Len(r) \in Nat
    BY <1>1, <1>5
  <2>2. bstr \in 1 .. Len(r) + 1 /\ j - 1 \in 0 .. Len(r)
    BY <1>1, <2>1
  <2>3. /\ text \in Seq(Nat)
        /\ Len(text) = IF bstr <= j - 1 THEN j - 1 - bstr + 1 ELSE 0
        /\ \A k \in 1 .. j - 1 - bstr + 1 : text[k] = r[bstr + k - 1]
    BY <1>6, <1>8, <2>2, PartIs
  <2>4. Len(text) = j - bstr /\ j - 1 - bstr + 1 = j - bstr
    BY <1>1, <2>1, <2>3
  <2>5. DOMAIN text = 1 .. j - bstr
    BY <2>3, <2>4, LenProperties
  <2> QED
    BY <2>1, <2>3, <2>4, <2>5
<1>10. PICK line \in Seq(Nat) : line = buf \o text
  BY <1>4, <1>9, ConcatProperties DEF LogTypes
<1>11. /\ logged' = Append(logged, line) /\ logged' \in Seq(Seq(Nat))
       /\ Len(logged') = Len(logged) + 1
       /\ logged'[Len(logged) + 1] = line
       /\ DOMAIN logged = 1 .. Len(logged)
       /\ \A k \in DOMAIN logged : logged'[k] = logged[k]
  <2>1. logged' = Append(logged, line)
    BY <1>2, <1>8, <1>10
  <2>2. PICK old \in Seq(Seq(Nat)) : old = logged
    BY <1>4 DEF LogTypes
  <2>3. PICK new : new = logged' /\ new = Append(old, line)
    BY <2>1, <2>2
  <2>4. /\ new \in Seq(Seq(Nat)) /\ Len(new) = Len(old) + 1
        /\ new[Len(new)] = line
        /\ \A k \in DOMAIN old : new[k] = old[k]
    <3>1. PICK T : T = Seq(Nat)
      OBVIOUS
    <3>2. old \in Seq(T) /\ line \in T /\ new = Append(old, line)
      BY <1>10, <2>2, <2>3, <3>1
    <3>3. /\ new \in Seq(T) /\ Len(new) = Len(old) + 1
          /\ new[Len(new)] = line
          /\ \A k \in DOMAIN old : new[k] = old[k]
      BY ONLY <3>2, AppendIs
    <3> QED
      BY <3>1, <3>3
  <2> QED
    BY <2>1, <2>2, <2>3, <2>4, LenProperties
<1>12. LogTypes'
  <2>1. nbrds' \in Nat /\ bstr' \in Nat \ {0} /\ estr' \in Nat
    BY <1>1, <1>2, <1>4 DEF LogTypes
  <2> QED
    BY <1>2, <1>4, <1>11, <2>1 DEF LogTypes
<1>13. Memory'
  <2>1. /\ nbrds' <= Len(packet) /\ Len(logged') + nbrds' <= Len(packet)
        /\ estr' = 1 + (Len(packet) - nbrds') + Len(logged') /\ bstr' < estr' /\ logged' # <<>>
    <3>1. /\ nbrds \in Nat /\ Len(packet) \in Nat /\ Len(logged) \in Nat /\ estr \in Nat
          /\ nbrds <= Len(packet) /\ Len(logged) + nbrds <= Len(packet)
          /\ estr = 1 + (Len(packet) - nbrds) + Len(logged)
      BY <1>1, <1>4 DEF LogTypes, Memory
    <3>2. Len(logged') = Len(logged) + 1 /\ nbrds' = nbrds - 1 /\ estr' = estr + 2 /\ bstr' = estr + 1
      BY <1>2, <1>11
    <3>3. logged' # <<>>
      <4>1. Len(logged') # Len(<<>>)
        BY <3>1, <3>2
      <4> QED
        BY <4>1
    <3> QED
      BY ONLY <3>1, <3>2, <3>3
  <2>2. rbuf'[Len(packet) + 1] = Nul
    <3>1. Len(packet) + 1 \in 1 .. Len(rbuf') /\ Len(packet) + 1 # estr
      BY <1>1
    <3>2. Len(rbuf) = Len(rbuf')
      BY <1>1 DEF Memory
    <3> QED
      BY <1>1, <3>1, <3>2 DEF Memory
  <2>3. ASSUME NEW i \in bstr' .. Len(packet) PROVE rbuf'[i] = packet[i]
    <3>1. i \in 1 .. Len(rbuf') /\ i # estr /\ i \in bstr .. Len(packet)
      <4>1. /\ estr \in Nat /\ bstr \in Nat \ {0} /\ Len(packet) \in Nat /\ bstr' = estr + 1
            /\ Len(rbuf') = RbufSize /\ bstr <= estr /\ RbufSize \in Nat /\ Len(packet) < RbufSize
        BY <1>1, <1>2, <1>4
      <4> QED
        BY ONLY <4>1, i \in bstr' .. Len(packet)
    <3> QED
      BY <1>1, <3>1 DEF Memory
  <2>4. ASSUME NEW i \in Len(packet) + 2 .. RbufSize
        PROVE  rbuf'[i] <= Letter(0) /\ (rbuf'[i] = Newline => behind[i - (Len(packet) + 1)] = Newline)
    <3>1. CASE i = estr
      BY <1>1, <3>1 DEF Nul, Letter, Newline
    <3>2. CASE i # estr
      <4>1. i \in 1 .. Len(rbuf')
        BY <1>1
      <4> QED
        BY <1>1, <3>2, <4>1 DEF Memory
    <3> QED
      BY <3>1, <3>2
  <2> QED
    BY <1>1, <1>2, <2>1, <2>2, <2>3, <2>4 DEF Memory
<1>14. /\ Newlines \subseteq 1 .. Len(packet) /\ DOMAIN packet = 1 .. Len(packet)
       /\ packet \in Seq(Nat) /\ \A k \in 1 .. Len(packet) : packet[k] # Nul
       /\ Len(c) \in Nat
  BY <1>4, LenProperties DEF LogTypes, Newlines
<1>15. ASSUME bstr <= Len(packet) + 1 PROVE j = IF estr <= Len(packet) THEN estr ELSE Len(packet) + 1
  <2>1. ASSUME NEW k \in bstr .. Len(packet), k < estr PROVE r[k] # Nul
    <3>1. k \in 1 .. Len(rbuf') /\ k # estr /\ k \in 1 .. Len(packet)
      BY <1>1, <2>1
    <3> QED
      BY <1>1, <1>5, <1>14, <3>1 DEF Memory
  <2>2. CASE estr <= Len(packet)
    <3>1. j \in bstr .. Len(packet) /\ (j < estr \/ j = estr)
      <4>1. j \in Nat /\ bstr \in Nat /\ estr \in Nat /\ Len(packet) \in Nat /\ bstr <= j /\ j <= estr
        BY <1>1, <1>9
      <4> QED
        BY ONLY <2>2, <4>1
    <3> QED
      BY <1>7, <2>1, <2>2, <3>1
  <2>3. CASE ~(estr <= Len(packet))
    <3>1. Len(packet) + 1 < estr /\ Len(packet) + 1 \in 1 .. Len(rbuf') /\ Len(packet) + 1 # estr
      BY <1>1, <2>3
    <3>2. r[Len(packet) + 1] = Nul
      BY <1>1, <1>5, <3>1 DEF Memory
    <3>3. ~(Len(packet) + 1 \in bstr .. j - 1)
      BY <1>7, <3>2
    <3>4. ~(j <= Len(packet))
      <4>1. ASSUME j <= Len(packet) PROVE j \in bstr .. Len(packet) /\ j < estr
        BY <1>1, <1>9, <3>1, <4>1
      <4> QED
        BY <1>7, <2>1, <4>1
    <3>5. j \in Nat /\ bstr \in Nat /\ Len(packet) \in Nat /\ bstr <= Len(packet) + 1
      BY <1>1, <1>9, <1>15
    <3>6. j = Len(packet) + 1
      BY ONLY <3>3, <3>4, <3>5
    <3> QED
      BY <2>3, <3>6
  <2> QED
    BY <2>2, <2>3
<1>16. ASSUME bstr <= Len(packet) + 1, NEW e, e = j - 1, e <= Len(packet), j <= estr
       PROVE  text = SubSeq(packet, bstr, e)
  <2>0. /\ j \in Nat /\ bstr \in Nat \ {0} /\ estr \in Nat /\ Len(packet) \in Nat
        /\ bstr <= j /\ j <= estr /\ bstr <= Len(packet) + 1 /\ e = j - 1 /\ e <= Len(packet)
        /\ Len(r) = RbufSize /\ Len(rbuf') = Len(r) /\ RbufSize \in Nat /\ Len(packet) < RbufSize
    BY <1>1, <1>5, <1>9, <1>16
  <2>1. e \in Nat /\ bstr \in 1 .. Len(packet) + 1 /\ e \in 0 .. Len(packet) /\ Len(r) = RbufSize
    BY ONLY <2>0
  <2>2. ASSUME NEW k \in bstr .. e PROVE packet[k] = r[k]
    <3>1. k \in bstr .. Len(packet) /\ k \in 1 .. Len(rbuf') /\ k # estr
      BY ONLY <2>0, k \in bstr .. e
    <3> QED
      BY <1>1, <1>5, <3>1 DEF Memory
  <2>3. bstr <= Len(r) + 1 /\ e <= Len(r)
    BY ONLY <2>0
  <2>4. SubSeq(packet, bstr, e) = SubSeq(r, bstr, e)
    BY <1>6, <1>14, <2>1, <2>2, <2>3, SamePart
  <2> QED
    BY <1>8, <1>16, <2>4
<1>17. CASE Inside(c) /\ estr <= Len(packet)
  <2>1. text = SubSeq(packet, bstr, estr - 1)
    <3>1. j = estr /\ bstr <= Len(packet) + 1
      BY <1>15, <1>17 DEF Inside
    <3>2. j - 1 <= Len(packet) /\ j - 1 = estr - 1
      BY <1>1, <1>17, <3>1
    <3> QED
      BY <1>9, <1>16, <3>1, <3>2
  <2>2. estr \in Newlines
    <3>1. estr \in bstr .. Len(packet) /\ estr \in 1 .. Len(packet)
      BY <1>1, <1>4, <1>17
    <3>2. packet[estr] = Newline
      BY <1>1, <1>2, <3>1 DEF Memory
    <3> QED
      BY <1>14, <3>1, <3>2 DEF Newlines
  <2>3. IF logged = <<>> THEN buf = kept ELSE buf = <<>>
    BY <1>1 DEF Memory
  <2>4. Len(c) > 0 => bstr < estr
    <3>1. Len(c) = Len(logged)
      BY <1>17 DEF Inside
    <3>2. logged = <<>> => Len(logged) = 0
      OBVIOUS
    <3> QED
      BY <1>1, <3>1, <3>2 DEF Memory
  <2>5. UNCHANGED history
    BY <1>2 DEF history
  <2>6. logged' = Append(logged, buf \o text) /\ buf \o text \in Seq(Nat)
    BY <1>10, <1>11
  <2>7. \E d \in Seq(Nat) : SoFar(d)' /\ Inside(d)'
    BY <1>2, <1>3, <1>4, <1>17, <2>1, <2>2, <2>3, <2>4, <2>5, <2>6, CutsAfter
  <2> QED
    BY <1>1, <1>2, <1>12, <1>13, <2>7 DEF LogInv
<1>18. ASSUME ~(Inside(c) /\ estr <= Len(packet))
       PROVE  SoFar(c)' /\ Outside(c)'
  <2>1. Len(packet) + 1 < estr /\ Len(packet) + 1 < estr + 1
    <3>1. estr \in Nat /\ bstr \in Nat /\ Len(packet) \in Nat /\ bstr <= estr /\ estr # Len(packet) + 1
      BY <1>1, <1>4
    <3>2. ~(estr <= Len(packet)) \/ Len(packet) + 1 < bstr
      BY <1>3, <1>18 DEF Outside
    <3> QED
      BY ONLY <3>1, <3>2
  <2>2. Newlines' = Newlines /\ Left(c)' = Left(c) /\ NewlineBehind' = NewlineBehind
        /\ \A k \in DOMAIN c : LineOf(c, k)' = LineOf(c, k)
    BY <1>2 DEF Newlines, Left, LineOf, Begin, NewlineBehind
  <2>3. Len(c) <= Len(logged) /\ DOMAIN c = 1 .. Len(c) /\ DOMAIN c \subseteq DOMAIN logged
    <3>1. Len(c) <= Len(logged) /\ DOMAIN c = 1 .. Len(c)
      BY <1>3, LenProperties DEF SoFar
    <3> QED
      BY <1>1, <1>11, <1>14, <3>1
  <2>4. SoFar(c)'
    <3>1. Len(c) <= Len(logged')
      BY <1>1, <1>11, <1>14, <2>3
    <3>2. \A k \in DOMAIN c : c[k] \in Newlines /\ c[k] < bstr'
      <4>1. ASSUME NEW k \in DOMAIN c PROVE c[k] \in Newlines /\ c[k] < estr + 1
        <5>1. c[k] \in Newlines /\ c[k] < bstr
          BY <1>3 DEF SoFar
        <5>2. c[k] \in Nat /\ bstr \in Nat /\ estr \in Nat /\ bstr <= estr
          <6>1. c[k] \in 1 .. Len(packet) /\ Len(packet) \in Nat /\ estr \in Nat /\ bstr \in Nat /\ bstr <= estr
            BY <1>1, <1>4, <1>14, <5>1
          <6> QED
            BY ONLY <6>1
        <5>3. c[k] < estr + 1
          BY ONLY <5>1, <5>2
        <5> QED
          BY <5>1, <5>3
      <4> QED
        BY <1>2, <4>1
    <3>3. \A i \in Newlines : i < estr
      BY <1>1, <1>14, <2>1
    <3>4. \A k \in DOMAIN c : logged'[k] = LineOf(c, k)
      BY <1>3, <1>11, <2>3 DEF SoFar
    <3> QED
      BY <1>3, <2>2, <3>1, <3>2, <3>3, <3>4 DEF SoFar, CutAt
  <2>5. /\ Len(packet) + 1 < bstr' /\ bstr' < estr' /\ Len(c) < Len(logged')
    BY <1>1, <1>2, <1>11, <1>14, <2>1, <2>3
  <2>6. logged # <<>> => buf = <<>>
    BY <1>1 DEF Memory
  <2>7. CASE Inside(c)
    <3>1. Len(c) = Len(logged) /\ bstr = Begin(c, Len(c) + 1) /\ bstr <= Len(packet) + 1
      BY <2>7 DEF Inside
    <3>2. 1 < Len(c)
      <4>1. /\ nbrds \in Nat /\ nbrds > 0 /\ nbrds <= Len(packet)
            /\ estr = 1 + (Len(packet) - nbrds) + Len(logged)
        BY <1>1, <1>2, <1>4 DEF LogTypes, Memory
      <4>2. Len(packet) \in Nat /\ Len(logged) \in Nat
        BY <1>1
      <4>3. 1 < Len(logged)
        BY ONLY <2>1, <4>1, <4>2
      <4> QED
        BY <3>1, <4>3
    <3>3. NewlineBehind
      <4>1. estr \in Len(packet) + 2 .. RbufSize
        BY <1>1, <2>1
      <4>2. behind[estr - (Len(packet) + 1)] = Newline
        BY <1>1, <1>2, <4>1 DEF Memory
      <4>3. Len(behind) \in Nat /\ DOMAIN behind = 1 .. Len(behind) /\ Len(behind) + Len(packet) + 1 = RbufSize
        BY <1>1, <1>4, LenProperties DEF LogTypes, Memory
      <4>4. estr - (Len(packet) + 1) \in DOMAIN behind
        <5>1. estr \in Nat /\ Len(packet) \in Nat /\ estr <= RbufSize
          BY <1>1
        <5> QED
          BY ONLY <2>1, <4>3, <5>1
      <4> QED
        BY <4>2, <4>4 DEF NewlineBehind
    <3>4. j = Len(packet) + 1
      BY <1>1, <1>15, <2>1, <3>1
    <3>5. text = SubSeq(packet, bstr, Len(packet))
      <4>1. Len(packet) = j - 1 /\ Len(packet) <= Len(packet)
        BY <1>1, <3>4
      <4> QED
        BY <1>9, <1>16, <3>1, <4>1
    <3>6. line = Left(c)
      <4>1. buf = <<>>
        <5>1. logged # <<>>
          BY <3>1, <3>2
        <5> QED
          BY <2>6, <5>1
      <4>2. line = text
        BY <1>9, <1>10, <4>1, ConcatEmptySeq
      <4> QED
        BY <3>1, <3>5, <4>2 DEF Left
    <3>7. logged'[Len(c) + 1] = Left(c)
      BY <1>11, <3>1, <3>6
    <3>8. Len(c) + 2 .. Len(logged') = {}
      BY <1>1, <1>11, <3>1
    <3> QED
      BY <1>2, <2>2, <2>4, <2>5, <3>2, <3>3, <3>7, <3>8 DEF Outside
  <2>8. CASE Outside(c)
    <3>1. /\ 1 < Len(c) /\ Len(c) < Len(logged) /\ NewlineBehind /\ logged[Len(c) + 1] = Left(c)
          /\ Len(packet) + 1 < bstr
          /\ \A k \in Len(c) + 2 .. Len(logged) : NoLetter(logged[k])
      BY <2>8 DEF Outside
    <3>2. logged'[Len(c) + 1] = Left(c)
      <4>1. Len(c) + 1 \in DOMAIN logged
        <5>1. Len(c) \in Nat /\ Len(logged) \in Nat /\ DOMAIN logged = 1 .. Len(logged)
          BY <1>1, <1>11, <1>14
        <5>2. Len(c) < Len(logged)
          BY <3>1
        <5> QED
          BY ONLY <5>1, <5>2
      <4> QED
        BY <1>11, <3>1, <4>1
    <3>3. line = text
      <4>1. logged # <<>>
        BY <1>14, <3>1
      <4> QED
        BY <1>9, <1>10, <2>6, <4>1, ConcatEmptySeq
    <3>4. NoLetter(line)
      <4>1. ASSUME NEW k \in DOMAIN text PROVE text[k] <= Letter(0)
        <5>1. /\ k \in 1 .. j - bstr /\ j \in Nat /\ bstr \in Nat /\ estr \in Nat /\ Len(packet) \in Nat
              /\ j <= estr /\ estr <= RbufSize /\ Len(packet) + 1 < bstr /\ RbufSize \in Nat
          BY <1>1, <1>9, <3>1
        <5>2. bstr + k - 1 \in Len(packet) + 2 .. RbufSize
          BY ONLY <5>1
        <5>3. rbuf'[bstr + k - 1] <= Letter(0)
          BY <1>2, <1>13, <5>2 DEF Memory
        <5> QED
          BY <1>5, <1>9, <5>3
      <4> QED
        BY <3>3, <4>1 DEF NoLetter
    <3>5. \A k \in Len(c) + 2 .. Len(logged') : NoLetter(logged'[k])
      <4>1. ASSUME NEW k \in Len(c) + 2 .. Len(logged')
            PROVE  (k \in Len(c) + 2 .. Len(logged) /\ k \in DOMAIN logged) \/ k = Len(logged) + 1
        <5>1. PICK m \in Nat, n \in Nat : m = Len(c) /\ n = Len(logged)
          BY <1>1, <1>14
        <5>2. k \in m + 2 .. n + 1
          BY <1>11, <5>1
        <5>3. k \in Nat /\ m + 2 <= k /\ k <= n + 1
          BY ONLY <5>1, <5>2
        <5>4. (k \in m + 2 .. n /\ k \in 1 .. n) \/ k = n + 1
          BY ONLY <5>1, <5>3
        <5> QED
          BY <1>11, <5>1, <5>4
      <4> QED
        BY <1>11, <3>1, <3>4, <4>1
    <3> QED
      BY <1>2, <2>2, <2>4, <2>5, <3>1, <3>2, <3>5 DEF Outside, NoLetter
  <2> QED
    BY <1>3, <2>4, <2>7, <2>8
<1>19. CASE ~(Inside(c) /\ estr <= Len(packet))
  BY <1>1, <1>2, <1>12, <1>13, <1>18, <1>19 DEF LogInv
<1> QED
  BY <1>17, <1>19

(* When the loop has passed the packet it has ended all lines of it.        *)
LEMMA AllCut ==
  ASSUME LogTypes, NEW c \in Seq(Nat), SoFar(c), Len(packet) < estr, Len(logged) <= Len(packet)
  PROVE  c \in Cuts
<1>1. /\ estr \in Nat /\ Len(packet) \in Nat /\ Len(logged) \in Nat /\ Len(c) \in Nat
      /\ DOMAIN c = 1 .. Len(c) /\ DOMAIN packet = 1 .. Len(packet) /\ Newlines \subseteq 1 .. Len(packet)
  BY LenProperties DEF LogTypes, Newlines
<1>2. c \in [1 .. Len(c) -> Newlines]
  <2>1. c \in [1 .. Len(c) -> Nat]
    BY LenProperties
  <2> QED
    BY <1>1, <2>1 DEF SoFar
<1>3. Len(c) \in 0 .. Len(packet)
  BY <1>1 DEF SoFar
<1>4. c \in UNION {[1 .. m -> Newlines] : m \in 0 .. Len(packet)}
  BY <1>2, <1>3
<1>5. \A i \in Newlines : i < estr
  BY <1>1
<1> QED
  BY <1>4, <1>5 DEF SoFar, Cuts

(* The call ends: what is left is kept.                                     *)
LEMMA KeepStep == LogInv /\ Keep => LogInv'
<1> SUFFICES ASSUME LogInv, Keep PROVE LogInv'
  OBVIOUS
<1>1. /\ reading /\ nbrds = 0 /\ reading' = FALSE
      /\ bstr < estr => StringEnds(rbuf, bstr)
      /\ buf' = IF bstr < estr THEN StringAt(rbuf, bstr) ELSE buf
      /\ UNCHANGED <<nbrds, bstr, estr, rbuf, strayed, logged, packet, behind, kept>>
  BY DEF Keep, pointers, history
<1>2. LogTypes /\ Memory /\ ~strayed /\ strayed \in BOOLEAN
  BY <1>1 DEF LogInv
<1>3. PICK c \in Seq(Nat) : SoFar(c) /\ (Inside(c) \/ Outside(c))
  BY <1>1 DEF LogInv
<1>4. /\ bstr \in Nat \ {0} /\ estr \in Nat /\ Len(packet) \in Nat /\ Len(logged) \in Nat /\ Len(c) \in Nat
      /\ DOMAIN c = 1 .. Len(c) /\ DOMAIN logged = 1 .. Len(logged) /\ DOMAIN packet = 1 .. Len(packet)
      /\ packet \in Seq(Nat) /\ Newlines \subseteq 1 .. Len(packet)
  BY <1>2, LenProperties DEF LogTypes, Newlines
<1>5. /\ 0 < Len(packet) /\ Len(logged) <= Len(packet) /\ estr = 1 + Len(packet) + Len(logged)
      /\ rbuf \in Seq(Nat) /\ Len(rbuf) = RbufSize /\ RbufSize \in Nat /\ Len(packet) < RbufSize
  <2>1. /\ 0 < Len(packet) /\ Len(logged) + nbrds <= Len(packet)
        /\ estr = 1 + (Len(packet) - nbrds) + Len(logged)
        /\ rbuf \in Seq(Nat) /\ Len(rbuf) = RbufSize /\ RbufSize \in Nat /\ Len(packet) < RbufSize
    BY <1>2 DEF Memory
  <2> QED
    BY <1>1, <1>4, <2>1
<1>6. bstr < estr
  <2>1. CASE logged = <<>>
    <3>1. Len(logged) = 0
      BY <2>1
    <3>2. Inside(c) /\ Len(c) = 0
      BY <1>3, <1>4, <3>1 DEF Inside, Outside
    <3>3. bstr = 1
      BY <3>2 DEF Inside, Begin
    <3> QED
      BY <1>4, <1>5, <3>1, <3>3
  <2>2. CASE logged # <<>>
    BY <1>2, <2>2 DEF Memory
  <2> QED
    BY <2>1, <2>2
<1>7. /\ bstr \in 1 .. Len(rbuf) /\ Len(rbuf) \in Nat /\ bstr \in 1 .. Len(rbuf) + 1
      /\ \E e \in bstr .. Len(rbuf) : rbuf[e] = Nul
  <2>1. PICK e \in bstr .. Len(rbuf) : rbuf[e] = Nul
    BY <1>1, <1>6 DEF StringEnds
  <2>2. bstr \in Nat \ {0} /\ Len(rbuf) \in Nat
    BY <1>4, <1>5
  <2>3. bstr \in 1 .. Len(rbuf) /\ bstr \in 1 .. Len(rbuf) + 1
    BY ONLY <2>1, <2>2
  <2> QED
    BY <2>1, <2>2, <2>3
<1>8. PICK j \in bstr .. Len(rbuf) :
        /\ rbuf[j] = Nul /\ \A k \in bstr .. j - 1 : rbuf[k] # Nul
        /\ StringAt(rbuf, bstr) = SubSeq(rbuf, bstr, j - 1)
  <2>1. PICK e \in bstr .. Len(rbuf) : rbuf[e] = Nul
    BY <1>7
  <2>2. PICK h \in bstr .. e :
          /\ rbuf[h] = Nul /\ \A k \in bstr .. h - 1 : rbuf[k] # Nul
          /\ StringAt(rbuf, bstr) = SubSeq(rbuf, bstr, h - 1)
    BY <1>5, <1>7, <2>1, StringFound
  <2>3. h \in bstr .. Len(rbuf)
    BY <1>7, <2>1
  <2> QED
    BY <2>2, <2>3
<1>9. PICK text : text = SubSeq(rbuf, bstr, j - 1) /\ buf' = text
  BY <1>1, <1>6, <1>8
<1>10. /\ j \in Nat /\ bstr <= j /\ j <= RbufSize /\ j - 1 \in 0 .. Len(rbuf)
       /\ text \in Seq(Nat) /\ DOMAIN text = 1 .. j - bstr
       /\ \A k \in DOMAIN text : text[k] = rbuf[bstr + k - 1]
  <2>1. j \in Nat /\ bstr <= j /\ j <= Len(rbuf) /\ j - 1 \in 0 .. Len(rbuf) /\ Len(rbuf) = RbufSize
    BY <1>4, <1>5, <1>7
  <2>2. /\ text \in Seq(Nat)
        /\ Len(text) = IF bstr <= j - 1 THEN j - 1 - bstr + 1 ELSE 0
        /\ \A k \in 1 .. j - 1 - bstr + 1 : text[k] = rbuf[bstr + k - 1]
    BY <1>5, <1>7, <1>9, <2>1, PartIs
  <2>3. Len(text) = j - bstr /\ j - 1 - bstr + 1 = j - bstr
    BY <1>4, <2>1, <2>2
  <2>4. DOMAIN text = 1 .. j - bstr
    BY <2>2, <2>3, LenProperties
  <2> QED
    BY <2>1, <2>2, <2>3, <2>4
<1>11. PICK all : all = Append(logged, text)
  OBVIOUS
<1>12. /\ Len(all) = Len(logged) + 1 /\ all[Len(logged) + 1] = text
       /\ \A k \in 1 .. Len(logged) : all[k] = logged[k]
  <2>1. PICK T : T = Seq(Nat)
    OBVIOUS
  <2>2. logged \in Seq(T) /\ text \in T
    BY <1>2, <1>10, <2>1 DEF LogTypes
  <2>3. /\ Len(all) = Len(logged) + 1
        /\ all[Len(all)] = text
        /\ \A k \in DOMAIN logged : all[k] = logged[k]
    BY ONLY <1>11, <2>2, AppendIs
  <2> QED
    BY <1>4, <2>3
<1>13. c \in Cuts
  <2>1. Len(packet) < estr
    BY <1>4, <1>5
  <2> QED
    BY <1>2, <1>3, <1>5, <2>1, AllCut
<1>14. \A k \in 1 .. Len(c) : logged[k] = LineOf(c, k)
  BY <1>3, <1>4 DEF SoFar
<1>15. Len(c) <= Len(logged)
  BY <1>3 DEF SoFar
<1>16. /\ all[Len(c) + 1] = Left(c)
       /\ \A k \in Len(c) + 2 .. Len(all) : NoLetter(all[k])
       /\ Len(c) <= 1 \/ ~NewlineBehind => Len(logged) = Len(c)
  <2>1. CASE Inside(c)
    <3>1. bstr <= Len(packet) + 1 /\ Len(c) = Len(logged) /\ bstr = Begin(c, Len(c) + 1)
      BY <2>1 DEF Inside
    <3>2. ASSUME NEW k \in bstr .. Len(packet) PROVE rbuf[k] = packet[k] /\ packet[k] # Nul
      <4>1. k \in DOMAIN packet
        BY <1>4
      <4> QED
        BY <1>2, <4>1 DEF Memory, LogTypes
    <3>3. rbuf[Len(packet) + 1] = Nul
      BY <1>2 DEF Memory
    <3>4. j = Len(packet) + 1
      <4>1. ~(Len(packet) + 1 \in bstr .. j - 1) /\ ~(j \in bstr .. Len(packet))
        BY <1>8, <3>2, <3>3
      <4>2. j \in Nat /\ bstr \in Nat /\ Len(packet) \in Nat /\ bstr <= j /\ bstr <= Len(packet) + 1
        BY <1>4, <1>10, <3>1
      <4> QED
        BY ONLY <4>1, <4>2
    <3>5. text = SubSeq(packet, bstr, Len(packet))
      <4>1. j - 1 = Len(packet) /\ bstr \in 1 .. Len(packet) + 1 /\ Len(packet) \in 0 .. Len(packet)
        BY <1>4, <3>1, <3>4
      <4>2. bstr <= Len(rbuf) + 1 /\ Len(packet) <= Len(rbuf)
        BY <1>4, <1>5, <1>7
      <4>3. SubSeq(packet, bstr, Len(packet)) = SubSeq(rbuf, bstr, Len(packet))
        BY <1>4, <1>5, <3>2, <4>1, <4>2, SamePart
      <4> QED
        BY <1>9, <4>1, <4>3
    <3>6. Len(c) + 2 .. Len(all) = {}
      BY <1>4, <1>12, <3>1
    <3> QED
      BY <1>12, <3>1, <3>5, <3>6 DEF Left
  <2>2. CASE Outside(c)
    <3>1. /\ Len(packet) + 1 < bstr /\ 1 < Len(c) /\ Len(c) < Len(logged) /\ NewlineBehind
          /\ logged[Len(c) + 1] = Left(c)
          /\ \A k \in Len(c) + 2 .. Len(logged) : NoLetter(logged[k])
      BY <2>2 DEF Outside
    <3>2. all[Len(c) + 1] = Left(c)
      <4>1. Len(c) + 1 \in 1 .. Len(logged)
        BY <1>4, <3>1
      <4> QED
        BY <1>12, <3>1, <4>1
    <3>3. NoLetter(text)
      <4>1. ASSUME NEW k \in DOMAIN text PROVE text[k] <= Letter(0)
        <5>1. /\ k \in 1 .. j - bstr /\ j \in Nat /\ bstr \in Nat /\ Len(packet) \in Nat
              /\ j <= RbufSize /\ Len(packet) + 1 < bstr /\ RbufSize \in Nat
          BY <1>4, <1>5, <1>10, <3>1
        <5>2. bstr + k - 1 \in Len(packet) + 2 .. RbufSize
          BY ONLY <5>1
        <5>3. rbuf[bstr + k - 1] <= Letter(0)
          BY <1>2, <5>2 DEF Memory
        <5> QED
          BY <1>10, <5>3
      <4> QED
        BY <4>1 DEF NoLetter
    <3>4. \A k \in Len(c) + 2 .. Len(all) : NoLetter(all[k])
      <4>1. ASSUME NEW k \in Len(c) + 2 .. Len(all)
            PROVE  (k \in Len(c) + 2 .. Len(logged) /\ k \in 1 .. Len(logged)) \/ k = Len(logged) + 1
        <5>1. PICK m \in Nat, n \in Nat : m = Len(c) /\ n = Len(logged)
          BY <1>4
        <5>2. k \in m + 2 .. n + 1
          BY <1>12, <5>1
        <5>3. (k \in m + 2 .. n /\ k \in 1 .. n) \/ k = n + 1
          BY ONLY <5>1, <5>2
        <5> QED
          BY <5>1, <5>3
      <4> QED
        BY <1>12, <3>1, <3>3, <4>1
    <3>5. ~(Len(c) <= 1)
      BY <1>4, <3>1
    <3> QED
      BY <3>1, <3>2, <3>4, <3>5
  <2> QED
    BY <1>3, <2>1, <2>2
<1>17. LinesLogged'
  <2>1. Cuts' = Cuts /\ Left(c)' = Left(c) /\ NewlineBehind' = NewlineBehind
        /\ \A k \in 1 .. Len(c) : LineOf(c, k)' = LineOf(c, k)
    BY <1>1 DEF Cuts, CutAt, Newlines, Left, LineOf, Begin, NewlineBehind
  <2>2. all = Append(logged, buf)' /\ ~strayed'
    BY <1>1, <1>2, <1>9, <1>11
  <2> QED
    BY <1>1, <1>13, <1>14, <1>15, <1>16, <2>1, <2>2 DEF LinesLogged, NoLetter
<1>18. LogTypes'
  BY <1>1, <1>2, <1>9, <1>10 DEF LogTypes
<1> QED
  BY <1>1, <1>2, <1>17, <1>18 DEF LogInv

(* The call leaves rbuf.  In a line of the packet it is the loop that does, *)
(* for strcpy finds the NUL behind it.                                      *)
LEMMA StrayStep == LogInv /\ Stray => LogInv'
<1> SUFFICES ASSUME LogInv, Stray PROVE LogInv'
  OBVIOUS
<1>1. /\ reading /\ reading' = FALSE /\ strayed' = TRUE
      /\ \/ nbrds > 0 /\ estr > RbufSize
         \/ nbrds = 0 /\ bstr < estr /\ ~StringEnds(rbuf, bstr)
      /\ UNCHANGED <<nbrds, bstr, estr, rbuf, buf, logged, packet, behind, kept>>
  BY DEF Stray, pointers, history
<1>2. LogTypes /\ Memory
  BY <1>1 DEF LogInv
<1>3. PICK c \in Seq(Nat) : SoFar(c) /\ (Inside(c) \/ Outside(c))
  BY <1>1 DEF LogInv
<1>4. PICK n \in Nat, t \in Nat, l \in Nat, d \in Nat :
        n = Len(packet) /\ t = nbrds /\ l = Len(logged) /\ d = Len(c)
  BY <1>2, LenProperties DEF LogTypes
<1>5. /\ bstr \in Nat \ {0} /\ estr \in Nat /\ RbufSize \in Nat
      /\ n < RbufSize /\ t <= n /\ l + t <= n /\ estr = 1 + (n - t) + l
      /\ Len(rbuf) = RbufSize /\ rbuf[n + 1] = Nul /\ DOMAIN c = 1 .. d
  BY <1>2, <1>4, LenProperties DEF LogTypes, Memory
<1>6. \/ t > 0 /\ estr > RbufSize
      \/ t = 0 /\ bstr < estr /\ ~StringEnds(rbuf, bstr)
  BY <1>1, <1>4
<1>7. n < estr /\ l <= n
  BY ONLY <1>4, <1>5, <1>6
<1>8. c \in Cuts
  BY <1>2, <1>3, <1>4, <1>7, AllCut
<1>9. 1 < d /\ (NewlineBehind \/ RbufSize < n + d)
  <2>1. CASE Outside(c)
    BY <1>4, <2>1 DEF Outside
  <2>2. CASE Inside(c)
    <3>1. d = l /\ bstr <= n + 1
      BY <1>4, <2>2 DEF Inside
    <3>2. ~(t = 0 /\ ~StringEnds(rbuf, bstr))
      <4>1. n + 1 \in bstr .. Len(rbuf)
        BY ONLY <1>4, <1>5, <3>1
      <4> QED
        BY <1>5, <4>1 DEF StringEnds
    <3>3. t > 0 /\ estr > RbufSize
      BY <1>6, <3>2
    <3> QED
      BY ONLY <1>4, <1>5, <3>1, <3>3
  <2> QED
    BY <1>3, <2>1, <2>2
<1>10. LinesLogged'
  <2>1. Cuts' = Cuts /\ NewlineBehind' = NewlineBehind
        /\ \A k \in 1 .. Len(c) : LineOf(c, k)' = LineOf(c, k)
    BY <1>1 DEF Cuts, CutAt, Newlines, LineOf, Begin, NewlineBehind
  <2>2. Len(c) <= Len(logged) /\ \A k \in 1 .. Len(c) : logged[k] = LineOf(c, k)
    BY <1>3, <1>4, <1>5 DEF SoFar
  <2> QED
    BY <1>1, <1>4, <1>8, <1>9, <2>1, <2>2 DEF LinesLogged
<1>11. LogTypes'
  BY <1>1, <1>2 DEF LogTypes
<1> QED
  BY <1>1, <1>10, <1>11 DEF LogInv

LEMMA LogInvStep == LogInv /\ [LogNext]_logVars => LogInv'
<1> SUFFICES ASSUME LogInv, [LogNext]_logVars PROVE LogInv'
  OBVIOUS
<1>1. CASE UNCHANGED logVars
  <2>1. UNCHANGED <<reading, nbrds, bstr, estr, rbuf, strayed, buf, logged, packet, behind, kept>>
    BY <1>1 DEF logVars, pointers, history
  <2>2. LogTypes'
    BY <2>1 DEF LogInv, LogTypes
  <2>3. Memory => Memory'
    BY <2>1 DEF Memory
  <2>4. /\ Newlines' = Newlines /\ Cuts' = Cuts /\ NewlineBehind' = NewlineBehind
        /\ \A c : Left(c)' = Left(c)
        /\ \A c, k : LineOf(c, k)' = LineOf(c, k)
    BY <2>1 DEF Newlines, Cuts, CutAt, NewlineBehind, Left, LineOf, Begin
  <2>5. \A c : /\ SoFar(c) => SoFar(c)'
               /\ Inside(c) => Inside(c)'
               /\ Outside(c) => Outside(c)'
    BY <2>1, <2>4 DEF SoFar, CutAt, Inside, Begin, Outside, NoLetter
  <2>6. LinesLogged => LinesLogged'
    BY <2>1, <2>4 DEF LinesLogged, NoLetter
  <2> QED
    BY <2>1, <2>2, <2>3, <2>5, <2>6 DEF LogInv
<1> QED
  BY <1>1, ReadPipeStep, EndLineStep, NextByteStep, KeepStep, StrayStep DEF LogNext

(* The lines of a packet are logged whole and in their places.  What is     *)
(* left behind them comes next, and no letter of it is lost or moved,       *)
(* unless the call leaves rbuf: it does so only when it ended two lines or  *)
(* more and either a newline lies behind the packet or there is no room in  *)
(* rbuf for the packet and a byte for each of them (ind_comm.c:314-340).    *)
THEOREM LinesAlways == LogSpec => []LinesLogged
<1>1. LogInv => LinesLogged
  BY DEF LogInv, LinesLogged
<1> QED
  BY <1>1, LogInvInit, LogInvStep, PTL DEF LogSpec
=============================================================================
