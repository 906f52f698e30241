-------------------------------- MODULE PidFile --------------------------------
(***************************************************************************)
(* The pid file: in_pidfile of ind_pidf.c as ind_main.c and ind_engi.c call *)
(* it when a daemon starts and when it reads its configuration again, with  *)
(* several daemons at once, crashes, and pids that are given again.         *)
(*                                                                          *)
(* Each system call is a step (fprintf writes when fclose does).  A file    *)
(* name leads to an inode; a daemon that has opened an inode reads or       *)
(* writes that one, even if the name leads elsewhere since.  in_pidfile is  *)
(* called twice: with the file of main (pid_file, its default or the -p     *)
(* option), then with the file of in_get_pidfile.                           *)
(***************************************************************************)
EXTENDS Naturals, FiniteSets

CONSTANTS Pids,        \* pids
          Default,     \* pid_file of ind_main.c
          Configured,  \* the PIDFILE of the configuration, Default if none
          MaxInodes,   \* bound: pid files ever made
          MaxStarts,   \* bound: daemons started and configurations read again
          MaxAtOnce,   \* bound: daemons at once
          OpenMayFail  \* bound: whether fopen may fail on a file that is there

Nobody == 0  \* what an absent or an empty file reads as
NoPid == 1   \* -1, and any number that no process has
Junk == 2    \* what holds no number
Files == {Default, Configured}
Inodes == 1 .. MaxInodes

ASSUME PidFileAssumption ==
  /\ {Nobody, NoPid, Junk} \cap Pids = {}
  /\ MaxInodes \in Nat \ {0}
  /\ MaxStarts \in Nat
  /\ MaxAtOnce \in Nat
  /\ OpenMayFail \in BOOLEAN

VARIABLES name,     \* kernel: the inode of each file, 0 if it does not exist
          content,  \* kernel: the pid written in each inode, Nobody if empty
          inodes,   \* kernel: inodes made so far
          stranger, \* kernel: pids of processes that are no daemons
          step,     \* what each daemon does next
          turn,     \* which call of in_pidfile it is in
          seen,     \* pfpid
          fd,       \* the inode it has open
          pidfile,  \* its static pidfile
          served,   \* daemons that have entered their loop
          fresh,    \* history: the daemon that started alone, with no file
          starts    \* starts and reloads so far

vars == <<name, content, inodes, stranger, step, turn, seen, fd, pidfile, served, fresh, starts>>

Gone == {"off", "refused"}
Alive == stranger \cup {p \in Pids : step[p] \notin Gone}

(* There is no pid file, or one that holds something else.                  *)
Init ==
  /\ name \in [Files -> {0, 1}]
  /\ \A f, g \in Files : f # g => {name[f], name[g]} # {1}
  /\ inodes = IF \E f \in Files : name[f] = 1 THEN 1 ELSE 0
  /\ content = [i \in Inodes |-> IF i <= inodes THEN Junk ELSE Nobody]
  /\ stranger = {}
  /\ step = [p \in Pids |-> "off"]
  /\ turn = [p \in Pids |-> 1]
  /\ seen = [p \in Pids |-> Nobody]
  /\ fd = [p \in Pids |-> 0]
  /\ pidfile = [p \in Pids |-> Default]
  /\ served = {}
  /\ fresh = Nobody
  /\ starts = 0

Named(f) == IF name[f] = 0 THEN Nobody ELSE content[name[f]]

Goto(p, s) == step' = [step EXCEPT ![p] = s]
kernel == <<name, content, inodes, stranger>>

-----------------------------------------------------------------------------
(* main, up to its call of in_pidfile: the configuration sets pidfile.      *)
Begin(p) ==
  /\ starts < MaxStarts
  /\ starts' = starts + 1
  /\ Goto(p, "read")
  /\ turn' = [turn EXCEPT ![p] = 1]
  /\ pidfile' = [pidfile EXCEPT ![p] = Configured]
  /\ UNCHANGED <<kernel, seen, fd, served>>

Start(p) ==
  /\ p \notin Alive
  /\ Cardinality({q \in Pids : step[q] \notin Gone}) < MaxAtOnce
  /\ Begin(p)
  /\ fresh' = IF name[Default] = 0 /\ (\A q \in Pids : step[q] \in Gone) THEN p
              ELSE IF fresh \in served THEN fresh ELSE Nobody

Reload(p) ==
  /\ step[p] = "up"
  /\ Begin(p)
  /\ UNCHANGED fresh

File(p) == IF turn[p] = 1 THEN Default ELSE pidfile[p]

(* fopen for reading.  A file that is absent is as good as an empty one.    *)
OpenToRead(p) ==
  /\ step[p] = "read"
  /\ \/ /\ name[File(p)] = 0
        /\ seen' = [seen EXCEPT ![p] = Nobody]
        /\ Goto(p, "check")
        /\ UNCHANGED fd
     \/ /\ name[File(p)] # 0
        /\ fd' = [fd EXCEPT ![p] = name[File(p)]]
        /\ Goto(p, "scan")
        /\ UNCHANGED seen
  /\ UNCHANGED <<kernel, turn, pidfile, served, fresh, starts>>

(* Mistake: what is no number is taken for one.                             *)
ScanRaw(p) ==
  /\ step[p] = "scan"
  /\ seen' = [seen EXCEPT ![p] = content[fd[p]]]
  /\ fd' = [fd EXCEPT ![p] = 0]
  /\ Goto(p, "check")
  /\ UNCHANGED <<kernel, turn, pidfile, served, fresh, starts>>

(* fscanf and fclose, of the file that was opened, whatever its name leads  *)
(* to by now.  An empty file reads as 0; when there is no number in it      *)
(* pfpid is not set.                                                        *)
Scan(p) ==
  /\ step[p] = "scan"
  /\ LET found == content[fd[p]] IN
     \E pfpid \in IF found = Junk THEN Pids \cup {Nobody, NoPid} ELSE {found} :
       seen' = [seen EXCEPT ![p] = pfpid]
  /\ fd' = [fd EXCEPT ![p] = 0]
  /\ Goto(p, "check")
  /\ UNCHANGED <<kernel, turn, pidfile, served, fresh, starts>>

(* fopen fails, and not because the file is absent: pfpid is -1.            *)
CannotRead(p) ==
  /\ OpenMayFail
  /\ step[p] = "read"
  /\ seen' = [seen EXCEPT ![p] = NoPid]
  /\ Goto(p, "check")
  /\ fresh' = IF fresh = p THEN Nobody ELSE fresh
  /\ UNCHANGED <<kernel, turn, fd, pidfile, served, starts>>

(* in_pidfile returns 0: main goes on to in_engine, in_engine to its loop.  *)
Passed(p) ==
  IF turn[p] = 1
  THEN /\ Goto(p, "read")
       /\ turn' = [turn EXCEPT ![p] = 2]
       /\ UNCHANGED served
  ELSE /\ Goto(p, "up")
       /\ served' = served \cup {p}
       /\ UNCHANGED turn

(* Mistake: whether the process of the pid runs is not asked.               *)
CheckUnasked(p) ==
  /\ step[p] = "check"
  /\ \/ seen[p] = Nobody /\ Goto(p, "unlink") /\ UNCHANGED <<turn, served>>
     \/ seen[p] # Nobody /\ Passed(p)
  /\ seen' = [seen EXCEPT ![p] = Nobody]
  /\ UNCHANGED <<kernel, fd, pidfile, fresh, starts>>

(* The pid of another process that runs: the daemon gives up.  No pid: the  *)
(* file is made.  Its own pid, or one that no process has: the file is left *)
(* as it is.  What was read is not used any more.                           *)
Check(p) ==
  /\ step[p] = "check"
  /\ \/ /\ seen[p] \in Alive \ {p}
        /\ Goto(p, "refused")
        /\ served' = served \ {p}
        /\ UNCHANGED turn
     \/ seen[p] = Nobody /\ Goto(p, "unlink") /\ UNCHANGED <<turn, served>>
     \/ seen[p] \notin (Alive \ {p}) \cup {Nobody} /\ Passed(p)
  /\ seen' = [seen EXCEPT ![p] = Nobody]
  /\ UNCHANGED <<kernel, fd, pidfile, fresh, starts>>

Unlink(p) ==
  /\ step[p] = "unlink"
  /\ name' = [name EXCEPT ![File(p)] = 0]
  /\ Goto(p, "open")
  /\ UNCHANGED <<content, inodes, stranger, turn, seen, fd, pidfile, served, fresh, starts>>

(* fopen for writing: the file is truncated if there is one again.          *)
Open(p) ==
  /\ step[p] = "open"
  /\ LET f == File(p) IN
     IF name[f] # 0
     THEN /\ fd' = [fd EXCEPT ![p] = name[f]]
          /\ content' = [content EXCEPT ![name[f]] = Nobody]
          /\ UNCHANGED <<name, inodes>>
     ELSE /\ inodes < MaxInodes
          /\ inodes' = inodes + 1
          /\ fd' = [fd EXCEPT ![p] = inodes + 1]
          /\ name' = [name EXCEPT ![f] = inodes + 1]
          /\ UNCHANGED content
  /\ Goto(p, "write")
  /\ UNCHANGED <<stranger, turn, seen, pidfile, served, fresh, starts>>

(* Mistake: the pid that was read is written.                               *)
WriteSeen(p) ==
  /\ step[p] = "write"
  /\ content' = [content EXCEPT ![fd[p]] = seen[p]]
  /\ pidfile' = [pidfile EXCEPT ![p] = File(p)]
  /\ Passed(p)
  /\ fd' = [fd EXCEPT ![p] = 0]
  /\ UNCHANGED <<name, inodes, stranger, seen, fresh, starts>>

(* fprintf, fclose, and the name of the file is kept in pidfile.            *)
Write(p) ==
  /\ step[p] = "write"
  /\ content' = [content EXCEPT ![fd[p]] = p]
  /\ pidfile' = [pidfile EXCEPT ![p] = File(p)]
  /\ Passed(p)
  /\ fd' = [fd EXCEPT ![p] = 0]
  /\ UNCHANGED <<name, inodes, stranger, seen, fresh, starts>>

(* The daemon ends: it is stopped, it is killed, or a system call fails and *)
(* it exits.  Nothing removes the file.                                     *)
Ends(p) ==
  /\ step[p] \notin Gone
  /\ Goto(p, "off")
  /\ served' = served \ {p}
  /\ turn' = [turn EXCEPT ![p] = 1]
  /\ seen' = [seen EXCEPT ![p] = Nobody]
  /\ fd' = [fd EXCEPT ![p] = 0]
  /\ pidfile' = [pidfile EXCEPT ![p] = Default]
  /\ UNCHANGED <<kernel, fresh, starts>>

(* The kernel gives a pid to a process that is no daemon, which ends.       *)
Stranger(p) ==
  /\ step[p] \in Gone
  /\ stranger' = IF p \in stranger THEN stranger \ {p} ELSE stranger \cup {p}
  /\ UNCHANGED <<name, content, inodes, step, turn, seen, fd, pidfile, served, fresh, starts>>

Daemon(p) ==
  \/ Start(p) \/ Reload(p) \/ OpenToRead(p) \/ Scan(p) \/ CannotRead(p)
  \/ Check(p) \/ Unlink(p) \/ Open(p) \/ Write(p) \/ Ends(p)

Next == \E p \in Pids : Daemon(p) \/ Stranger(p)

Spec == Init /\ [][Next]_vars

-----------------------------------------------------------------------------
TypeOK ==
  /\ name \in [Files -> 0 .. inodes]
  /\ content \in [Inodes -> Pids \cup {Nobody, Junk}]
  /\ inodes \in 0 .. MaxInodes
  /\ stranger \subseteq {p \in Pids : step[p] \in Gone}
  /\ step \in [Pids -> Gone \cup {"read", "scan", "check", "unlink", "open", "write", "up"}]
  /\ turn \in [Pids -> {1, 2}]
  /\ seen \in [Pids -> Pids \cup {Nobody, NoPid}]
  /\ fd \in [Pids -> 0 .. inodes]
  /\ \A p \in Pids : step[p] \in {"scan", "write"} <=> fd[p] # 0
  /\ pidfile \in [Pids -> Files]
  /\ served \subseteq {p \in Pids : step[p] \notin Gone}
  /\ fresh \in Pids \cup {Nobody}
  /\ starts \in 0 .. MaxStarts

(* A daemon is guarded when it runs, the file of main names it, no other    *)
(* one runs, and none that starts has opened an older file or has read      *)
(* anything but its pid.  From then on, for as long as it lives, no other   *)
(* daemon gets to its loop, and the file keeps naming it: reading the       *)
(* configuration again, later starts, dead ones and the reuse of their pids *)
(* change nothing.  The ways out are its own refusal, in a reload, by the   *)
(* configured file when that is another one, and another daemon that cannot *)
(* open the file, which it then takes for no obstacle (ind_pidf.c:136-188,  *)
(* ind_main.c:489-507, ind_engi.c:57-75).  Two that start at once, or one   *)
(* that still holds a file the daemon has replaced, are what the condition  *)
(* leaves out: both may run then.                                           *)
Foreseen(p, q) ==
  \/ step[p] \in Gone
  \/ turn[p] = 1 /\ step[p] = "read"
  \/ turn[p] = 1 /\ step[p] = "scan" /\ fd[p] = name[Default]
  \/ turn[p] = 1 /\ step[p] = "check" /\ seen[p] = q

Guarded(q) ==
  /\ q \in served
  /\ Named(Default) = q
  /\ \A p \in Pids \ {q} : p \notin served /\ Foreseen(p, q)

StaysGuarded ==
  [][\A q \in Pids : Guarded(q) =>
       \/ Guarded(q)'
       \/ step'[q] = "off"
       \/ step'[q] = "refused" /\ Configured # Default
       \/ \E p \in Pids \ {q} : CannotRead(p)]_vars

(* A daemon that starts while no other one runs and no pid file exists, and *)
(* that is alone and can open files until it gets to its loop, is named in  *)
(* the file of main when it does, and is guarded (ind_pidf.c:184-231).      *)
FreshStartGuarded ==
  [][\A q \in Pids :
       fresh = q /\ q \notin served /\ q \in served' => Guarded(q)']_vars

(* The file where the pid of the running daemon is stored                   *)
(* (inotify-daemon.conf.5 (en):186) does not hold, while a daemon runs, the *)
(* pid of anything else.                                                    *)
RunningDaemonNamed ==
  (\E q \in Pids : step[q] = "up") =>
    \A f \in Files : Named(f) \in Pids => step[Named(f)] = "up"
=============================================================================
