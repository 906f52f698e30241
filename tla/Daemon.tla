-------------------------------- MODULE Daemon ---------------------------------
(***************************************************************************)
(* The life of the daemon: main from the fork on, in_engine and the signals *)
(* (ind_main.c, ind_engi.c, ind_sign.c), with the descriptors all of them   *)
(* and the log take and give back.                                          *)
(*                                                                          *)
(* What the reader does with the lines of the file is Configuration; here a *)
(* configuration is what it changes in the log, whether it can be read, and *)
(* whether it has a directory that cannot be watched.  What an event starts *)
(* is Commands; here a command is the descriptor of its pipes.              *)
(***************************************************************************)
EXTENDS Logging, FiniteSets

CONSTANTS Configs,     \* what the configuration file may hold, for each log driver
                       \* the command line may name, "none" if it names none
          MaxEdits,    \* bound: changes of the file
          MaxAsks,     \* bound: signals sent with -R or -S, or from a terminal
          MaxQueue,    \* bound: events not read yet
          MaxCommands  \* bound: commands that run

Configurations ==
  [driver : Drivers \cup {"none"}, filename : FileNames, stayopen : BOOLEAN,
   level : Error .. Debug, unwatchable : BOOLEAN, valid : BOOLEAN]

Given == DOMAIN Configs

ASSUME DaemonAssumption ==
  /\ Given \subseteq Drivers \cup {"none"}
  /\ \A d \in Given : Configs[d] \subseteq Configurations
  /\ {MaxEdits, MaxAsks, MaxQueue, MaxCommands} \subseteq Nat

VARIABLES phase,    \* where main and in_engine are
          proc,     \* descriptors and log (see Logging)
          given,    \* logdriver, when CL_OPT_LOGDRV is set
          pending,  \* signals the process has not taken
          blocked,  \* they wait for it
          named,    \* its pid is in the pid file
          ready,    \* what is left to do of a turn of the loop
          queue,    \* events to be read
          zombies,  \* commands that ended, not waited for yet
          disk,     \* the configuration file
          edits,    \* and its version
          inforce,  \* the configuration that was read last
          version,  \* and its version
          asked,    \* the version -R was last called for
          asks

daemon == <<phase, proc, ready>>
signals == <<pending, blocked, asked, asks>>
config == <<inforce, version>>
outside == <<queue, zombies, disk, edits>>
vars == <<daemon, signals, config, outside, named, given>>

(* SIGINT, which the terminal sends, is handled as SIGTERM is.              *)
Number == [USR1 |-> 10, TERM |-> 15, CHLD |-> 17]
Signals == DOMAIN Number

(* logging_init: nothing is open; the file driver closes its file after     *)
(* each message.                                                            *)
Fresh ==
  [fds |-> [n \in Descriptors |-> "free"], file |-> None, slog |-> None, target |-> DefaultFile,
   driver |-> "default", filename |-> DefaultFile, stayopen |-> FALSE, level |-> Notice,
   evt |-> None, sig |-> None]

Init ==
  /\ phase = "start"
  /\ proc = Fresh
  /\ given \in Given
  /\ pending = {}
  /\ blocked = FALSE
  /\ named = FALSE
  /\ ready = {}
  /\ queue = 0
  /\ zombies = {}
  /\ disk \in Configs[given]
  /\ edits = 0
  /\ inforce = disk
  /\ version = 0
  /\ asked = 0
  /\ asks = 0

Watching(p) == \E n \in Descriptors : p.fds[n] = "inotify"
Commands == {n \in Descriptors : proc.fds[n] = "pipe"}

(* exit, wherever it is called: the commands that run are left to init.     *)
Exit ==
  /\ phase' = "gone"
  /\ ready' = {}
  /\ UNCHANGED <<proc, signals, config, outside, named, given>>

-----------------------------------------------------------------------------
(* From the start, or from a SIGUSR1, to the loop.                          *)
Start ==
  /\ phase = "start"
  /\ proc' = SetDriver(proc, IF given = "none" THEN "default" ELSE given)
  /\ phase' = "initialise"
  /\ UNCHANGED <<ready, signals, config, outside, named, given>>

(* in_signal_terminate; in_signal_fd keeps the number.                      *)
SignalTerminate(p) == Close(p, p.sig)

EventsTerminate(p) == [Close(p, p.evt) EXCEPT !.evt = None]

(* Mistake: the event descriptor is forgotten, not closed.                  *)
InitialiseLeak ==
  /\ phase = "initialise"
  /\ proc' = [SignalTerminate(IF blocked THEN Said(proc, Notice) ELSE proc) EXCEPT !.evt = None]
  /\ queue' = 0
  /\ phase' = "read"
  /\ UNCHANGED <<ready, signals, config, zombies, disk, edits, named, given>>

(* setjmp returned, the first time or again.                                *)
Initialise ==
  /\ phase = "initialise"
  /\ proc' = EventsTerminate(SignalTerminate(IF blocked THEN Said(proc, Notice) ELSE proc))
  /\ queue' = 0
  /\ phase' = "read"
  /\ UNCHANGED <<ready, signals, config, zombies, disk, edits, named, given>>

(* What the lines of the section of a driver do, in their order: its        *)
(* options, the level, the driver.                                          *)
Applied(p, c) ==
  LET q == IF c.driver = "file" THEN [p EXCEPT !.filename = c.filename, !.stayopen = c.stayopen] ELSE p
      r == [q EXCEPT !.level = c.level]
  IN  IF c.driver = "none" THEN p
      ELSE IF given # "none" THEN r ELSE SetDriver(r, c.driver)

(* in_configuration_read, and the end of the daemon when it fails.          *)
ReadConfiguration ==
  /\ phase = "read"
  /\ IF Available(proc) = {} \/ ~disk.valid THEN Exit
     ELSE LET conf == Lowest(proc) IN
          /\ proc' = Close(Applied([proc EXCEPT !.fds[conf] = "conf"], disk), conf)
          /\ inforce' = disk
          /\ version' = edits
          /\ phase' = "name"
          /\ UNCHANGED <<ready, signals, outside, named, given>>

(* Both calls of in_pidfile.  They fail when the file cannot be written or  *)
(* names another daemon that runs (see PidFile).                            *)
NamePid ==
  /\ phase = "name"
  /\ \/ /\ proc' = Said(proc, Debug)
        /\ named' = TRUE
        /\ phase' = "events"
        /\ UNCHANGED <<ready, signals, config, outside, given>>
     \/ Exit

(* in_events_init                                                           *)
EventsInit ==
  /\ phase = "events"
  /\ LET p == Close(proc, proc.evt)
         n == Lowest(p)
         q == [p EXCEPT !.fds[n] = "inotify", !.evt = n]
     IN IF Available(p) = {} THEN Exit
        ELSE /\ proc' = IF inforce.unwatchable THEN Said(q, Error) ELSE q
             /\ phase' = "signals"
             /\ UNCHANGED <<ready, signals, config, outside, named, given>>

(* Mistake: the signals are not blocked.                                    *)
SignalInitUnblocked ==
  /\ phase = "signals"
  /\ LET p == Close(proc, proc.sig)
         n == Lowest(p)
     IN IF Available(p) = {} THEN Exit
        ELSE /\ proc' = [p EXCEPT !.fds[n] = "signals", !.sig = n]
             /\ queue' = IF Watching(p) THEN queue ELSE 0
             /\ ready' = {}
             /\ phase' = "serve"
             /\ UNCHANGED <<signals, config, zombies, disk, edits, named, given>>

(* Mistake: signals that came in the meantime are dropped.                  *)
SignalInitFlush ==
  /\ phase = "signals"
  /\ LET p == Close(proc, proc.sig)
         n == Lowest(p)
     IN IF Available(p) = {} THEN Exit
        ELSE /\ proc' = [p EXCEPT !.fds[n] = "signals", !.sig = n]
             /\ blocked' = TRUE
             /\ pending' = {}
             /\ queue' = IF Watching(p) THEN queue ELSE 0
             /\ ready' = {}
             /\ phase' = "serve"
             /\ UNCHANGED <<asked, asks, config, zombies, disk, edits, named, given>>

(* in_signal_init: first it closes the number in_signal_fd has kept.        *)
SignalInit ==
  /\ phase = "signals"
  /\ LET p == Close(proc, proc.sig)
         n == Lowest(p)
     IN IF Available(p) = {} THEN Exit
        ELSE /\ proc' = [p EXCEPT !.fds[n] = "signals", !.sig = n]
             /\ blocked' = TRUE
             /\ queue' = IF Watching(p) THEN queue ELSE 0
             /\ ready' = {}
             /\ phase' = "serve"
             /\ UNCHANGED <<pending, asked, asks, config, zombies, disk, edits, named, given>>

-----------------------------------------------------------------------------
(* The loop.                                                                *)
Is(n, kind) == n # None /\ proc.fds[n] = kind

Readable(n) ==
  \/ Is(n, "inotify") /\ queue > 0
  \/ Is(n, "signals") /\ pending # {}

Poll ==
  /\ phase = "serve"
  /\ ready = {}
  /\ Readable(proc.evt) \/ Readable(proc.sig)
  /\ ready' = (IF Readable(proc.evt) THEN {"events"} ELSE {})
              \cup (IF Readable(proc.sig) THEN {"signals"} ELSE {})
  /\ proc' = Said(proc, Debug)
  /\ UNCHANGED <<phase, signals, config, outside, named, given>>

(* in_events_process, a round of its loop: all there is, and the commands.  *)
ReadEvents ==
  /\ "events" \in ready
  /\ Is(proc.evt, "inotify")
  /\ queue > 0
  /\ queue' = 0
  /\ \/ proc' = Said(proc, Debug)
     \/ /\ Cardinality(Commands) < MaxCommands
        /\ Available(proc) # {}
        /\ proc' = Said([proc EXCEPT !.fds[Lowest(proc)] = "pipe"], Notice)
  /\ UNCHANGED <<phase, ready, signals, config, zombies, disk, edits, named, given>>

(* Nothing is left to be read.  What is not an inotify descriptor is read   *)
(* all the same: signals are taken for events.                              *)
EventsDone ==
  /\ "events" \in ready
  /\ Is(proc.evt, "inotify") => queue = 0
  /\ pending' = IF Is(proc.evt, "signals") THEN {} ELSE pending
  /\ proc' = IF Is(proc.evt, "inotify") THEN proc ELSE Said(proc, Error)
  /\ ready' = ready \ {"events"}
  /\ UNCHANGED <<phase, blocked, asked, asks, config, outside, named, given>>

(* in_signal_process, a round of its loop; the kernel hands out the lowest  *)
(* number first.                                                            *)
Taking(s) ==
  /\ "signals" \in ready
  /\ ready \cap {"events", "children"} = {}
  /\ Is(proc.sig, "signals")
  /\ s \in pending
  /\ \A t \in pending : Number[s] <= Number[t]

Take(s) == pending' = pending \ {s} /\ UNCHANGED <<blocked, asked, asks>>

Terminate ==
  /\ Taking("TERM")
  /\ Exit

(* Mistake: a reload throws away the signals that wait.                     *)
ReloadFlush ==
  /\ Taking("USR1")
  /\ pending' = {}
  /\ proc' = Said(proc, Notice)
  /\ ready' = {}
  /\ phase' = "initialise"
  /\ UNCHANGED <<blocked, asked, asks, config, outside, named, given>>

(* in_reread_configuration: longjmp leaves the loops and the turn.          *)
Reload ==
  /\ Taking("USR1")
  /\ Take("USR1")
  /\ proc' = Said(proc, Notice)
  /\ ready' = {}
  /\ phase' = "initialise"
  /\ UNCHANGED <<config, outside, named, given>>

ChildSignal ==
  /\ Taking("CHLD")
  /\ Take("CHLD")
  /\ ready' = ready \cup {"children"}
  /\ UNCHANGED <<phase, proc, config, outside, named, given>>

(* waitpid, in_cmd_exited and the notice.                                   *)
Wait(n) ==
  /\ "children" \in ready
  /\ n \in zombies
  /\ zombies' = zombies \ {n}
  /\ proc' = Said(Close(proc, n), Notice)
  /\ UNCHANGED <<phase, ready, signals, config, queue, disk, edits, named, given>>

(* Mistake: one command is waited for, not all that ended.                  *)
WaitedOnce ==
  /\ "children" \in ready
  /\ ready' = ready \ {"children"}
  /\ UNCHANGED <<phase, proc, signals, config, outside, named, given>>

WaitedAll ==
  /\ "children" \in ready
  /\ zombies = {}
  /\ ready' = ready \ {"children"}
  /\ UNCHANGED <<phase, proc, signals, config, outside, named, given>>

SignalsDone ==
  /\ "signals" \in ready
  /\ ready \cap {"events", "children"} = {}
  /\ Is(proc.sig, "signals") => pending = {}
  /\ ready' = ready \ {"signals"}
  /\ UNCHANGED <<phase, proc, signals, config, outside, named, given>>

-----------------------------------------------------------------------------
(* What the daemon does not decide.                                         *)
EventArrives ==
  /\ phase # "gone"
  /\ Watching(proc)
  /\ queue < MaxQueue
  /\ queue' = queue + 1
  /\ UNCHANGED <<daemon, signals, config, zombies, disk, edits, named, given>>

CommandEnds(n) ==
  /\ phase # "gone"
  /\ n \in Commands \ zombies
  /\ zombies' = zombies \cup {n}
  /\ pending' = pending \cup {"CHLD"}
  /\ UNCHANGED <<daemon, blocked, asked, asks, config, queue, disk, edits, named, given>>

Edit ==
  /\ phase # "gone"
  /\ edits < MaxEdits
  /\ disk' \in Configs[given]
  /\ edits' = edits + 1
  /\ UNCHANGED <<daemon, signals, config, queue, zombies, named, given>>

(* inform_daemon_for_action, or a key on the terminal: a signal that is not *)
(* blocked yet ends the process.                                            *)
Ask(s) ==
  /\ named
  /\ phase # "gone"
  /\ asks < MaxAsks
  /\ asks' = asks + 1
  /\ asked' = IF s = "USR1" THEN edits ELSE asked
  /\ pending' = IF blocked THEN pending \cup {s} ELSE pending
  /\ phase' = IF blocked THEN phase ELSE "gone"
  /\ UNCHANGED <<proc, ready, blocked, config, outside, named, given>>

-----------------------------------------------------------------------------
Step ==
  \/ Start \/ Initialise \/ ReadConfiguration \/ NamePid \/ EventsInit \/ SignalInit
  \/ Poll \/ ReadEvents \/ EventsDone
  \/ Terminate \/ Reload \/ ChildSignal \/ (\E n \in Descriptors : Wait(n)) \/ WaitedAll \/ SignalsDone

Environment ==
  \/ EventArrives \/ Edit
  \/ \E n \in Descriptors : CommandEnds(n)
  \/ \E s \in {"USR1", "TERM"} : Ask(s)

Next == Step \/ Environment

(* The process runs.                                                        *)
Spec == Init /\ [][Next]_vars /\ WF_vars(Step)

-----------------------------------------------------------------------------
Phases == {"start", "initialise", "read", "name", "events", "signals", "serve", "gone"}

TypeOK ==
  /\ phase \in Phases
  /\ proc \in Processes
  /\ given \in Given
  /\ pending \in SUBSET Signals
  /\ {blocked, named} \subseteq BOOLEAN
  /\ ready \in SUBSET {"events", "signals", "children"}
  /\ ready # {} => phase = "serve"
  /\ phase = "serve" => blocked
  /\ queue \in 0 .. MaxQueue
  /\ zombies \subseteq Descriptors
  /\ {disk, inforce} \subseteq Configs[given]
  /\ edits \in 0 .. MaxEdits
  /\ version \in 0 .. edits
  /\ asked \in 0 .. edits
  /\ asks \in 0 .. MaxAsks

Of(kind) == {n \in Descriptors : proc.fds[n] = kind}

(* The log opens no descriptor that it keeps between the end of the log     *)
(* section and in_signal_init, where in_signal_init would close it when it  *)
(* has the number in_signal_fd still holds (ind_sign.c:62-80): no file is   *)
(* kept open unless the command line gives the driver, and a driver that    *)
(* keeps one has nothing to say there.                                      *)
Discreet ==
  \A g \in Given : \A c \in Configs[g] :
    /\ g = "none" /\ c.driver = "file" => ~c.stayopen
    /\ \/ g = "default"
       \/ g = "none" /\ c.driver \in {"default", "file"}
       \/ c.level < Debug /\ ~c.unwatchable

(* However often it was reloaded, the loop polls its inotify instance and   *)
(* its signals, there is no other one left, every descriptor the log holds  *)
(* is the log's, and those of the commands are theirs (ind_sign.c:62-80 and *)
(* 149-158, ind_inot.c:173-194 and 297-307).                                *)
DescriptorsRight ==
  phase = "serve" =>
    /\ Of("inotify") = {proc.evt}
    /\ Of("signals") = {proc.sig}
    /\ Of("conf") = {}
    /\ Of("file") = {proc.file} \ {None}
    /\ Of("syslog") = {proc.slog} \ {None}
    /\ zombies \subseteq Commands

(* The driver and the file of the configuration in force get the messages,  *)
(* when the command line does not give the driver and a descriptor is free  *)
(* (ind_logg.c:209-221, ind_logg_file.c:67-205).                            *)
LogWhereConfigured ==
  phase = "serve" /\ given = "none" /\ inforce.driver # "none" /\ Available(proc) # {} =>
    Reaches(proc) = IF inforce.driver = "file" THEN inforce.filename ELSE inforce.driver

(* A reload that was asked for is never forgotten: the file is read again   *)
(* after the request, or a signal is pending that makes it read             *)
(* (ind_main.c:236-278 and 467-480, ind_sign.c:86-109).                     *)
RequestKept ==
  asked <= version \/ "USR1" \in pending \/ phase \in {"initialise", "read", "gone"}

(* Nor is a command that ended (ind_sign.c:110-138).                        *)
ChildrenKnown ==
  zombies = {} \/ "CHLD" \in pending \/ "children" \in ready \/ phase = "gone"

(* in_events_process never finds the queue empty again.                     *)
Flooded == <>[]("events" \in ready)

(* SIGTERM, which -S sends, ends the daemon, unless events come for ever    *)
(* faster than they are read (ind_sign.c:97-105, ind_engi.c:80-122).        *)
StopsWhenAsked == Flooded \/ ("TERM" \in pending ~> phase = "gone")

(* What is in the file when -R is called is in force some time later, or    *)
(* something newer; or the daemon is gone.                                  *)
ReloadTakesEffect ==
  Flooded \/ \A v \in 1 .. MaxEdits : asked = v ~> (version >= v \/ phase = "gone")

(* No command stays a zombie (ind_sign.c:110-138).                          *)
CommandsReaped ==
  Flooded \/ \A n \in Descriptors : n \in zombies ~> (n \notin zombies \/ phase = "gone")
=============================================================================
