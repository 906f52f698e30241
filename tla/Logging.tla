-------------------------------- MODULE Logging --------------------------------
(***************************************************************************)
(* The log drivers of ind_logg.c, ind_logg_file.c and ind_logg_syslog.c, by *)
(* what they do to the descriptors of the process.                          *)
(*                                                                          *)
(* A process is a record: fds, what each descriptor is; file and slog, the  *)
(* descriptors the file driver and the C library's syslog hold, None if     *)
(* none; target, the file that file was opened on; driver, filename,        *)
(* stayopen and level, the settings in force; evt and sig, the descriptors  *)
(* of ind_inot.c and ind_sign.c.  File names that change with the time      *)
(* (the option timestamped, off unless it is asked for) are left out.       *)
(***************************************************************************)
EXTENDS Naturals

CONSTANTS High,      \* the last descriptor the process may have
          FileNames, \* of log files
          DefaultFile

Low == 3  \* the standard ones are open
None == 0
Descriptors == Low .. High

ASSUME LoggingAssumption == High \in Nat /\ High >= Low /\ DefaultFile \in FileNames

Drivers == {"default", "file", "syslog"}
Kinds == {"free", "inotify", "signals", "file", "syslog", "conf", "pipe"}

(* The levels of the messages and of the settings, by importance.           *)
Error == 1
Notice == 2
Debug == 3

Processes ==
  [fds : [Descriptors -> Kinds], file : Descriptors \cup {None}, slog : Descriptors \cup {None},
   target : FileNames, driver : Drivers, filename : FileNames, stayopen : BOOLEAN,
   level : Error .. Debug, evt : Descriptors \cup {None}, sig : Descriptors \cup {None}]

Available(p) == {n \in Descriptors : p.fds[n] = "free"}
Lowest(p) == CHOOSE n \in Available(p) : \A m \in Available(p) : n <= m

Close(p, n) == IF n = None THEN p ELSE [p EXCEPT !.fds[n] = "free"]

(* Mistake: the name of the file that was written last is kept.             *)
DoOpenLast(p) ==
  IF p.file # None \/ Available(p) = {} THEN p
  ELSE [p EXCEPT !.file = Lowest(p), !.fds[Lowest(p)] = "file"]

DoOpen(p) ==
  IF p.file # None \/ Available(p) = {} THEN p
  ELSE [p EXCEPT !.file = Lowest(p), !.fds[Lowest(p)] = "file", !.target = p.filename]

FileClose(p) == [Close(p, p.file) EXCEPT !.file = None]

DoClose(p) == IF p.stayopen THEN p ELSE FileClose(p)

(* file_open, and file_log: they differ by the line that is written.        *)
FileLog(p) == DoClose(DoOpen(p))

(* syslog(3), of the C library: its descriptor is opened with the first     *)
(* message, and again when it turns out to be none of its own.              *)
SlogLog(p) ==
  LET q == Close(p, p.slog) IN
  IF p.slog # None /\ p.fds[p.slog] = "syslog" THEN p
  ELSE IF Available(q) = {} THEN [q EXCEPT !.slog = None]
  ELSE [q EXCEPT !.slog = Lowest(q), !.fds[Lowest(q)] = "syslog"]

SlogClose(p) == [Close(p, p.slog) EXCEPT !.slog = None]

(* in_log_vlog                                                              *)
Said(p, level) ==
  IF level > p.level \/ p.driver = "default" THEN p
  ELSE IF p.driver = "file" THEN FileLog(p) ELSE SlogLog(p)

(* in_log_set_driver opens the driver, then closes the current one, also    *)
(* when they are the same; openlog(3) opens nothing yet.                    *)
SetDriver(p, driver) ==
  LET q == IF driver = "file" THEN FileLog(p) ELSE p
      r == IF q.driver = "file" THEN FileClose(q) ELSE IF q.driver = "syslog" THEN SlogClose(q) ELSE q
  IN  [r EXCEPT !.driver = driver]

(* Where a message goes that is written now.                                *)
Reaches(p) ==
  LET q == DoOpen(p) IN
  IF p.driver # "file" THEN p.driver
  ELSE IF q.file # None /\ q.fds[q.file] = "file" THEN q.target ELSE "nowhere"
=============================================================================
