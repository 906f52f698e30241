-------------------------------- MODULE MCDaemon -------------------------------
(***************************************************************************)
(* Model checking of Daemon: configurations that write to either of two     *)
(* files, that are kept open or not, to syslog, or say nothing of the log;  *)
(* one that cannot be read.                                                 *)
(***************************************************************************)
EXTENDS Daemon, TLC

CONSTANTS f1, f2

C(driver, filename, stayopen, level, unwatchable) ==
  [driver |-> driver, filename |-> filename, stayopen |-> stayopen, level |-> level,
   unwatchable |-> unwatchable, valid |-> TRUE]

Invalid == [C("none", f1, FALSE, Notice, FALSE) EXCEPT !.valid = FALSE]

(* The log opens no descriptor that it keeps between the end of the log     *)
(* section and in_signal_init.                                              *)
Quiet ==
  ("none" :> {C("none", f1, FALSE, Notice, FALSE),
              C("file", f2, FALSE, Debug, TRUE),
              C("syslog", f1, FALSE, Notice, FALSE),
              Invalid})
  @@ ("file" :> {C("file", f2, TRUE, Notice, FALSE), C("default", f1, FALSE, Notice, FALSE)})

(* So the theorems of DaemonProofs are about this instance.                 *)
ASSUME QuietIsDiscreet == Configs = Quiet => Discreet

(* The file stays open, and the level is changed.                           *)
Chatty == ("none" :> {C("file", f1, TRUE, level, FALSE) : level \in {Notice, Debug}})
=============================================================================
