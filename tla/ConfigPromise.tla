----------------------------- MODULE ConfigPromise -----------------------------
(***************************************************************************)
(* What a reading of the configuration promises of the directories: each    *)
(* event of a directory leads to one command at most, which is never        *)
(* replaced until everything is forgotten at the next reading.              *)
(***************************************************************************)
CONSTANTS Inodes, Events, Commands, NoCommand

VARIABLE command  \* the command of each directory and event

vars == command

Nothing == [i \in Inodes |-> [e \in Events |-> NoCommand]]

Init == command = Nothing

(* in_directory_purge.                                                      *)
Forget == command' = Nothing

(* An EVENT directive, for events that led to nothing yet.                  *)
Declare(i, S, c) ==
  /\ \A e \in S : command[i][e] = NoCommand
  /\ command' = [command EXCEPT ![i] = [e \in Events |-> IF e \in S THEN c ELSE @[e]]]

Next ==
  \/ Forget
  \/ \E i \in Inodes, S \in (SUBSET Events) \ {{}}, c \in Commands : Declare(i, S, c)

Spec == Init /\ [][Next]_vars
=============================================================================
