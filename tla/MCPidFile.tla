------------------------------ MODULE MCPidFile ------------------------------
(***************************************************************************)
(* Model checking of PidFile: three pids, two files, so many starts and     *)
(* reloads that a daemon can meet the files of two dead ones.               *)
(***************************************************************************)
EXTENDS PidFile, TLC

Interchangeable == Permutations(Pids)
=============================================================================
