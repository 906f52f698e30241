------------------------------- MODULE MCEvents -------------------------------
(***************************************************************************)
(* Model checking of Events: two directories, one that follows renames and  *)
(* creations with an action each, one that follows renames.                 *)
(***************************************************************************)
EXTENDS Events, TLC

CONSTANTS d1, d2

MCDirs == {d1, d2}
MCActions ==
  d1 :> <<{"create"}, {"moved_from", "moved_to"}>> @@ d2 :> <<{"moved_from", "moved_to"}>>

Interchangeable == Permutations(Inodes)
=============================================================================
