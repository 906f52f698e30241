---------------------------- MODULE MCRenameList ----------------------------
(***************************************************************************)
(* Model checking of RenameList, on the instance of MCRenames.              *)
(***************************************************************************)
EXTENDS RenameList, TLC

Interchangeable == Permutations(Dirs) \cup Permutations(Cookies)
=============================================================================
