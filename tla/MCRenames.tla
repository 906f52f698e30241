------------------------------ MODULE MCRenames ------------------------------
(***************************************************************************)
(* Model checking of Renames: two directories, three renames, two static    *)
(* cells and one or none more from malloc.                                  *)
(***************************************************************************)
EXTENDS Renames, TLC

Interchangeable == Permutations(Dirs) \cup Permutations(Cookies)
=============================================================================
