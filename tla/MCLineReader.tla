----------------------------- MODULE MCLineReader -----------------------------
(***************************************************************************)
(* Model checking of LineReader: every file of up to MaxLength bytes.       *)
(***************************************************************************)
EXTENDS LineReader

CONSTANT MaxLength

MCContents == UNION {[1 .. n -> Bytes] : n \in 0 .. MaxLength}
=============================================================================
