------------------------------ MODULE MCOutputLines ----------------------------
(***************************************************************************)
(* Model checking of OutputLines: packets of up to five bytes, in an rbuf   *)
(* of six.                                                                  *)
(***************************************************************************)
EXTENDS OutputLines
=============================================================================
