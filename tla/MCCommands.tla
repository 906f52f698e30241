------------------------------ MODULE MCCommands ------------------------------
(***************************************************************************)
(* Model checking of Commands: two launches of commands that write in many  *)
(* ways, with one static entry, one from malloc, and pipes that hold one    *)
(* packet.                                                                  *)
(***************************************************************************)
EXTENDS Commands

Part(s) == [to |-> s, line |-> FALSE]
Line(s) == [to |-> s, line |-> TRUE]

MCPlans ==
  {<<>>,
   <<Part("S"), Line("S")>>,
   <<Line("E"), Line("S"), Line("E")>>,
   <<Part("E"), Part("E"), Line("S")>>}
=============================================================================
