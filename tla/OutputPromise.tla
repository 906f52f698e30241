----------------------------- MODULE OutputPromise -----------------------------
(***************************************************************************)
(* What the launcher of ind_comm.c promises about ONE output stream of ONE  *)
(* command, as if nothing else ran: no other command, no other stream, no   *)
(* entry that is used again, no order in which pipes are read.              *)
(*                                                                          *)
(* A packet is a record with a field n, its rank in what the command says.  *)
(* Each packet is a line or a part of one.  A line is logged with the part  *)
(* that was read before it; a part takes the place of that part.  When the  *)
(* command is no longer followed, the part is logged and what was not read  *)
(* is dropped; nothing more is logged of it.                                *)
(***************************************************************************)
EXTENDS Naturals, Sequences

VARIABLES followed,  \* the command is: "not yet", "yes", "no more"
          unsaid,    \* the packets it has not written yet
          ends,      \* its packets that are lines
          unread,    \* the packets in the pipe
          part,      \* the part of a line that was read
          lines      \* what is logged: sequences of packets

vars == <<followed, unsaid, ends, unread, part, lines>>

Init ==
  /\ followed = "not yet"
  /\ unsaid = {} /\ ends = {}
  /\ unread = <<>> /\ part = <<>> /\ lines = <<>>

(* It is launched, and may have anything to say.                            *)
Follow ==
  /\ followed = "not yet"
  /\ followed' = "yes"
  /\ ends' \subseteq unsaid'
  /\ UNCHANGED <<unread, part, lines>>

(* It is launched and could not be followed: nothing of it is logged.       *)
Miss ==
  /\ followed = "not yet"
  /\ followed' = "no more"
  /\ UNCHANGED <<unsaid, ends, unread, part, lines>>

(* Packets are written in their order, each once.                           *)
Write(x) ==
  /\ followed = "yes"
  /\ x \in unsaid
  /\ \A y \in unsaid : x.n <= y.n
  /\ unsaid' = unsaid \ {x}
  /\ unread' = Append(unread, x)
  /\ UNCHANGED <<followed, ends, part, lines>>

Read ==
  /\ followed = "yes"
  /\ unread # <<>>
  /\ unread' = Tail(unread)
  /\ \/ /\ Head(unread) \in ends
        /\ lines' = Append(lines, Append(part, Head(unread)))
        /\ part' = <<>>
     \/ /\ Head(unread) \notin ends
        /\ part' = <<Head(unread)>>
        /\ UNCHANGED lines
  /\ UNCHANGED <<followed, unsaid, ends>>

End ==
  /\ followed = "yes"
  /\ followed' = "no more"
  /\ lines' = IF part = <<>> THEN lines ELSE Append(lines, part)
  /\ part' = <<>>
  /\ unread' = <<>>
  /\ UNCHANGED <<unsaid, ends>>

Next ==
  \/ Follow \/ Miss \/ Read \/ End
  \/ \E x \in unsaid : Write(x)

Spec == Init /\ [][Next]_vars
=============================================================================
