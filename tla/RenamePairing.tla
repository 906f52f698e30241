---------------------------- MODULE RenamePairing ----------------------------
(***************************************************************************)
(* What rename correlation promises the rest of the daemon.                 *)
(*                                                                          *)
(* inotify announces a rename as two halves that carry the same cookie.     *)
(* The daemon remembers a half until its counterpart comes from the same    *)
(* directory, and then hands ONE report, with the old and the new name, to  *)
(* the command launcher.  A remembered half is used by at most one report.  *)
(* The promise says nothing of how the halves are stored, and it lets the   *)
(* daemon forget halves when it pairs others: Renames and RenameList show   *)
(* which ones ind_inot.c forgets.                                           *)
(***************************************************************************)
EXTENDS Sequences

CONSTANTS Dirs,      \* the watched directories
          Cookies    \* the cookies the kernel gives to renames

Sides == {"moved_from", "moved_to"}

(* A half stands for the file name it carries too: two halves never share   *)
(* a name, the choice that lets a wrong name be seen.                       *)
Halves == [dir : Dirs, side : Sides, cok : Cookies]

Partners(g, h) ==
  /\ g.dir = h.dir
  /\ g.cok = h.cok
  /\ g.side # h.side

Reports == [old : Halves, new : Halves]

(* The report of a pair: the old name is that of the "moved from" half.     *)
Report(g, h) ==
  IF h.side = "moved_to" THEN [old |-> g, new |-> h]
                         ELSE [old |-> h, new |-> g]

VARIABLES pending,   \* the halves remembered
          reports    \* the reports handed over, oldest first

vars == <<pending, reports>>

Init ==
  /\ pending = {}
  /\ reports = <<>>

Remember(h) ==
  /\ h \notin pending
  /\ pending' = pending \cup {h}
  /\ UNCHANGED reports

Pair(g, h) ==
  /\ g \in pending
  /\ Partners(g, h)
  /\ reports' = Append(reports, Report(g, h))
  /\ pending' \in SUBSET (pending \ {g})

ForgetAll ==
  /\ pending' = {}
  /\ UNCHANGED reports

Next ==
  \/ \E h \in Halves : Remember(h)
  \/ \E g, h \in Halves : Pair(g, h)
  \/ ForgetAll

Spec == Init /\ [][Next]_vars
=============================================================================
