------------------------------ MODULE RenameList ------------------------------
(***************************************************************************)
(* Rename correlation of ind_inot.c on its pointers: the ren_prv and        *)
(* ren_nxt fields of struct in_renamed_st, the dir_renamed field of a       *)
(* directory and the global ren_free.  It implements Renames, whose lists   *)
(* are sequences: the pointers never make a cycle, never join two lists,    *)
(* and lose exactly the cells Renames says they lose.                       *)
(***************************************************************************)
EXTENDS Naturals, Sequences

CONSTANTS Dirs, Cookies, PoolSize, MaxCells, NoHalf

Sides == {"moved_from", "moved_to"}
Halves == [dir : Dirs, side : Sides, cok : Cookies]
Cells == 1 .. MaxCells
Null == 0
Pointers == Cells \cup {Null}

ASSUME RenameListAssumption ==
  /\ PoolSize \in Nat
  /\ MaxCells \in Nat
  /\ PoolSize <= MaxCells
  /\ NoHalf \notin Halves

VARIABLES dir_renamed,  \* of each directory
          ren_nxt, ren_prv,
          ren_free,
          cell,         \* ren_dir, ren_evt, ren_cok and ren_nam of each cell
          brk,          \* cells that exist
          reports, history

vars == <<dir_renamed, ren_nxt, ren_prv, ren_free, cell, brk, reports, history>>

(* The static cells are chained both ways; the others do not exist yet.     *)
Init ==
  /\ dir_renamed = [d \in Dirs |-> Null]
  /\ ren_nxt = [c \in Cells |-> IF c < PoolSize THEN c + 1 ELSE Null]
  /\ ren_prv = [c \in Cells |-> IF c <= PoolSize THEN c - 1 ELSE Null]
  /\ ren_free = IF PoolSize = 0 THEN Null ELSE 1
  /\ cell = [c \in Cells |-> NoHalf]
  /\ brk = PoolSize
  /\ reports = <<>>
  /\ history = <<>>

Note(h, f) == history' = Append(history, [half |-> h, fate |-> f])

(* The cells met by following ren_nxt from p.  A chain with a cycle yields  *)
(* more cells than there are.                                               *)
Chain(p) ==
  LET At[n \in 1 .. MaxCells + 1] ==
        IF n = 1 THEN p ELSE IF At[n - 1] = Null THEN Null ELSE ren_nxt[At[n - 1]]
  IN  [n \in {k \in 1 .. MaxCells + 1 : At[k] # Null} |-> At[n]]

Met(h) == Chain(dir_renamed[h.dir])

NotFound(h) == \A i \in DOMAIN Met(h) : cell[Met(h)[i]].cok # h.cok

Found(p, h) ==
  \E i \in DOMAIN Met(h) :
    /\ p = Met(h)[i]
    /\ cell[p].cok = h.cok
    /\ \A j \in 1 .. i - 1 : cell[Met(h)[j]].cok # h.cok

Report(g, h) ==
  IF h.side = "moved_to" THEN [old |-> g, new |-> h]
                         ELSE [old |-> h, new |-> g]

(* Mistake: the cell is unlinked and not put on the free list.              *)
UnlinkOnly(p, d) ==
  /\ dir_renamed' = IF ren_prv[p] = Null THEN [dir_renamed EXCEPT ![d] = ren_nxt[p]]
                                         ELSE dir_renamed
  /\ ren_prv' = IF ren_nxt[p] = Null THEN ren_prv
                                     ELSE [ren_prv EXCEPT ![ren_nxt[p]] = ren_prv[p]]
  /\ UNCHANGED <<ren_nxt, ren_free>>

(* p leaves the list of d for the front of the free list.  A cell believes  *)
(* it is the first of its list when its ren_prv is null.                    *)
Unlink(p, d) ==
  LET before == ren_prv[p]
      after == ren_nxt[p]
  IN  /\ dir_renamed' = IF before = Null THEN [dir_renamed EXCEPT ![d] = after]
                                         ELSE dir_renamed
      /\ ren_prv' = IF after = Null THEN ren_prv
                                    ELSE [ren_prv EXCEPT ![after] = before]
      /\ ren_nxt' = [c \in Cells |->
                       IF c = p THEN ren_free
                       ELSE IF c = before THEN after ELSE ren_nxt[c]]
      /\ ren_free' = p

Pair(h) ==
  \E p \in Cells :
    /\ Found(p, h)
    /\ Unlink(p, h.dir)
    /\ reports' = Append(reports, Report(cell[p], h))
    /\ Note(h, "paired")
    /\ UNCHANGED <<cell, brk>>

(* Mistake: the cell is not cleared; the ren_prv it had when free remains.  *)
InsertUncleared(p, h) ==
  /\ ren_nxt' = [ren_nxt EXCEPT ![p] = dir_renamed[h.dir]]
  /\ cell' = [cell EXCEPT ![p] = h]
  /\ dir_renamed' = [dir_renamed EXCEPT ![h.dir] = p]
  /\ Note(h, "kept")
  /\ UNCHANGED <<ren_prv, reports>>

(* The cell is cleared, filled and put first; the ren_prv of the cell that  *)
(* was first is not set.                                                    *)
Insert(p, h) ==
  /\ ren_prv' = [ren_prv EXCEPT ![p] = Null]
  /\ ren_nxt' = [ren_nxt EXCEPT ![p] = dir_renamed[h.dir]]
  /\ cell' = [cell EXCEPT ![p] = h]
  /\ dir_renamed' = [dir_renamed EXCEPT ![h.dir] = p]
  /\ Note(h, "kept")
  /\ UNCHANGED reports

KeepInFreeCell(h) ==
  /\ NotFound(h)
  /\ ren_free # Null
  /\ ren_free' = ren_nxt[ren_free]
  /\ Insert(ren_free, h)
  /\ UNCHANGED brk

KeepInNewCell(h) ==
  /\ NotFound(h)
  /\ ren_free = Null
  /\ brk < MaxCells
  /\ brk' = brk + 1
  /\ Insert(brk + 1, h)
  /\ UNCHANGED ren_free

SkipHalf(h) ==
  /\ NotFound(h)
  /\ ren_free = Null
  /\ Note(h, "skipped")
  /\ UNCHANGED <<dir_renamed, ren_nxt, ren_prv, ren_free, cell, brk, reports>>

MoveEvent(h) ==
  \/ Pair(h)
  \/ KeepInFreeCell(h)
  \/ KeepInNewCell(h)
  \/ SkipHalf(h)

Purge ==
  /\ dir_renamed' = [d \in Dirs |-> Null]
  /\ Note(NoHalf, "purge")
  /\ UNCHANGED <<ren_nxt, ren_prv, ren_free, cell, brk, reports>>

Fresh(h) ==
  \A k \in DOMAIN history :
    history[k].fate # "purge" =>
      <<history[k].half.side, history[k].half.cok>> # <<h.side, h.cok>>

Next ==
  \/ \E h \in Halves : Fresh(h) /\ MoveEvent(h)
  \/ (\E d \in Dirs : dir_renamed[d] # Null) /\ Purge

Spec == Init /\ [][Next]_vars

-----------------------------------------------------------------------------
(* The pointers implement the sequences of Renames.                         *)
Lists == INSTANCE Renames WITH
           renamed <- [d \in Dirs |-> Chain(dir_renamed[d])],
           free <- Chain(ren_free)

RenamesSpec == Lists!Spec

(* A malloc'ed or static cell that is on no list any more is lost for good. *)
(* While every half is paired before another one of its directory comes,    *)
(* and the configuration is not read again, each existing cell can still be *)
(* reached, from ren_free or from a directory.                              *)
Reachable ==
  {Chain(ren_free)[i] : i \in DOMAIN Chain(ren_free)} \cup
  UNION {{Chain(dir_renamed[d])[i] : i \in DOMAIN Chain(dir_renamed[d])} : d \in Dirs}

InTurn ==
  \A k, l \in DOMAIN history :
    /\ history[k].fate # "purge"
    /\ k < l /\ history[k].fate = "kept" /\ history[l].fate = "kept"
       /\ history[k].half.dir = history[l].half.dir
       => \E m \in k + 1 .. l - 1 : Lists!Partners(history[k].half, history[m].half)

NoCellLost == InTurn => Reachable = 1 .. brk
=============================================================================
