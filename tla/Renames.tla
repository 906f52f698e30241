------------------------------- MODULE Renames -------------------------------
(***************************************************************************)
(* Rename correlation of ind_inot.c, with the per-directory lists and the   *)
(* free list as sequences.  RenameList has the same algorithm on pointers   *)
(* and implements this module.                                              *)
(*                                                                          *)
(* A pending half sits in a cell (struct in_renamed_st).  PoolSize cells    *)
(* are static (ren_firsts), others come from malloc, and none is ever given *)
(* back to the system.  renamed[d] is dir_renamed, newest half first.       *)
(***************************************************************************)
EXTENDS Naturals, Sequences

CONSTANTS Dirs,       \* the watched directories
          Cookies,    \* the cookies the kernel gives to renames
          PoolSize,   \* static cells
          MaxCells,   \* static cells and those malloc can still give
          NoHalf      \* content of a cell that held nothing yet

Sides == {"moved_from", "moved_to"}
Halves == [dir : Dirs, side : Sides, cok : Cookies]
Cells == 1 .. MaxCells

ASSUME RenamesAssumption ==
  /\ PoolSize \in Nat
  /\ MaxCells \in Nat
  /\ PoolSize <= MaxCells
  /\ NoHalf \notin Halves

VARIABLES renamed,    \* dir_renamed of each directory: cells, newest first
          free,       \* ren_free: the free cells, next one first
          brk,        \* cells that exist: the static ones and the malloc'ed ones
          cell,       \* the half in each cell
          reports,    \* pairs handed to in_cmd_run, oldest first
          history     \* the halves read, each with its fate, and the purges

vars == <<renamed, free, brk, cell, reports, history>>

Fates == {"kept", "paired", "skipped", "purge"}
Entries == [half : Halves \cup {NoHalf}, fate : Fates]

Init ==
  /\ renamed = [d \in Dirs |-> <<>>]
  /\ free = [i \in 1 .. PoolSize |-> i]
  /\ brk = PoolSize
  /\ cell = [c \in Cells |-> NoHalf]
  /\ reports = <<>>
  /\ history = <<>>

-----------------------------------------------------------------------------
Note(h, f) == history' = Append(history, [half |-> h, fate |-> f])

Partners(g, h) ==
  /\ g.dir = h.dir
  /\ g.cok = h.cok
  /\ g.side # h.side

(* The search of the directory's list stops at position i.                  *)
Found(i, h) ==
  /\ cell[renamed[h.dir][i]].cok = h.cok
  /\ \A j \in 1 .. i - 1 : cell[renamed[h.dir][j]].cok # h.cok

NotFound(h) ==
  \A i \in DOMAIN renamed[h.dir] : cell[renamed[h.dir][i]].cok # h.cok

(* Mistake: the half just read is always taken for the new name.            *)
ReportReadAsNew(g, h) == [old |-> g, new |-> h]

(* Which of the two names is the old one depends on the half just read.     *)
Report(g, h) ==
  IF h.side = "moved_to" THEN [old |-> g, new |-> h]
                         ELSE [old |-> h, new |-> g]

(* Mistake: the cell found stays on the list of its directory.              *)
PairStillLinked(h) ==
  \E i \in DOMAIN renamed[h.dir] :
    /\ Found(i, h)
    /\ free' = <<renamed[h.dir][i]>> \o free
    /\ reports' = Append(reports, Report(cell[renamed[h.dir][i]], h))
    /\ Note(h, "paired")
    /\ UNCHANGED <<renamed, brk, cell>>

(* Mistake: the cell found is not put back on the free list.                *)
PairNotFreed(h) ==
  \E i \in DOMAIN renamed[h.dir] :
    /\ Found(i, h)
    /\ renamed' = [renamed EXCEPT ![h.dir] = SubSeq(@, i + 1, Len(@))]
    /\ reports' = Append(reports, Report(cell[renamed[h.dir][i]], h))
    /\ Note(h, "paired")
    /\ UNCHANGED <<free, brk, cell>>

(* A counterpart is found: its cell is unlinked and goes to the front of    *)
(* the free list.  Inserting a cell never sets the ren_prv of the cell it   *)
(* is put before, so unlinking makes what FOLLOWS the cell the whole list:  *)
(* the halves that are newer than the counterpart are dropped with it, and  *)
(* their cells do not return to the free list.                              *)
Pair(h) ==
  \E i \in DOMAIN renamed[h.dir] :
    /\ Found(i, h)
    /\ LET c == renamed[h.dir][i] IN
         /\ renamed' = [renamed EXCEPT ![h.dir] = SubSeq(@, i + 1, Len(@))]
         /\ free' = <<c>> \o free
         /\ reports' = Append(reports, Report(cell[c], h))
    /\ Note(h, "paired")
    /\ UNCHANGED <<brk, cell>>

Insert(c, h) ==
  /\ cell' = [cell EXCEPT ![c] = h]
  /\ renamed' = [renamed EXCEPT ![h.dir] = <<c>> \o @]
  /\ Note(h, "kept")
  /\ UNCHANGED reports

(* Mistake: ren_free still points to the cell that was taken.               *)
KeepInSameFreeCell(h) ==
  /\ NotFound(h)
  /\ free # <<>>
  /\ Insert(Head(free), h)
  /\ UNCHANGED <<free, brk>>

(* Mistake: the half is kept whether or not the search found its partner.   *)
KeepThoughFound(h) ==
  /\ free # <<>>
  /\ Insert(Head(free), h)
  /\ free' = Tail(free)
  /\ UNCHANGED brk

(* No counterpart: the half is kept in the first free cell, ...             *)
KeepInFreeCell(h) ==
  /\ NotFound(h)
  /\ free # <<>>
  /\ Insert(Head(free), h)
  /\ free' = Tail(free)
  /\ UNCHANGED brk

(* Mistake: what malloc returns is not tested; the half goes to cell 0.     *)
KeepInUntestedCell(h) ==
  /\ NotFound(h)
  /\ free = <<>>
  /\ Insert(0, h)
  /\ UNCHANGED <<free, brk>>

(* ... or in a new one when no cell is free, ...                            *)
KeepInNewCell(h) ==
  /\ NotFound(h)
  /\ free = <<>>
  /\ brk < MaxCells
  /\ brk' = brk + 1
  /\ Insert(brk + 1, h)
  /\ UNCHANGED free

(* ... and the event is skipped when malloc fails, which it may always do.  *)
SkipHalf(h) ==
  /\ NotFound(h)
  /\ free = <<>>
  /\ Note(h, "skipped")
  /\ UNCHANGED <<renamed, free, brk, cell, reports>>

MoveEvent(h) ==
  \/ Pair(h)
  \/ KeepInFreeCell(h)
  \/ KeepInNewCell(h)
  \/ SkipHalf(h)

(* in_directory_purge frees the directories; the cells on their lists are   *)
(* not given back.                                                          *)
Purge ==
  /\ renamed' = [d \in Dirs |-> <<>>]
  /\ Note(NoHalf, "purge")
  /\ UNCHANGED <<free, brk, cell, reports>>

(* The kernel: it gives a cookie to one rename, so it announces each side   *)
(* of a cookie once.  The two halves may name different directories.        *)
Fresh(h) ==
  \A k \in DOMAIN history :
    history[k].fate # "purge" =>
      <<history[k].half.side, history[k].half.cok>> # <<h.side, h.cok>>

Next ==
  \/ \E h \in Halves : Fresh(h) /\ MoveEvent(h)
  \/ (\E d \in Dirs : renamed[d] # <<>>) /\ Purge

Spec == Init /\ [][Next]_vars

-----------------------------------------------------------------------------
TypeOK ==
  /\ renamed \in [Dirs -> Seq(Cells)]
  /\ free \in Seq(Cells)
  /\ brk \in PoolSize .. MaxCells
  /\ cell \in [Cells -> Halves \cup {NoHalf}]
  /\ reports \in Seq([old : Halves, new : Halves])
  /\ history \in Seq(Entries)

(* A cell is at one place at most: never twice on the free list, never      *)
(* twice on one list or on the lists of two directories, never pending and  *)
(* free.  Were it not so, a half would overwrite another one in its cell    *)
(* (ind_inot.c:247-248 and 271-279).                                        *)
NoTwice(s) == \A i, j \in DOMAIN s : s[i] = s[j] => i = j
Apart(s, t) == \A i \in DOMAIN s, j \in DOMAIN t : s[i] # t[j]

CellsOwnedOnce ==
  /\ NoTwice(free)
  /\ \A d \in Dirs :
       /\ NoTwice(renamed[d])
       /\ Apart(free, renamed[d])
       /\ \A e \in Dirs \ {d} : Apart(renamed[d], renamed[e])

(* Every report given to in_cmd_run joins the two halves of one rename of   *)
(* one directory, both of them read, with the "moved from" name as old name *)
(* and the "moved to" name as new one.                                      *)
WasRead(h) == \E k \in DOMAIN history : history[k].half = h

ReportsFaithful ==
  \A k \in DOMAIN reports :
    /\ Partners(reports[k].old, reports[k].new)
    /\ reports[k].old.side = "moved_from"
    /\ WasRead(reports[k].old)
    /\ WasRead(reports[k].new)

(* The ordinary case is served: when the two halves of a rename are read    *)
(* one right after the other, and there was memory for the first, the       *)
(* second one is reported, whatever older halves are pending.               *)
BackToBackReported ==
  \A k \in 1 .. Len(history) - 1 :
    /\ history[k].fate = "kept"
    /\ history[k + 1].fate # "purge"
    /\ Partners(history[k].half, history[k + 1].half)
    => history[k + 1].fate = "paired"

(* As long as renames come one after the other, each inside one directory,  *)
(* no cell is lost: at the end of each the static pool is whole.            *)
OneAfterTheOther ==
  /\ Len(history) % 2 = 0
  /\ \A k \in 1 .. Len(history) : history[k].fate # "purge"
  /\ \A k \in 1 .. Len(history) :
       k % 2 = 1 => Partners(history[k].half, history[k + 1].half)

PoolWholeAgain ==
  PoolSize > 0 /\ OneAfterTheOther => Len(free) = PoolSize

(* The halves pending now, as the promise sees them.                        *)
PendingHalves ==
  UNION {{cell[renamed[d][i]] : i \in DOMAIN renamed[d]} : d \in Dirs}

Pairing == INSTANCE RenamePairing WITH pending <- PendingHalves

(* Rename correlation keeps the promise of RenamePairing.                   *)
PairingSpec == Pairing!Spec

(* Every rename inside one directory whose two halves were kept or found is *)
(* reported.  inotify-daemon.conf.5 (fr):341 promises the action of an      *)
(* event whenever the event is received.                                    *)
EveryRenameReported ==
  \A k, l \in DOMAIN history :
    /\ k < l
    /\ \A m \in k .. l : history[m].fate # "purge"
    /\ history[k].fate = "kept"
    /\ Partners(history[k].half, history[l].half)
    => history[l].fate = "paired"
=============================================================================
