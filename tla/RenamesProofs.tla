---------------------------- MODULE RenamesProofs ----------------------------
(***************************************************************************)
(* What is proved about Renames, for every set of directories and cookies   *)
(* and every size of the pool.                                              *)
(***************************************************************************)
EXTENDS Renames, SequenceLemmas, TLAPS

(* A step of rename correlation, within Renames or in wider surroundings:   *)
(* a purge needs no pending half there.                                     *)
Happens ==
  \/ \E h \in Halves : Fresh(h) /\ MoveEvent(h)
  \/ Purge
  \/ UNCHANGED vars

LEMMA NextHappens == [Next]_vars => Happens
BY DEF Next, Happens

-----------------------------------------------------------------------------
(***************************************************************************)
(* The type invariant.  It is not inductive alone: that a report joins two  *)
(* halves needs that the cells on the lists hold halves.                    *)
(***************************************************************************)
ListedHoldHalves ==
  \A d \in Dirs : \A i \in DOMAIN renamed[d] : cell[renamed[d][i]] \in Halves

PurgesHoldNone ==
  \A k \in DOMAIN history : history[k].fate = "purge" <=> history[k].half = NoHalf

TypeInv == TypeOK /\ ListedHoldHalves /\ PurgesHoldNone

LEMMA NoteType ==
  ASSUME TypeInv, NEW h \in Halves \cup {NoHalf}, NEW f \in Fates, Note(h, f),
         f = "purge" <=> h = NoHalf
  PROVE  history' \in Seq(Entries) /\ PurgesHoldNone'
<1>1. [half |-> h, fate |-> f] \in Entries
  BY DEF Entries
<1>2. /\ history' \in Seq(Entries)
      /\ \A k \in DOMAIN history' :
           \/ k \in DOMAIN history /\ history'[k] = history[k]
           \/ history'[k] = [half |-> h, fate |-> f]
  BY <1>1, AppendTo DEF TypeInv, TypeOK, Note
<1> QED
  BY <1>2 DEF TypeInv, PurgesHoldNone

LEMMA ListedCells ==
  ASSUME TypeOK, NEW d \in Dirs, NEW i \in DOMAIN renamed[d]
  PROVE  renamed[d] \in Seq(Cells) /\ renamed[d][i] \in Cells
  BY LenProperties, ElementOfSeq DEF TypeOK

LEMMA InsertType ==
  ASSUME TypeInv, NEW h \in Halves, NEW c \in Cells, Insert(c, h)
  PROVE  /\ renamed' \in [Dirs -> Seq(Cells)]
         /\ cell' \in [Cells -> Halves \cup {NoHalf}]
         /\ reports' = reports
         /\ history' \in Seq(Entries)
         /\ ListedHoldHalves'
         /\ PurgesHoldNone'
<1>1. h.dir \in Dirs
  BY DEF Halves
<1>2. renamed' \in [Dirs -> Seq(Cells)]
  BY <1>1, PushProperties DEF TypeInv, TypeOK, Insert
<1>3. history' \in Seq(Entries) /\ PurgesHoldNone'
  BY NoteType, RenamesAssumption DEF Insert, Fates
<1>4. cell' \in [Cells -> Halves \cup {NoHalf}] /\ \A x \in Cells : x # c => cell'[x] = cell[x]
  BY DEF TypeInv, TypeOK, Insert
<1>5. ASSUME NEW d \in Dirs, NEW i \in DOMAIN renamed'[d]
      PROVE  cell'[renamed'[d][i]] \in Halves
  <2>1. renamed'[d][i] = c \/ \E j \in DOMAIN renamed[d] : renamed'[d][i] = renamed[d][j]
    BY <1>1, PushProperties DEF TypeInv, TypeOK, Insert
  <2>2. cell'[c] = h
    BY DEF TypeInv, TypeOK, Insert
  <2> QED
    BY <1>4, <2>1, <2>2, ListedCells DEF TypeInv, ListedHoldHalves
<1> QED
  BY <1>2, <1>3, <1>4, <1>5 DEF Insert, ListedHoldHalves

(* Where each cell of a list was before the lists behind position i of one  *)
(* directory became its list.                                               *)
Before(h, i, d, j) == IF d = h.dir THEN i + j ELSE j

LEMMA UnlinkedLists ==
  ASSUME TypeOK, NEW h \in Halves, NEW i \in DOMAIN renamed[h.dir],
         renamed' = [renamed EXCEPT ![h.dir] = SubSeq(@, i + 1, Len(@))],
         NEW d \in Dirs, NEW j \in DOMAIN renamed'[d]
  PROVE  /\ Before(h, i, d, j) \in DOMAIN renamed[d]
         /\ renamed'[d][j] = renamed[d][Before(h, i, d, j)]
<1> USE DEF Before
<1>1. CASE d = h.dir
  <2> DEFINE s == renamed[d]
             t == SubSeq(s, i + 1, Len(s))
  <2>1. s \in Seq(Cells) /\ i \in DOMAIN s /\ renamed'[d] = t
    BY <1>1 DEF TypeOK
  <2> HIDE DEF s
  <2>2. \A k \in DOMAIN t : i + k \in DOMAIN s /\ t[k] = s[i + k]
    BY <2>1, AfterProperties
  <2> QED
    BY <1>1, <2>1, <2>2 DEF s
<1>2. CASE d # h.dir
  BY <1>2 DEF TypeOK, Halves
<1> QED
  BY <1>1, <1>2

LEMMA TypeInit == Init => TypeInv
<1> SUFFICES ASSUME Init PROVE TypeInv
  OBVIOUS
<1>1. [i \in 1 .. PoolSize |-> i] \in Seq(Cells)
  BY RenamesAssumption DEF Cells
<1>2. PoolSize \in PoolSize .. MaxCells
  BY RenamesAssumption
<1> QED
  BY <1>1, <1>2 DEF Init, TypeInv, TypeOK, ListedHoldHalves, PurgesHoldNone

LEMMA TypeStep == TypeInv /\ Happens => TypeInv'
<1> SUFFICES ASSUME TypeInv, Happens PROVE TypeInv'
  OBVIOUS
<1>1. ASSUME NEW h \in Halves, Pair(h)
      PROVE  TypeInv'
  <2>1. PICK i \in DOMAIN renamed[h.dir] :
          /\ renamed' = [renamed EXCEPT ![h.dir] = SubSeq(@, i + 1, Len(@))]
          /\ free' = <<renamed[h.dir][i]>> \o free
          /\ reports' = Append(reports, Report(cell[renamed[h.dir][i]], h))
    BY <1>1 DEF Pair
  <2>2. /\ h.dir \in Dirs
        /\ renamed[h.dir] \in Seq(Cells)
        /\ renamed[h.dir][i] \in Cells
    BY ListedCells DEF Halves, TypeInv
  <2>3. renamed' \in [Dirs -> Seq(Cells)]
    BY <2>1, <2>2, AfterProperties DEF TypeInv, TypeOK
  <2>4. free' \in Seq(Cells)
    BY <2>1, <2>2, PushProperties DEF TypeInv, TypeOK
  <2>5. Report(cell[renamed[h.dir][i]], h) \in [old : Halves, new : Halves]
    BY <2>2 DEF Report, TypeInv, ListedHoldHalves
  <2>6. reports' \in Seq([old : Halves, new : Halves])
    BY <2>1, <2>5, AppendTo DEF TypeInv, TypeOK
  <2>7. history' \in Seq(Entries) /\ PurgesHoldNone'
    BY <1>1, NoteType, RenamesAssumption DEF Pair, Fates
  <2>8. ASSUME NEW d \in Dirs, NEW j \in DOMAIN renamed'[d]
        PROVE  \E k \in DOMAIN renamed[d] : renamed'[d][j] = renamed[d][k]
    <3>1. TypeOK
      BY DEF TypeInv
    <3>2. /\ Before(h, i, d, j) \in DOMAIN renamed[d]
          /\ renamed'[d][j] = renamed[d][Before(h, i, d, j)]
      BY <2>1, <3>1, UnlinkedLists
    <3> QED
      BY <3>2
  <2>9. UNCHANGED <<brk, cell>>
    BY <1>1 DEF Pair
  <2> QED
    BY <2>3, <2>4, <2>6, <2>7, <2>8, <2>9 DEF TypeInv, TypeOK, ListedHoldHalves
<1>2. ASSUME NEW h \in Halves, KeepInFreeCell(h)
      PROVE  TypeInv'
  <2>1. Head(free) \in Cells /\ Tail(free) \in Seq(Cells)
    BY <1>2, PopProperties DEF KeepInFreeCell, TypeInv, TypeOK
  <2> QED
    BY <1>2, <2>1, InsertType DEF KeepInFreeCell, TypeInv, TypeOK
<1>3. ASSUME NEW h \in Halves, KeepInNewCell(h)
      PROVE  TypeInv'
  <2>1. brk + 1 \in Cells /\ brk' \in PoolSize .. MaxCells
    BY <1>3, RenamesAssumption DEF KeepInNewCell, TypeInv, TypeOK, Cells
  <2> QED
    BY <1>3, <2>1, InsertType DEF KeepInNewCell, TypeInv, TypeOK
<1>4. ASSUME NEW h \in Halves, SkipHalf(h)
      PROVE  TypeInv'
  <2>1. history' \in Seq(Entries) /\ PurgesHoldNone'
    BY <1>4, NoteType, RenamesAssumption DEF SkipHalf, Fates
  <2> QED
    BY <1>4, <2>1 DEF SkipHalf, TypeInv, TypeOK, ListedHoldHalves
<1>5. CASE Purge
  <2>1. history' \in Seq(Entries) /\ PurgesHoldNone'
    BY <1>5, NoteType DEF Purge, Fates
  <2> QED
    BY <1>5, <2>1 DEF Purge, TypeInv, TypeOK, ListedHoldHalves
<1>6. CASE UNCHANGED vars
  BY <1>6 DEF vars, TypeInv, TypeOK, ListedHoldHalves, PurgesHoldNone
<1> QED
  BY <1>1, <1>2, <1>3, <1>4, <1>5, <1>6 DEF Happens, MoveEvent

(* The variables keep their types: in particular each pointer the code      *)
(* follows is a cell, and a report always joins two halves.                 *)
THEOREM TypeCorrect == Spec => []TypeOK
<1>1. Spec => []TypeInv
  BY TypeInit, TypeStep, NextHappens, PTL DEF Spec
<1> QED
  BY <1>1, PTL DEF TypeInv

-----------------------------------------------------------------------------
(***************************************************************************)
(* Ownership of cells.  The strengthening: the cells of the lists are among *)
(* those that exist, so the cell malloc gives is on none of them.           *)
(***************************************************************************)
CellsExist ==
  /\ \A i \in DOMAIN free : free[i] <= brk
  /\ \A d \in Dirs : \A i \in DOMAIN renamed[d] : renamed[d][i] <= brk

OwnedInv == TypeInv /\ CellsOwnedOnce /\ CellsExist

LEMMA OwnedInit == Init => OwnedInv
<1> SUFFICES ASSUME Init PROVE OwnedInv
  OBVIOUS
<1>1. TypeInv
  BY TypeInit
<1>2. CellsOwnedOnce
  BY DEF Init, CellsOwnedOnce, NoTwice, Apart
<1>3. CellsExist
  BY RenamesAssumption DEF Init, CellsExist
<1> QED
  BY <1>1, <1>2, <1>3 DEF OwnedInv

(* A cell that is on no list of a directory is put on one.                  *)
LEMMA InsertOwned ==
  ASSUME OwnedInv, NEW h \in Halves, NEW c \in Cells, Insert(c, h),
         \A d \in Dirs : \A i \in DOMAIN renamed[d] : renamed[d][i] # c,
         NoTwice(free'),
         \A i \in DOMAIN free' : free'[i] # c /\ \E j \in DOMAIN free : free'[i] = free[j],
         brk \in Nat, brk' \in Nat, brk <= brk', c <= brk'
  PROVE  CellsOwnedOnce' /\ CellsExist'
<1>1. h.dir \in Dirs /\ renamed[h.dir] \in Seq(Cells) /\ TypeOK
  BY DEF Halves, OwnedInv, TypeInv, TypeOK
<1> DEFINE s == renamed[h.dir]
           t == renamed'[h.dir]
<1>2. t = <<c>> \o s /\ \A d \in Dirs : d # h.dir => renamed'[d] = renamed[d]
  BY <1>1 DEF Insert, TypeOK
<1>3. /\ Len(t) = Len(s) + 1
      /\ t[1] = c
      /\ \A k \in DOMAIN t : k = 1 \/ (k - 1 \in DOMAIN s /\ t[k] = s[k - 1])
      /\ DOMAIN t \subseteq Nat
  BY <1>1, <1>2, PushProperties, LenProperties
<1>4. \A d \in Dirs : \A k \in DOMAIN renamed'[d] :
        \/ d = h.dir /\ k = 1 /\ renamed'[d][k] = c
        \/ \E j \in DOMAIN renamed[d] : renamed'[d][k] = renamed[d][j]
  <2> TAKE d \in Dirs
  <2> TAKE k \in DOMAIN renamed'[d]
  <2>1. CASE d = h.dir
    BY <1>3, <2>1
  <2>2. CASE d # h.dir
    BY <1>2, <2>2
  <2> QED
    BY <2>1, <2>2
<1>5. \A d \in Dirs : NoTwice(renamed[d]) /\ Apart(free, renamed[d])
  BY DEF OwnedInv, CellsOwnedOnce
<1>6. NoTwice(t)
  <2> HIDE DEF s, t
  <2>1. NoTwice(s) /\ \A k \in DOMAIN s : s[k] # c
    BY <1>1, <1>5 DEF s
  <2> QED
    BY <1>3, <2>1 DEF NoTwice
<1>7. \A d \in Dirs : NoTwice(renamed'[d])
  BY <1>2, <1>5, <1>6
<1>8. \A d \in Dirs : Apart(free', renamed'[d])
  BY <1>4, <1>5 DEF Apart
<1>9. ASSUME NEW d \in Dirs, NEW e \in Dirs \ {d}
      PROVE  Apart(renamed'[d], renamed'[e])
  <2>1. Apart(renamed[d], renamed[e])
    BY DEF OwnedInv, CellsOwnedOnce
  <2> QED
    BY <1>4, <2>1 DEF Apart
<1>10. CellsOwnedOnce'
  BY <1>7, <1>8, <1>9 DEF CellsOwnedOnce
<1>11. CellsExist'
  <2>1. \A i \in DOMAIN free' : free'[i] <= brk'
    <3> SUFFICES ASSUME NEW i \in DOMAIN free' PROVE free'[i] <= brk'
      OBVIOUS
    <3>1. PICK j \in DOMAIN free : free'[i] = free[j]
      OBVIOUS
    <3>2. free \in Seq(Cells)
      BY <1>1 DEF TypeOK
    <3>3. free[j] \in Cells
      BY <3>2, ElementOfSeq, LenProperties
    <3>4. free[j] <= brk
      BY DEF OwnedInv, CellsExist
    <3> QED
      BY <3>1, <3>3, <3>4 DEF Cells
  <2>2. ASSUME NEW d \in Dirs, NEW k \in DOMAIN renamed'[d]
        PROVE  renamed'[d][k] <= brk'
    <3>1. CASE renamed'[d][k] = c
      BY <3>1
    <3>2. CASE \E j \in DOMAIN renamed[d] : renamed'[d][k] = renamed[d][j]
      <4>1. PICK j \in DOMAIN renamed[d] : renamed'[d][k] = renamed[d][j]
        BY <3>2
      <4>2. renamed[d][j] \in Nat /\ renamed[d][j] <= brk
        BY <1>1, ListedCells DEF OwnedInv, CellsExist, Cells
      <4> QED
        BY <4>1, <4>2
    <3> QED
      BY <1>4, <3>1, <3>2
  <2> QED
    BY <2>1, <2>2 DEF CellsExist
<1> QED
  BY <1>10, <1>11

LEMMA OwnedStep == OwnedInv /\ Happens => OwnedInv'
<1> SUFFICES ASSUME OwnedInv, Happens PROVE OwnedInv'
  OBVIOUS
<1>1. TypeInv /\ TypeOK /\ TypeInv'
  BY TypeStep DEF OwnedInv, TypeInv
<1>2. brk \in Nat
  BY <1>1, RenamesAssumption DEF TypeOK
<1>3. ASSUME NEW h \in Halves, Pair(h)
      PROVE  CellsOwnedOnce' /\ CellsExist'
  <2>1. PICK i \in DOMAIN renamed[h.dir] :
          /\ renamed' = [renamed EXCEPT ![h.dir] = SubSeq(@, i + 1, Len(@))]
          /\ free' = <<renamed[h.dir][i]>> \o free
          /\ UNCHANGED brk
    BY <1>3 DEF Pair
  <2> DEFINE c == renamed[h.dir][i]
             old(d, j) == Before(h, i, d, j)
  <2>2. h.dir \in Dirs /\ c \in Cells /\ free \in Seq(Cells) /\ i \in Nat
    BY <1>1, ListedCells, LenProperties DEF Halves, TypeOK
  <2>3. ASSUME NEW d \in Dirs, NEW j \in DOMAIN renamed'[d]
        PROVE  /\ j \in Nat
               /\ j >= 1
               /\ old(d, j) \in DOMAIN renamed[d]
               /\ renamed'[d][j] = renamed[d][old(d, j)]
    <3>1. old(d, j) \in DOMAIN renamed[d] /\ renamed'[d][j] = renamed[d][old(d, j)]
      BY <1>1, <2>1, UnlinkedLists
    <3>2. j \in 1 .. Len(renamed'[d])
      BY <1>1, LenProperties DEF TypeInv, TypeOK
    <3> QED
      BY <3>1, <3>2
  <2>4. /\ \A k \in DOMAIN free' : k = 1 \/ (k - 1 \in DOMAIN free /\ free'[k] = free[k - 1])
        /\ free'[1] = c
        /\ DOMAIN free' \subseteq Nat
    <3>1. /\ free' = <<c>> \o free /\ free' \in Seq(Cells)
          /\ Len(free') = Len(free) + 1 /\ free'[1] = c
          /\ \A k \in 2 .. Len(free') : k - 1 \in DOMAIN free /\ free'[k] = free[k - 1]
      <4>1. free' = <<c>> \o free
        BY <2>1
      <4> HIDE DEF c
      <4> QED
        BY <2>2, <4>1, PushProperties
    <3>2. Len(free) \in Nat /\ DOMAIN free' = 1 .. Len(free')
      BY <2>2, <3>1, LenProperties
    <3> QED
      BY <3>1, <3>2
  <2>5. NoTwice(free')
    <3>1. NoTwice(free) /\ \A k \in DOMAIN free : free[k] # c
      BY <2>2 DEF OwnedInv, CellsOwnedOnce, Apart
    <3> HIDE DEF c
    <3> QED
      BY <2>4, <3>1 DEF NoTwice
  <2>6. ASSUME NEW d \in Dirs
        PROVE  NoTwice(renamed'[d])
    <3>1. NoTwice(renamed[d])
      BY DEF OwnedInv, CellsOwnedOnce
    <3> QED
      BY <2>2, <2>3, <3>1 DEF NoTwice, Before
  <2>7. ASSUME NEW d \in Dirs, NEW j \in DOMAIN renamed'[d]
        PROVE  renamed'[d][j] # c
    <3>1. CASE d = h.dir
      <4>1. NoTwice(renamed[d])
        BY DEF OwnedInv, CellsOwnedOnce
      <4>2. old(d, j) # i
        BY <2>2, <2>3, <3>1 DEF Before
      <4> QED
        BY <2>3, <3>1, <4>1, <4>2 DEF NoTwice
    <3>2. CASE d # h.dir
      <4>1. Apart(renamed[d], renamed[h.dir])
        BY <2>2, <3>2 DEF OwnedInv, CellsOwnedOnce
      <4> QED
        BY <2>3, <4>1 DEF Apart
    <3> QED
      BY <3>1, <3>2
  <2>8. ASSUME NEW d \in Dirs
        PROVE  Apart(free', renamed'[d])
    <3>1. Apart(free, renamed[d])
      BY DEF OwnedInv, CellsOwnedOnce
    <3> QED
      BY <2>3, <2>4, <2>7, <3>1 DEF Apart
  <2>9. ASSUME NEW d \in Dirs, NEW e \in Dirs \ {d}
        PROVE  Apart(renamed'[d], renamed'[e])
    <3>1. Apart(renamed[d], renamed[e])
      BY DEF OwnedInv, CellsOwnedOnce
    <3> QED
      BY <2>3, <3>1 DEF Apart
  <2>10. CellsOwnedOnce'
    BY <2>5, <2>6, <2>8, <2>9 DEF CellsOwnedOnce
  <2>11. CellsExist'
    BY <2>1, <2>2, <2>3, <2>4 DEF OwnedInv, CellsExist
  <2> QED
    BY <2>10, <2>11
<1>4. ASSUME NEW h \in Halves, KeepInFreeCell(h)
      PROVE  CellsOwnedOnce' /\ CellsExist'
  <2>1. free # <<>> /\ Insert(Head(free), h) /\ free' = Tail(free) /\ brk' = brk
    BY <1>4 DEF KeepInFreeCell
  <2>2. /\ 1 \in DOMAIN free
        /\ Head(free) = free[1]
        /\ Head(free) \in Cells
        /\ \A k \in DOMAIN free' : k + 1 \in DOMAIN free /\ free'[k] = free[k + 1]
        /\ free \in Seq(Cells)
    BY <1>1, <2>1, PopProperties DEF TypeOK
  <2>3. DOMAIN free' \subseteq Nat \ {0}
    BY <1>1, LenProperties DEF TypeInv, TypeOK
  <2>4. NoTwice(free) /\ \A d \in Dirs : Apart(free, renamed[d])
    BY DEF OwnedInv, CellsOwnedOnce
  <2>5. \A d \in Dirs : \A i \in DOMAIN renamed[d] : renamed[d][i] # Head(free)
    BY <2>2, <2>4 DEF Apart
  <2>6. NoTwice(free')
    BY <2>2, <2>3, <2>4 DEF NoTwice
  <2>7. \A i \in DOMAIN free' : free'[i] # Head(free) /\ \E j \in DOMAIN free : free'[i] = free[j]
    BY <2>2, <2>3, <2>4 DEF NoTwice
  <2>8. Head(free) <= brk
    BY <2>2 DEF OwnedInv, CellsExist
  <2> QED
    BY <1>2, <2>1, <2>2, <2>5, <2>6, <2>7, <2>8, InsertOwned
<1>5. ASSUME NEW h \in Halves, KeepInNewCell(h)
      PROVE  CellsOwnedOnce' /\ CellsExist'
  <2>1. brk < MaxCells /\ brk' = brk + 1 /\ Insert(brk + 1, h) /\ UNCHANGED free /\ free = <<>>
    BY <1>5 DEF KeepInNewCell
  <2>2. brk + 1 \in Cells
    BY <1>2, <2>1, RenamesAssumption DEF Cells
  <2>3. ASSUME NEW d \in Dirs, NEW i \in DOMAIN renamed[d]
        PROVE  renamed[d][i] # brk + 1
    <3>1. renamed[d][i] <= brk
      BY DEF OwnedInv, CellsExist
    <3> QED
      BY <1>2, <3>1
  <2>4. NoTwice(free') /\ DOMAIN free' = {}
    BY <2>1 DEF OwnedInv, CellsOwnedOnce
  <2> QED
    BY <1>2, <2>1, <2>2, <2>3, <2>4, InsertOwned
<1>6. ASSUME NEW h \in Halves, SkipHalf(h)
      PROVE  CellsOwnedOnce' /\ CellsExist'
  BY <1>6 DEF SkipHalf, OwnedInv, CellsOwnedOnce, CellsExist
<1>7. CASE Purge
  <2>1. \A d \in Dirs : renamed'[d] = <<>>
    BY <1>7 DEF Purge
  <2> QED
    BY <1>1, <1>7, <2>1 DEF Purge, OwnedInv, CellsOwnedOnce, CellsExist, NoTwice, Apart
<1>8. CASE UNCHANGED vars
  BY <1>1, <1>8 DEF vars, OwnedInv, CellsOwnedOnce, CellsExist
<1> QED
  BY <1>1, <1>3, <1>4, <1>5, <1>6, <1>7, <1>8 DEF Happens, MoveEvent, OwnedInv

(* No cell is ever at two places.                                           *)
THEOREM OwnedOnce == Spec => []CellsOwnedOnce
<1>1. Spec => []OwnedInv
  BY OwnedInit, OwnedStep, NextHappens, PTL DEF Spec
<1> QED
  BY <1>1, PTL DEF OwnedInv

-----------------------------------------------------------------------------
(***************************************************************************)
(* Reports.  The strengthening: each pending half was read, is on the list  *)
(* of its own directory, and is pending once.                               *)
(***************************************************************************)
PendingRead ==
  \A d \in Dirs : \A i \in DOMAIN renamed[d] :
    /\ cell[renamed[d][i]].dir = d
    /\ WasRead(cell[renamed[d][i]])

PendingOnce ==
  \A d \in Dirs : \A i, j \in DOMAIN renamed[d] :
    cell[renamed[d][i]] = cell[renamed[d][j]] => i = j

FaithfulInv == OwnedInv /\ PendingRead /\ PendingOnce /\ ReportsFaithful

(* What was read stays so, and the half of this step joins it.              *)
LEMMA NoteRead ==
  ASSUME TypeInv, NEW h \in Halves \cup {NoHalf}, NEW f \in Fates, Note(h, f)
  PROVE  WasRead(h)' /\ \A g \in Halves : WasRead(g) => WasRead(g)'
<1>1. [half |-> h, fate |-> f] \in Entries /\ history \in Seq(Entries)
  BY DEF Entries, TypeInv, TypeOK
<1>2. /\ DOMAIN history \subseteq DOMAIN history'
      /\ Len(history') \in DOMAIN history'
      /\ history'[Len(history')].half = h
      /\ \A k \in DOMAIN history : history'[k] = history[k]
  BY <1>1, AppendTo DEF Note
<1> QED
  BY <1>2 DEF WasRead

(* The kernel announces each side of a rename once.                         *)
LEMMA FreshHalf ==
  ASSUME TypeInv, NEW h \in Halves, Fresh(h), NEW g \in Halves, WasRead(g)
  PROVE  g # h /\ (g.cok = h.cok => g.side # h.side)
<1>1. PICK k \in DOMAIN history : history[k].half = g
  BY DEF WasRead
<1>2. history[k].fate # "purge"
  BY <1>1, RenamesAssumption DEF TypeInv, PurgesHoldNone
<1> QED
  BY <1>1, <1>2 DEF Fresh

(* A half that is kept goes to a cell that is on no list.                   *)
LEMMA KeptApart ==
  ASSUME OwnedInv, NEW h \in Halves, KeepInFreeCell(h) \/ KeepInNewCell(h)
  PROVE  \E c \in Cells :
           /\ Insert(c, h)
           /\ \A d \in Dirs : \A i \in DOMAIN renamed[d] : renamed[d][i] # c
<1>1. TypeOK
  BY DEF OwnedInv, TypeInv
<1>2. CASE KeepInFreeCell(h)
  <2>1. free \in Seq(Cells) /\ free # <<>> /\ Insert(Head(free), h)
    BY <1>1, <1>2 DEF TypeOK, KeepInFreeCell
  <2>2. 1 \in DOMAIN free /\ Head(free) = free[1] /\ Head(free) \in Cells
    BY <2>1, PopProperties
  <2>3. \A d \in Dirs : Apart(free, renamed[d])
    BY DEF OwnedInv, CellsOwnedOnce
  <2> QED
    BY <2>1, <2>2, <2>3 DEF Apart
<1>3. CASE KeepInNewCell(h)
  <2>1. brk \in Nat /\ brk + 1 \in Cells /\ Insert(brk + 1, h)
    BY <1>1, <1>3, RenamesAssumption DEF TypeOK, KeepInNewCell, Cells
  <2>2. ASSUME NEW d \in Dirs, NEW i \in DOMAIN renamed[d]
        PROVE  renamed[d][i] # brk + 1
    <3>1. renamed[d][i] <= brk
      BY DEF OwnedInv, CellsExist
    <3> QED
      BY <2>1, <3>1
  <2> QED
    BY <2>1, <2>2
<1> QED
  BY <1>2, <1>3

(* The halves on the lists after one was kept.                              *)
Behind(h, d, k) == IF d = h.dir THEN k - 1 ELSE k

LEMMA KeptContents ==
  ASSUME TypeOK, NEW h \in Halves, NEW c \in Cells, Insert(c, h),
         \A d \in Dirs : \A i \in DOMAIN renamed[d] : renamed[d][i] # c,
         NEW d \in Dirs, NEW k \in DOMAIN renamed'[d]
  PROVE  \/ d = h.dir /\ k = 1 /\ cell'[renamed'[d][k]] = h
         \/ /\ Behind(h, d, k) \in DOMAIN renamed[d]
            /\ cell'[renamed'[d][k]] = cell[renamed[d][Behind(h, d, k)]]
<1>1. /\ h.dir \in Dirs
      /\ cell'[c] = h
      /\ \A x \in Cells : x # c => cell'[x] = cell[x]
  BY DEF Halves, TypeOK, Insert
<1>2. CASE d = h.dir
  <2>1. renamed[d] \in Seq(Cells) /\ renamed'[d] = <<c>> \o renamed[d]
    BY <1>2 DEF TypeOK, Insert
  <2>2. \/ k = 1 /\ renamed'[d][k] = c
        \/ k - 1 \in DOMAIN renamed[d] /\ renamed'[d][k] = renamed[d][k - 1]
    BY <2>1, PushProperties
  <2> QED
    BY <1>1, <1>2, <2>2, ListedCells DEF Behind
<1>3. CASE d # h.dir
  <2>1. renamed'[d] = renamed[d]
    BY <1>1, <1>3 DEF TypeOK, Insert
  <2> QED
    BY <1>1, <1>3, <2>1, ListedCells DEF Behind
<1> QED
  BY <1>2, <1>3

LEMMA ReportedHalves ==
  ASSUME TypeOK, NEW k \in DOMAIN reports
  PROVE  reports[k].old \in Halves /\ reports[k].new \in Halves
<1>1. reports \in Seq([old : Halves, new : Halves])
  BY DEF TypeOK
<1>2. reports[k] \in [old : Halves, new : Halves]
  BY <1>1, ElementOfSeq, LenProperties
<1> QED
  BY <1>2

LEMMA FaithfulInit == Init => FaithfulInv
  BY OwnedInit DEF Init, FaithfulInv, PendingRead, PendingOnce, ReportsFaithful

LEMMA FaithfulStep == FaithfulInv /\ Happens => FaithfulInv'
<1> SUFFICES ASSUME FaithfulInv, Happens PROVE FaithfulInv'
  OBVIOUS
<1>1. OwnedInv /\ TypeInv /\ TypeOK /\ OwnedInv'
  BY OwnedStep DEF FaithfulInv, OwnedInv, TypeInv
<1>2. \A d \in Dirs : \A i \in DOMAIN renamed[d] : cell[renamed[d][i]] \in Halves
  BY <1>1 DEF TypeInv, ListedHoldHalves
<1>3. ASSUME NEW h \in Halves, Fresh(h), Pair(h)
      PROVE  PendingRead' /\ PendingOnce' /\ ReportsFaithful'
  <2>1. PICK i \in DOMAIN renamed[h.dir] :
          /\ Found(i, h)
          /\ renamed' = [renamed EXCEPT ![h.dir] = SubSeq(@, i + 1, Len(@))]
          /\ reports' = Append(reports, Report(cell[renamed[h.dir][i]], h))
          /\ Note(h, "paired")
          /\ UNCHANGED cell
    BY <1>3 DEF Pair
  <2> DEFINE g == cell[renamed[h.dir][i]]
  <2>2. h.dir \in Dirs /\ g \in Halves /\ i \in Nat
    BY <1>1, <1>2, LenProperties DEF Halves, TypeOK
  <2>3. WasRead(h)' /\ \A x \in Halves : WasRead(x) => WasRead(x)'
    BY <1>1, <2>1, NoteRead DEF Fates
  <2>4. ASSUME NEW d \in Dirs, NEW j \in DOMAIN renamed'[d]
        PROVE  /\ j \in Nat
               /\ Before(h, i, d, j) \in DOMAIN renamed[d]
               /\ cell'[renamed'[d][j]] = cell[renamed[d][Before(h, i, d, j)]]
    <3>1. /\ Before(h, i, d, j) \in DOMAIN renamed[d]
          /\ renamed'[d][j] = renamed[d][Before(h, i, d, j)]
      BY <1>1, <2>1, UnlinkedLists
    <3>2. renamed'[d] \in Seq(Cells)
      BY <1>1 DEF OwnedInv, TypeInv, TypeOK
    <3>3. j \in Nat
      BY <3>2, LenProperties
    <3>4. cell'[renamed'[d][j]] = cell[renamed'[d][j]]
      BY <2>1
    <3> QED
      BY <3>1, <3>3, <3>4
  <2>5. PendingRead'
    <3> SUFFICES ASSUME NEW d \in Dirs, NEW j \in DOMAIN renamed'[d]
                 PROVE  /\ cell'[renamed'[d][j]].dir = d
                        /\ \E l \in DOMAIN history' : history'[l].half = cell'[renamed'[d][j]]
      BY DEF PendingRead, WasRead
    <3> DEFINE x == cell[renamed[d][Before(h, i, d, j)]]
    <3>1. x \in Halves /\ x.dir = d /\ WasRead(x) /\ cell'[renamed'[d][j]] = x
      BY <1>2, <2>4 DEF FaithfulInv, PendingRead
    <3> HIDE DEF x
    <3>2. \E k \in DOMAIN history' : history'[k].half = x
      BY <2>3, <3>1 DEF WasRead
    <3> QED
      BY <3>1, <3>2 DEF WasRead
  <2>6. PendingOnce'
    <3> SUFFICES ASSUME NEW d \in Dirs, NEW j \in DOMAIN renamed'[d], NEW k \in DOMAIN renamed'[d],
                        cell'[renamed'[d][j]] = cell'[renamed'[d][k]]
                 PROVE  j = k
      BY DEF PendingOnce
    <3>1. Before(h, i, d, j) = Before(h, i, d, k)
      BY <2>4 DEF FaithfulInv, PendingOnce
    <3> QED
      BY <2>2, <2>4, <3>1 DEF Before
  <2>7. g.dir = h.dir /\ g.cok = h.cok /\ WasRead(g)
    BY <2>1, <2>2 DEF Found, FaithfulInv, PendingRead
  <2>8. g.side # h.side
    BY <1>1, <1>3, <2>2, <2>7, FreshHalf
  <2>9. LET r == Report(g, h) IN
          /\ Partners(r.old, r.new)
          /\ r.old.side = "moved_from"
          /\ {r.old, r.new} = {g, h}
    BY <2>2, <2>7, <2>8 DEF Report, Partners, Halves, Sides
  <2>10. ReportsFaithful'
    <3> SUFFICES ASSUME NEW k \in DOMAIN reports'
                 PROVE  /\ Partners(reports'[k].old, reports'[k].new)
                        /\ reports'[k].old.side = "moved_from"
                        /\ \E l \in DOMAIN history' : history'[l].half = reports'[k].old
                        /\ \E l \in DOMAIN history' : history'[l].half = reports'[k].new
      BY DEF ReportsFaithful, WasRead, Partners
    <3>1. Report(g, h) \in [old : Halves, new : Halves]
      BY <2>2 DEF Report
    <3>2. \/ k \in DOMAIN reports /\ reports'[k] = reports[k]
          \/ reports'[k] = Report(g, h)
      BY <1>1, <2>1, <3>1, AppendTo DEF TypeOK
    <3>3. CASE k \in DOMAIN reports /\ reports'[k] = reports[k]
      <4>1. reports[k].old \in Halves /\ reports[k].new \in Halves
        BY <1>1, <3>3, ReportedHalves
      <4>2. /\ Partners(reports[k].old, reports[k].new)
            /\ reports[k].old.side = "moved_from"
            /\ WasRead(reports[k].old) /\ WasRead(reports[k].new)
        BY <3>3 DEF FaithfulInv, ReportsFaithful
      <4> QED
        BY <3>3, <2>3, <4>1, <4>2 DEF WasRead
    <3>4. CASE reports'[k] = Report(g, h)
      <4>1. \A x \in {g, h} : \E l \in DOMAIN history' : history'[l].half = x
        BY <2>2, <2>3, <2>7 DEF WasRead
      <4> QED
        BY <2>9, <3>4, <4>1
    <3> QED
      BY <3>2, <3>3, <3>4
  <2> QED
    BY <2>5, <2>6, <2>10
<1>4. ASSUME NEW h \in Halves, Fresh(h), KeepInFreeCell(h) \/ KeepInNewCell(h)
      PROVE  PendingRead' /\ PendingOnce' /\ ReportsFaithful'
  <2>1. PICK c \in Cells :
          /\ Insert(c, h)
          /\ \A d \in Dirs : \A i \in DOMAIN renamed[d] : renamed[d][i] # c
    BY <1>1, <1>4, KeptApart
  <2>2. h.dir \in Dirs /\ Note(h, "kept") /\ UNCHANGED reports
    BY <2>1 DEF Halves, Insert
  <2>3. WasRead(h)' /\ \A x \in Halves : WasRead(x) => WasRead(x)'
    BY <1>1, <2>2, NoteRead DEF Fates
  <2>4. ASSUME NEW d \in Dirs, NEW k \in DOMAIN renamed'[d]
        PROVE  \/ d = h.dir /\ k = 1 /\ cell'[renamed'[d][k]] = h
               \/ /\ Behind(h, d, k) \in DOMAIN renamed[d]
                  /\ cell'[renamed'[d][k]] = cell[renamed[d][Behind(h, d, k)]]
    BY <1>1, <2>1, KeptContents
  <2>5. ASSUME NEW d \in Dirs, NEW i \in DOMAIN renamed[d]
        PROVE  /\ cell[renamed[d][i]] \in Halves
               /\ cell[renamed[d][i]].dir = d
               /\ WasRead(cell[renamed[d][i]])
               /\ cell[renamed[d][i]] # h
    <3>1. cell[renamed[d][i]] \in Halves /\ cell[renamed[d][i]].dir = d /\ WasRead(cell[renamed[d][i]])
      BY <1>2 DEF FaithfulInv, PendingRead
    <3> QED
      BY <1>1, <1>4, <3>1, FreshHalf
  <2>6. PendingRead'
    <3> SUFFICES ASSUME NEW d \in Dirs, NEW k \in DOMAIN renamed'[d]
                 PROVE  /\ cell'[renamed'[d][k]].dir = d
                        /\ \E l \in DOMAIN history' : history'[l].half = cell'[renamed'[d][k]]
      BY DEF PendingRead, WasRead
    <3>1. \E x \in Halves : x.dir = d /\ cell'[renamed'[d][k]] = x /\ WasRead(x)'
      BY <2>3, <2>4, <2>5
    <3> QED
      BY <3>1 DEF WasRead
  <2>7. PendingOnce'
    <3> SUFFICES ASSUME NEW d \in Dirs, NEW j \in DOMAIN renamed'[d], NEW k \in DOMAIN renamed'[d],
                        cell'[renamed'[d][j]] = cell'[renamed'[d][k]]
                 PROVE  j = k
      BY DEF PendingOnce
    <3>1. j \in Nat /\ k \in Nat
      BY <1>1, LenProperties DEF OwnedInv, TypeInv, TypeOK
    <3>2. CASE d = h.dir /\ j = 1 /\ cell'[renamed'[d][j]] = h
      BY <2>4, <2>5, <3>2
    <3>3. CASE d = h.dir /\ k = 1 /\ cell'[renamed'[d][k]] = h
      BY <2>4, <2>5, <3>3
    <3>4. CASE /\ Behind(h, d, j) \in DOMAIN renamed[d]
               /\ cell'[renamed'[d][j]] = cell[renamed[d][Behind(h, d, j)]]
               /\ Behind(h, d, k) \in DOMAIN renamed[d]
               /\ cell'[renamed'[d][k]] = cell[renamed[d][Behind(h, d, k)]]
      <4>1. Behind(h, d, j) = Behind(h, d, k)
        BY <3>4 DEF FaithfulInv, PendingOnce
      <4> QED
        BY <3>1, <4>1 DEF Behind
    <3> QED
      BY <2>4, <3>2, <3>3, <3>4
  <2>8. ReportsFaithful'
    <3> SUFFICES ASSUME NEW k \in DOMAIN reports
                 PROVE  /\ Partners(reports[k].old, reports[k].new)
                        /\ reports[k].old.side = "moved_from"
                        /\ \E l \in DOMAIN history' : history'[l].half = reports[k].old
                        /\ \E l \in DOMAIN history' : history'[l].half = reports[k].new
      BY <2>2 DEF ReportsFaithful, WasRead, Partners
    <3>1. reports[k].old \in Halves /\ reports[k].new \in Halves
      BY <1>1, ReportedHalves
    <3>2. /\ Partners(reports[k].old, reports[k].new)
          /\ reports[k].old.side = "moved_from"
          /\ WasRead(reports[k].old) /\ WasRead(reports[k].new)
      BY DEF FaithfulInv, ReportsFaithful
    <3> QED
      BY <2>3, <3>1, <3>2 DEF WasRead
  <2> QED
    BY <2>6, <2>7, <2>8
<1>5. ASSUME NEW h \in Halves \cup {NoHalf}, NEW f \in Fates, Note(h, f),
             UNCHANGED <<cell, reports>>,
             UNCHANGED renamed \/ renamed' = [d \in Dirs |-> <<>>]
      PROVE  PendingRead' /\ PendingOnce' /\ ReportsFaithful'
  <2>1. \A x \in Halves : WasRead(x) => WasRead(x)'
    BY <1>1, <1>5, NoteRead
  <2>2. PendingRead'
    <3> SUFFICES ASSUME NEW d \in Dirs, NEW k \in DOMAIN renamed[d]
                 PROVE  /\ cell[renamed[d][k]].dir = d
                        /\ \E l \in DOMAIN history' : history'[l].half = cell[renamed[d][k]]
      BY <1>5 DEF PendingRead, WasRead
    <3>1. cell[renamed[d][k]].dir = d /\ WasRead(cell[renamed[d][k]]) /\ cell[renamed[d][k]] \in Halves
      BY <1>2 DEF FaithfulInv, PendingRead
    <3> QED
      BY <2>1, <3>1 DEF WasRead
  <2>3. PendingOnce'
    BY <1>5 DEF FaithfulInv, PendingOnce
  <2>4. ReportsFaithful'
    <3> SUFFICES ASSUME NEW k \in DOMAIN reports
                 PROVE  /\ Partners(reports[k].old, reports[k].new)
                        /\ reports[k].old.side = "moved_from"
                        /\ \E l \in DOMAIN history' : history'[l].half = reports[k].old
                        /\ \E l \in DOMAIN history' : history'[l].half = reports[k].new
      BY <1>5 DEF ReportsFaithful, WasRead, Partners
    <3>1. reports[k].old \in Halves /\ reports[k].new \in Halves
      BY <1>1, ReportedHalves
    <3>2. /\ Partners(reports[k].old, reports[k].new)
          /\ reports[k].old.side = "moved_from"
          /\ WasRead(reports[k].old) /\ WasRead(reports[k].new)
      BY DEF FaithfulInv, ReportsFaithful
    <3> QED
      BY <2>1, <3>1, <3>2 DEF WasRead
  <2> QED
    BY <2>2, <2>3, <2>4
<1>6. ASSUME NEW h \in Halves, SkipHalf(h)
      PROVE  PendingRead' /\ PendingOnce' /\ ReportsFaithful'
  BY <1>5, <1>6 DEF SkipHalf, Fates
<1>7. ASSUME Purge
      PROVE  PendingRead' /\ PendingOnce' /\ ReportsFaithful'
  BY <1>5, <1>7 DEF Purge, Fates
<1>8. ASSUME UNCHANGED vars
      PROVE  PendingRead' /\ PendingOnce' /\ ReportsFaithful'
  BY <1>8 DEF vars, FaithfulInv, PendingRead, PendingOnce, ReportsFaithful, WasRead
<1> QED
  BY <1>1, <1>3, <1>4, <1>6, <1>7, <1>8 DEF Happens, MoveEvent, FaithfulInv

(* Every report joins the two halves of one rename of one directory, with   *)
(* the names the right way round.                                           *)
THEOREM Faithful == Spec => []ReportsFaithful
<1>1. Spec => []FaithfulInv
  BY FaithfulInit, FaithfulStep, NextHappens, PTL DEF Spec
<1> QED
  BY <1>1, PTL DEF FaithfulInv

-----------------------------------------------------------------------------
(***************************************************************************)
(* Halves read back to back.  The strengthening: a half that was just kept  *)
(* is the first of its list.                                                *)
(***************************************************************************)
LastKeptIsFirst ==
  LET last == history[Len(history)]
      list == renamed[last.half.dir]
  IN  history # <<>> /\ last.fate = "kept" =>
        1 \in DOMAIN list /\ cell[list[1]] = last.half

BackInv == TypeInv /\ LastKeptIsFirst /\ BackToBackReported

LEMMA BackInit == Init => BackInv
<1> SUFFICES ASSUME Init PROVE BackInv
  OBVIOUS
<1>1. history = <<>> /\ TypeInv
  BY TypeInit DEF Init
<1> QED
  BY <1>1 DEF BackInv, LastKeptIsFirst, BackToBackReported

(* One more entry of the history.                                           *)
LEMMA BackNote ==
  ASSUME BackInv, NEW h \in Halves \cup {NoHalf}, NEW f \in Fates, Note(h, f),
         f = "kept" => 1 \in DOMAIN renamed'[h.dir] /\ cell'[renamed'[h.dir][1]] = h,
         f \in {"kept", "skipped"} => h \in Halves /\ NotFound(h)
  PROVE  LastKeptIsFirst' /\ BackToBackReported'
<1> DEFINE n == Len(history)
           e == [half |-> h, fate |-> f]
<1>1. e \in Entries /\ history \in Seq(Entries) /\ history' = Append(history, e)
  BY DEF Entries, BackInv, TypeInv, TypeOK, Note
<1>2. /\ n \in Nat
      /\ history' \in Seq(Entries)
      /\ Len(history') = n + 1
      /\ history'[n + 1] = e
      /\ \A k \in 1 .. n : history'[k] = history[k]
  BY <1>1, AppendProperties, LenProperties
<1>3. LastKeptIsFirst'
  BY <1>2 DEF LastKeptIsFirst
<1>4. ASSUME NEW k \in 1 .. n,
             history'[k].fate = "kept",
             history'[k + 1].fate # "purge",
             Partners(history'[k].half, history'[k + 1].half)
      PROVE  history'[k + 1].fate = "paired"
  <2>1. CASE k < n
    <3>1. k \in 1 .. Len(history) - 1 /\ k + 1 \in 1 .. n
      BY <1>2, <2>1
    <3> QED
      BY <1>2, <1>4, <3>1 DEF BackInv, BackToBackReported
  <2>2. CASE k = n
    <3>1. history[n].fate = "kept" /\ Partners(history[n].half, h) /\ f # "purge" /\ history # <<>>
      BY <1>1, <1>2, <1>4, <2>2, EmptySeq
    <3>2. /\ 1 \in DOMAIN renamed[h.dir]
          /\ cell[renamed[h.dir][1]].cok = h.cok
      BY <3>1 DEF BackInv, LastKeptIsFirst, Partners
    <3>3. ~NotFound(h)
      BY <3>2 DEF NotFound
    <3>4. f = "paired"
      BY <3>1, <3>3 DEF Fates
    <3> QED
      BY <1>2, <2>2, <3>4
  <2> QED
    BY <1>2, <2>1, <2>2
<1>5. BackToBackReported'
  <2>1. 1 .. Len(history') - 1 = 1 .. n
    BY <1>2
  <2> QED
    BY <1>4, <2>1 DEF BackToBackReported, Partners
<1> QED
  BY <1>3, <1>5

LEMMA BackStep == BackInv /\ OwnedInv /\ Happens => BackInv'
<1> SUFFICES ASSUME BackInv, OwnedInv, Happens PROVE BackInv'
  OBVIOUS
<1>1. TypeInv' /\ TypeOK
  BY TypeStep DEF BackInv, TypeInv
<1>2. ASSUME NEW h \in Halves, Pair(h)
      PROVE  LastKeptIsFirst' /\ BackToBackReported'
  <2>1. Note(h, "paired")
    BY <1>2 DEF Pair
  <2> QED
    BY <2>1, BackNote DEF Fates
<1>3. ASSUME NEW h \in Halves, KeepInFreeCell(h) \/ KeepInNewCell(h)
      PROVE  LastKeptIsFirst' /\ BackToBackReported'
  <2>1. PICK c \in Cells : Insert(c, h)
    BY <1>3, KeptApart
  <2>2. renamed[h.dir] \in Seq(Cells) /\ renamed'[h.dir] = <<c>> \o renamed[h.dir] /\ cell'[c] = h
    BY <1>1, <2>1 DEF Insert, TypeOK, Halves
  <2>3. renamed'[h.dir] \in Seq(Cells) /\ Len(renamed'[h.dir]) = Len(renamed[h.dir]) + 1 /\ renamed'[h.dir][1] = c
    BY <2>2, PushProperties
  <2>4. 1 \in DOMAIN renamed'[h.dir]
    BY <2>2, <2>3, LenProperties
  <2>5. Note(h, "kept") /\ NotFound(h)
    BY <1>3, <2>1 DEF Insert, KeepInFreeCell, KeepInNewCell
  <2> QED
    BY <2>2, <2>3, <2>4, <2>5, BackNote DEF Fates
<1>4. ASSUME NEW h \in Halves, SkipHalf(h)
      PROVE  LastKeptIsFirst' /\ BackToBackReported'
  <2>1. Note(h, "skipped") /\ NotFound(h)
    BY <1>4 DEF SkipHalf
  <2> QED
    BY <2>1, BackNote DEF Fates
<1>5. ASSUME Purge
      PROVE  LastKeptIsFirst' /\ BackToBackReported'
  <2>1. Note(NoHalf, "purge")
    BY <1>5 DEF Purge
  <2> QED
    BY <2>1, BackNote DEF Fates
<1>6. ASSUME UNCHANGED vars
      PROVE  LastKeptIsFirst' /\ BackToBackReported'
  BY <1>6 DEF vars, BackInv, LastKeptIsFirst, BackToBackReported
<1> QED
  BY <1>1, <1>2, <1>3, <1>4, <1>5, <1>6 DEF Happens, MoveEvent, BackInv

(* A rename whose halves are read one after the other is reported.          *)
THEOREM BackToBack == Spec => []BackToBackReported
<1>1. Spec => [](OwnedInv /\ BackInv)
  BY OwnedInit, OwnedStep, BackInit, BackStep, NextHappens, PTL DEF Spec
<1> QED
  BY <1>1, PTL DEF BackInv

-----------------------------------------------------------------------------
(***************************************************************************)
(* Renames keeps the promise of RenamePairing.                              *)
(***************************************************************************)
LEMMA PendingMembers ==
  ASSUME TypeOK, NEW x
  PROVE  x \in PendingHalves <=>
           \E d \in Dirs : \E i \in DOMAIN renamed[d] : x = cell[renamed[d][i]]
  BY DEF PendingHalves

LEMMA PairingInit == Init => Pairing!Init
  BY DEF Init, Pairing!Init, PendingHalves

LEMMA PairingStep ==
  FaithfulInv /\ Happens => [Pairing!Next]_(Pairing!vars)
<1> SUFFICES ASSUME FaithfulInv, Happens PROVE [Pairing!Next]_(Pairing!vars)
  OBVIOUS
<1>1. OwnedInv /\ TypeInv /\ TypeOK /\ TypeOK'
  BY TypeStep DEF FaithfulInv, OwnedInv, TypeInv
<1>2. Pairing!Halves = Halves
  BY DEF Pairing!Halves, Halves, Pairing!Sides, Sides
<1>3. ASSUME NEW h \in Halves, Fresh(h), Pair(h)
      PROVE  Pairing!Next
  <2>1. PICK i \in DOMAIN renamed[h.dir] :
          /\ Found(i, h)
          /\ renamed' = [renamed EXCEPT ![h.dir] = SubSeq(@, i + 1, Len(@))]
          /\ reports' = Append(reports, Report(cell[renamed[h.dir][i]], h))
          /\ UNCHANGED cell
    BY <1>3 DEF Pair
  <2> DEFINE g == cell[renamed[h.dir][i]]
  <2>2. /\ h.dir \in Dirs /\ i \in Nat
        /\ g \in Halves /\ g.dir = h.dir /\ g.cok = h.cok /\ WasRead(g)
    <3>1. h.dir \in Dirs
      BY DEF Halves
    <3>2. i \in Nat
      BY <1>1, <2>1, <3>1, LenProperties DEF TypeOK
    <3>3. g \in Halves
      BY <1>1, <2>1, <3>1 DEF TypeInv, ListedHoldHalves
    <3>4. g.dir = h.dir /\ WasRead(g)
      BY <1>1, <2>1, <3>1 DEF FaithfulInv, PendingRead
    <3>5. g.cok = h.cok
      BY <2>1 DEF Found
    <3> QED
      BY <3>1, <3>2, <3>3, <3>4, <3>5
  <2>3. g.side # h.side
    BY <1>1, <1>3, <2>2, FreshHalf
  <2>4. g \in PendingHalves
    BY <1>1, <2>2, PendingMembers
  <2>5. ASSUME NEW x \in PendingHalves'
        PROVE  x \in PendingHalves /\ x # g
    <3>0. PICK d \in Dirs : \E j \in DOMAIN renamed'[d] : x = cell'[renamed'[d][j]]
      BY DEF PendingHalves
    <3>1. PICK j \in DOMAIN renamed'[d] : x = cell[renamed'[d][j]]
      BY <2>1, <3>0
    <3> DEFINE k == Before(h, i, d, j)
    <3>2. k \in DOMAIN renamed[d] /\ renamed'[d][j] = renamed[d][k]
      BY <1>1, <2>1, UnlinkedLists
    <3>3. x \in PendingHalves
      BY <1>1, <3>1, <3>2, PendingMembers
    <3>4. j \in Nat /\ j >= 1
      <4>1. renamed'[d] \in Seq(Cells)
        BY <1>1 DEF TypeOK
      <4> QED
        BY <4>1, LenProperties
    <3>5. x # g
      <4>1. CASE d = h.dir
        <5>1. k # i
          BY <2>2, <3>4, <4>1 DEF Before
        <5> QED
          BY <3>1, <3>2, <4>1, <5>1 DEF FaithfulInv, PendingOnce
      <4>2. CASE d # h.dir
        BY <2>2, <3>1, <3>2, <4>2 DEF FaithfulInv, PendingRead
      <4> QED
        BY <4>1, <4>2
    <3> QED
      BY <3>3, <3>5
  <2>6. Report(g, h) = Pairing!Report(g, h) /\ Pairing!Partners(g, h)
    BY <2>2, <2>3 DEF Report, Pairing!Report, Pairing!Partners
  <2>7. Pairing!Pair(g, h)
    BY <2>1, <2>4, <2>5, <2>6 DEF Pairing!Pair
  <2> QED
    BY <1>2, <2>2, <2>7 DEF Pairing!Next
<1>4. ASSUME NEW h \in Halves, Fresh(h), KeepInFreeCell(h) \/ KeepInNewCell(h)
      PROVE  Pairing!Next
  <2>1. PICK c \in Cells :
          /\ Insert(c, h)
          /\ \A d \in Dirs : \A i \in DOMAIN renamed[d] : renamed[d][i] # c
    BY <1>1, <1>4, KeptApart
  <2>2. h \notin PendingHalves
    <3>1. ASSUME NEW d \in Dirs, NEW i \in DOMAIN renamed[d]
          PROVE  cell[renamed[d][i]] # h
      <4>1. cell[renamed[d][i]] \in Halves /\ WasRead(cell[renamed[d][i]])
        BY <1>1 DEF TypeInv, ListedHoldHalves, FaithfulInv, PendingRead
      <4> QED
        BY <1>1, <1>4, <4>1, FreshHalf
    <3> QED
      BY <1>1, <3>1, PendingMembers
  <2>3. h.dir \in Dirs /\ cell'[c] = h /\ \A x \in Cells : x # c => cell'[x] = cell[x]
    BY <1>1, <2>1 DEF Halves, TypeOK, Insert
  <2>4. ASSUME NEW x \in PendingHalves'
        PROVE  x \in PendingHalves \cup {h}
    <3>0. PICK d \in Dirs : \E k \in DOMAIN renamed'[d] : x = cell'[renamed'[d][k]]
      BY DEF PendingHalves
    <3>1. PICK k \in DOMAIN renamed'[d] : x = cell'[renamed'[d][k]]
      BY <3>0
    <3>2. \/ cell'[renamed'[d][k]] = h
          \/ /\ Behind(h, d, k) \in DOMAIN renamed[d]
             /\ cell'[renamed'[d][k]] = cell[renamed[d][Behind(h, d, k)]]
      BY <1>1, <2>1, KeptContents
    <3> QED
      BY <1>1, <3>1, <3>2, PendingMembers
  <2>5. ASSUME NEW x \in PendingHalves \cup {h}
        PROVE  x \in PendingHalves'
    <3>1. \A d \in Dirs : renamed'[d] = IF d = h.dir THEN <<c>> \o renamed[d] ELSE renamed[d]
      BY <1>1, <2>1, <2>3 DEF TypeOK, Insert
    <3>2. CASE x = h
      <4>1. renamed[h.dir] \in Seq(Cells) /\ renamed'[h.dir] \in Seq(Cells)
        BY <1>1, <2>3 DEF TypeOK
      <4>5. renamed'[h.dir] = <<c>> \o renamed[h.dir]
        BY <2>3, <3>1
      <4>2. Len(renamed'[h.dir]) = Len(renamed[h.dir]) + 1 /\ renamed'[h.dir][1] = c
        BY <4>1, <4>5, PushProperties
      <4>3. 1 \in DOMAIN renamed'[h.dir]
        BY <4>1, <4>2, LenProperties
      <4> QED
        BY <2>3, <3>2, <4>2, <4>3 DEF PendingHalves
    <3>3. CASE x \in PendingHalves
      <4>0. PICK d \in Dirs : \E i \in DOMAIN renamed[d] : x = cell[renamed[d][i]]
        BY <1>1, <3>3, PendingMembers
      <4>1. PICK i \in DOMAIN renamed[d] : x = cell[renamed[d][i]]
        BY <4>0
      <4>2. cell'[renamed[d][i]] = x
        BY <1>1, <2>1, <2>3, <4>1, ListedCells
      <4>3. \E k \in DOMAIN renamed'[d] : renamed'[d][k] = renamed[d][i]
        <5>1. CASE d = h.dir
          <6>1. /\ renamed[d] \in Seq(Cells) /\ renamed'[d] \in Seq(Cells)
                /\ renamed'[d] = <<c>> \o renamed[d]
            BY <1>1, <3>1, <5>1 DEF TypeOK
          <6>2. <<c>> \in Seq(Cells) /\ Len(<<c>>) = 1
            OBVIOUS
          <6>3. /\ Len(renamed'[d]) = 1 + Len(renamed[d])
                /\ \A k \in 1 .. 1 + Len(renamed[d]) :
                     renamed'[d][k] = IF k <= 1 THEN <<c>>[k] ELSE renamed[d][k - 1]
            BY <6>1, <6>2, ConcatProperties
          <6>4. /\ i \in 1 .. Len(renamed[d])
                /\ Len(renamed[d]) \in Nat
                /\ DOMAIN renamed'[d] = 1 .. Len(renamed'[d])
            BY <6>1, LenProperties
          <6>5. i + 1 \in DOMAIN renamed'[d] /\ renamed'[d][i + 1] = renamed[d][i]
            BY <6>3, <6>4
          <6> QED
            BY <6>5
        <5>2. CASE d # h.dir
          BY <3>1, <5>2
        <5> QED
          BY <5>1, <5>2
      <4> QED
        BY <4>2, <4>3 DEF PendingHalves
    <3> QED
      BY <3>2, <3>3
  <2>6. Pairing!Remember(h)
    BY <2>1, <2>2, <2>4, <2>5 DEF Pairing!Remember, Insert
  <2> QED
    BY <1>2, <2>6 DEF Pairing!Next
<1>5. ASSUME NEW h \in Halves, SkipHalf(h)
      PROVE  UNCHANGED Pairing!vars
  BY <1>5 DEF SkipHalf, Pairing!vars, PendingHalves
<1>6. ASSUME Purge
      PROVE  Pairing!Next
  <2>1. PendingHalves' = {}
    BY <1>6 DEF Purge, PendingHalves
  <2> QED
    BY <1>6, <2>1 DEF Purge, Pairing!Next, Pairing!ForgetAll
<1>7. ASSUME UNCHANGED vars
      PROVE  UNCHANGED Pairing!vars
  BY <1>7 DEF vars, Pairing!vars, PendingHalves
<1> QED
  BY <1>3, <1>4, <1>5, <1>6, <1>7 DEF Happens, MoveEvent

(* The algorithm on lists and cells implements the promise: a half is used  *)
(* once, by a report with its counterpart.                                  *)
THEOREM KeepsPromise == Spec => PairingSpec
<1>1. Spec => []FaithfulInv
  BY FaithfulInit, FaithfulStep, NextHappens, PTL DEF Spec
<1> QED
  BY <1>1, PairingInit, PairingStep, NextHappens, PTL DEF Spec, PairingSpec, Pairing!Spec

-----------------------------------------------------------------------------
(***************************************************************************)
(* The pool is whole at the end of each rename.  While renames come one     *)
(* after the other the lists are empty after each, and hold only its first  *)
(* half in the middle of one.                                               *)
(***************************************************************************)
InTurn ==
  /\ \A k \in 1 .. Len(history) : history[k].fate # "purge"
  /\ \A k \in 1 .. Len(history) - 1 :
       k % 2 = 1 => Partners(history[k].half, history[k + 1].half)

NonePending ==
  /\ \A d \in Dirs : renamed[d] = <<>>
  /\ Len(free) = PoolSize

OnePending ==
  LET h == history[Len(history)].half IN
  /\ h \in Halves
  /\ \A d \in Dirs \ {h.dir} : renamed[d] = <<>>
  /\ Len(renamed[h.dir]) = 1
  /\ cell[renamed[h.dir][1]] = h
  /\ Len(free) + 1 = PoolSize

WholeInv ==
  PoolSize > 0 /\ InTurn =>
    /\ Len(history) % 2 = 0 => NonePending
    /\ Len(history) % 2 = 1 => OnePending

LEMMA Parity ==
  ASSUME NEW n \in Nat
  PROVE  /\ n % 2 \in {0, 1}
         /\ n % 2 = 0 => (n + 1) % 2 = 1
         /\ n % 2 = 1 => (n + 1) % 2 = 0
  OBVIOUS

LEMMA WholeInit == Init => WholeInv
<1> SUFFICES ASSUME Init PROVE WholeInv
  OBVIOUS
<1>1. Len(history) = 0 /\ 0 % 2 # 1
  BY DEF Init
<1>2. Len([i \in 1 .. PoolSize |-> i]) = PoolSize
  BY RenamesAssumption
<1> QED
  BY <1>1, <1>2 DEF Init, WholeInv, NonePending

(* One more half: renames came one after the other before it too.           *)
LEMMA TurnNote ==
  ASSUME TypeInv, NEW h \in Halves, NEW f \in Fates \ {"purge"}, Note(h, f), InTurn'
  PROVE  /\ InTurn
         /\ Len(history) \in Nat
         /\ Len(history') = Len(history) + 1
         /\ history'[Len(history')].half = h
         /\ Len(history) % 2 = 1 => Partners(history[Len(history)].half, h)
<1> DEFINE n == Len(history)
           x == [half |-> h, fate |-> f]
<1>1. history \in Seq(Entries) /\ x \in Entries /\ history' = Append(history, x) /\ x.half = h
  BY DEF Note, Entries, TypeInv, TypeOK
<1> HIDE DEF x
<1>2. /\ Len(history') = n + 1
      /\ history'[n + 1] = x
      /\ \A k \in 1 .. n : history'[k] = history[k]
      /\ n \in Nat
  BY <1>1, AppendTo, LenProperties
<1>3. InTurn
  <2>1. \A k \in 1 .. n : history[k].fate # "purge"
    BY <1>2 DEF InTurn
  <2>2. ASSUME NEW k \in 1 .. n - 1, k % 2 = 1
        PROVE  Partners(history[k].half, history[k + 1].half)
    <3>1. k \in 1 .. Len(history') - 1 /\ k \in 1 .. n /\ k + 1 \in 1 .. n
      BY <1>2
    <3>2. Partners(history'[k].half, history'[k + 1].half)
      BY <2>2, <3>1 DEF InTurn, Partners
    <3> QED
      BY <1>2, <3>1, <3>2
  <2> QED
    BY <2>1, <2>2 DEF InTurn
<1>4. ASSUME n % 2 = 1
      PROVE  Partners(history[n].half, h)
  <2>1. n \in 1 .. n /\ n \in 1 .. Len(history') - 1
    BY <1>2, <1>4
  <2>2. Partners(history'[n].half, history'[n + 1].half)
    BY <1>4, <2>1 DEF InTurn, Partners
  <2> QED
    BY <1>1, <1>2, <2>1, <2>2
<1> QED
  BY <1>1, <1>2, <1>3, <1>4

(* The first half of a rename.                                              *)
LEMMA FirstHalf ==
  ASSUME TypeInv, NonePending, PoolSize > 0, NEW h \in Halves, MoveEvent(h),
         history'[Len(history')].half = h
  PROVE  OnePending'
<1>1. h.dir \in Dirs /\ TypeOK
  BY DEF Halves, TypeInv
<1>2. free \in Seq(Cells) /\ Len(free) = PoolSize /\ free # <<>> /\ renamed[h.dir] = <<>>
  BY <1>1, RenamesAssumption DEF NonePending, TypeOK
<1>3. KeepInFreeCell(h)
  <2>1. DOMAIN renamed[h.dir] = {}
    BY <1>2
  <2> QED
    BY <1>2, <2>1 DEF MoveEvent, Pair, KeepInNewCell, SkipHalf
<1>4. Head(free) \in Cells /\ Len(Tail(free)) + 1 = PoolSize
  BY <1>2, PopProperties, HeadTailProperties
<1>5. /\ Insert(Head(free), h)
      /\ free' = Tail(free)
  BY <1>3 DEF KeepInFreeCell
<1>6. /\ renamed' = [renamed EXCEPT ![h.dir] = <<Head(free)>> \o @]
      /\ cell' = [cell EXCEPT ![Head(free)] = h]
  BY <1>5 DEF Insert
<1>7. /\ \A d \in Dirs \ {h.dir} : renamed'[d] = <<>>
      /\ renamed'[h.dir] = <<Head(free)>> \o <<>>
      /\ cell'[Head(free)] = h
  BY <1>1, <1>2, <1>4, <1>6 DEF NonePending, TypeOK
<1>8. Len(renamed'[h.dir]) = 1 /\ renamed'[h.dir][1] = Head(free)
  <2>1. <<>> \in Seq(Cells) /\ Len(<<>>) = 0
    OBVIOUS
  <2>2. LET t == <<Head(free)>> \o <<>> IN Len(t) = Len(<<>>) + 1 /\ t[1] = Head(free)
    BY <1>4, <2>1, PushProperties
  <2> QED
    BY <1>7, <2>1, <2>2
<1> QED
  BY <1>4, <1>5, <1>7, <1>8 DEF OnePending

(* The second one.                                                          *)
LEMMA SecondHalf ==
  ASSUME TypeInv, OnePending, NEW h \in Halves, MoveEvent(h),
         Partners(history[Len(history)].half, h)
  PROVE  NonePending'
<1>1. /\ h.dir \in Dirs /\ TypeOK
      /\ renamed[h.dir] \in Seq(Cells) /\ free \in Seq(Cells)
  BY DEF Halves, TypeInv, TypeOK
<1>2. /\ Len(renamed[h.dir]) = 1
      /\ cell[renamed[h.dir][1]].cok = h.cok
      /\ \A d \in Dirs \ {h.dir} : renamed[d] = <<>>
      /\ Len(free) + 1 = PoolSize
  BY DEF OnePending, Partners
<1>3. DOMAIN renamed[h.dir] = 1 .. 1
  BY <1>1, <1>2, LenProperties
<1>4. Pair(h)
  <2>1. ~NotFound(h)
    BY <1>2, <1>3 DEF NotFound
  <2> QED
    BY <2>1 DEF MoveEvent, KeepInFreeCell, KeepInNewCell, SkipHalf
<1>5. PICK i \in DOMAIN renamed[h.dir] :
        /\ renamed' = [renamed EXCEPT ![h.dir] = SubSeq(@, i + 1, Len(@))]
        /\ free' = <<renamed[h.dir][i]>> \o free
  BY <1>4 DEF Pair
<1>6. i = 1
  BY <1>3
<1>7. \A d \in Dirs : renamed'[d] = <<>>
  <2> DEFINE s == renamed[h.dir]
             t == SubSeq(s, i + 1, Len(s))
  <2>1. t \in Seq(Cells) /\ Len(t) = Len(s) - i
    BY <1>1, AfterProperties
  <2>2. t = <<>>
    BY <1>2, <1>6, <2>1, EmptySeq
  <2>3. renamed'[h.dir] = t
    BY <1>1, <1>5 DEF TypeOK
  <2>4. \A d \in Dirs \ {h.dir} : renamed'[d] = renamed[d]
    BY <1>1, <1>5 DEF TypeOK
  <2> HIDE DEF s, t
  <2> QED
    BY <1>2, <2>2, <2>3, <2>4
<1>8. Len(free') = PoolSize
  <2>1. renamed[h.dir][i] \in Cells
    BY <1>1, ListedCells
  <2>2. Len(<<renamed[h.dir][i]>> \o free) = Len(free) + 1
    BY <1>1, <2>1, PushProperties
  <2> QED
    BY <1>2, <1>5, <2>2
<1> QED
  BY <1>7, <1>8 DEF NonePending

LEMMA WholeStep == TypeInv /\ WholeInv /\ Happens => WholeInv'
<1> SUFFICES ASSUME TypeInv, WholeInv, Happens, PoolSize > 0, InTurn'
             PROVE  /\ Len(history') % 2 = 0 => NonePending'
                    /\ Len(history') % 2 = 1 => OnePending'
  BY DEF WholeInv
<1>1. ASSUME NEW h \in Halves, MoveEvent(h)
      PROVE  /\ Len(history') % 2 = 0 => NonePending'
             /\ Len(history') % 2 = 1 => OnePending'
  <2>1. Note(h, "paired") \/ Note(h, "kept") \/ Note(h, "skipped")
    BY <1>1 DEF MoveEvent, Pair, KeepInFreeCell, KeepInNewCell, SkipHalf, Insert
  <2>2. /\ InTurn
        /\ Len(history) \in Nat
        /\ Len(history') = Len(history) + 1
        /\ history'[Len(history')].half = h
        /\ Len(history) % 2 = 1 => Partners(history[Len(history)].half, h)
    <3>1. {"paired", "kept", "skipped"} \subseteq Fates \ {"purge"}
      BY DEF Fates
    <3> QED
      BY <2>1, <3>1, TurnNote
  <2>3. CASE Len(history) % 2 = 0
    <3>1. NonePending
      BY <2>2, <2>3 DEF WholeInv
    <3>2. OnePending'
      BY <1>1, <2>2, <3>1, FirstHalf
    <3>3. Len(history') % 2 = 1
      BY <2>2, <2>3, Parity
    <3> QED
      BY <3>2, <3>3
  <2>4. CASE Len(history) % 2 = 1
    <3>1. OnePending
      BY <2>2, <2>4 DEF WholeInv
    <3>2. NonePending'
      BY <1>1, <2>2, <2>4, <3>1, SecondHalf
    <3>3. Len(history') % 2 = 0
      BY <2>2, <2>4, Parity
    <3> QED
      BY <3>2, <3>3
  <2> QED
    BY <2>2, <2>3, <2>4, Parity
<1>2. CASE Purge
  <2> DEFINE x == [half |-> NoHalf, fate |-> "purge"]
  <2>1. history \in Seq(Entries) /\ x \in Entries /\ history' = Append(history, x) /\ x.fate = "purge"
    BY <1>2 DEF Purge, Note, Entries, Fates, TypeInv, TypeOK
  <2> HIDE DEF x
  <2>2. Len(history) \in Nat /\ Len(history') = Len(history) + 1 /\ history'[Len(history')] = x
    BY <2>1, AppendTo, LenProperties
  <2>3. Len(history') \in 1 .. Len(history')
    BY <2>2
  <2> QED
    BY <2>1, <2>2, <2>3 DEF InTurn
<1>3. CASE UNCHANGED vars
  BY <1>3 DEF vars, WholeInv, InTurn, NonePending, OnePending, Partners
<1> QED
  BY <1>1, <1>2, <1>3 DEF Happens

(* No cell is lost as long as renames come one after the other, each inside *)
(* one directory.                                                           *)
THEOREM PoolWhole == Spec => []PoolWholeAgain
<1>1. TypeInv /\ WholeInv => PoolWholeAgain
  <2> SUFFICES ASSUME TypeInv, WholeInv, PoolSize > 0, OneAfterTheOther
               PROVE  Len(free) = PoolSize
    BY DEF PoolWholeAgain
  <2>1. Len(history) \in Nat
    BY LenProperties DEF TypeInv, TypeOK
  <2>2. InTurn
    <3>1. \A k \in 1 .. Len(history) - 1 : k \in 1 .. Len(history)
      BY <2>1
    <3> QED
      BY <3>1 DEF OneAfterTheOther, InTurn
  <2> QED
    BY <2>2 DEF OneAfterTheOther, WholeInv, NonePending
<1>2. Spec => [](TypeInv /\ WholeInv)
  BY TypeInit, TypeStep, WholeInit, WholeStep, NextHappens, PTL DEF Spec
<1> QED
  BY <1>1, <1>2, PTL
=============================================================================
