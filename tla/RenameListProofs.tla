--------------------------- MODULE RenameListProofs ---------------------------
(***************************************************************************)
(* What is proved about RenameList, for any number of directories, renames, *)
(* static cells and cells of malloc: the pointers implement the sequences   *)
(* of Renames, so that what is proved of these is true of the pointers, and *)
(* no cell is lost while renames come in their turn.                        *)
(***************************************************************************)
EXTENDS RenameList, SequenceLemmas, TLAPS

(* What is proved of the sequences.                                         *)
R == INSTANCE RenamesProofs WITH
       renamed <- [d \in Dirs |-> Chain(dir_renamed[d])],
       free <- Chain(ren_free)

LEMMA AssumptionOfRenames == R!RenamesAssumption
BY RenameListAssumption DEF R!RenamesAssumption, R!Halves, Halves, R!Sides, Sides

-----------------------------------------------------------------------------
(***************************************************************************)
(* Chains.  s is the chain of p when its cells lead from each to the next,  *)
(* from p to Null.                                                          *)
(***************************************************************************)
Chained(s, p, nxt) ==
  /\ s \in Seq(Cells)
  /\ Len(s) <= MaxCells
  /\ s = <<>> => p = Null
  /\ s # <<>> => p = s[1]
  /\ \A i \in DOMAIN s : nxt[s[i]] = IF i = Len(s) THEN Null ELSE s[i + 1]

ChainsAre == \A s, p : Chained(s, p, ren_nxt) => Chain(p) = s

LEMMA ChainedType ==
  ASSUME NEW s, NEW p, NEW nxt, Chained(s, p, nxt)
  PROVE  /\ Len(s) \in Nat /\ DOMAIN s = 1 .. Len(s)
         /\ \A i \in DOMAIN s : s[i] \in Cells /\ s[i] # Null
         /\ s = <<>> <=> Len(s) = 0
         /\ s # <<>> => 1 \in DOMAIN s /\ p \in Cells
         /\ p = Null <=> s = <<>>
<1>1. s \in Seq(Cells)
  BY DEF Chained
<1>2. Len(s) \in Nat /\ DOMAIN s = 1 .. Len(s) /\ (s = <<>> <=> Len(s) = 0)
  BY <1>1, LenProperties, EmptySeq
<1>3. \A i \in DOMAIN s : s[i] \in Cells /\ s[i] # Null
  BY <1>1, <1>2, ElementOfSeq, RenameListAssumption DEF Cells, Null
<1>4. s # <<>> => 1 \in DOMAIN s
  BY <1>2
<1> QED
  BY <1>2, <1>3, <1>4 DEF Chained

(* A walk from p meets the cells of its chain.                              *)
LEMMA WalkMeets == ChainsAre
<1> SUFFICES ASSUME NEW s, NEW p, Chained(s, p, ren_nxt)
             PROVE  Chain(p) = s
  BY DEF ChainsAre
<1> DEFINE M == MaxCells + 1
           Turn(g) == [n \in 1 .. M |->
                         IF n = 1 THEN p ELSE IF g[n - 1] = Null THEN Null ELSE ren_nxt[g[n - 1]]]
           At == CHOOSE g : g = Turn(g)
           f == [n \in 1 .. M |-> IF n <= Len(s) THEN s[n] ELSE Null]
<1>1. /\ Len(s) \in Nat /\ DOMAIN s = 1 .. Len(s)
      /\ \A i \in DOMAIN s : s[i] # Null
      /\ s = <<>> <=> Len(s) = 0
      /\ Len(s) <= MaxCells /\ MaxCells \in Nat
  BY ChainedType, RenameListAssumption DEF Chained
<1>2. f = Turn(f)
  <2> SUFFICES ASSUME NEW n \in 1 .. M
               PROVE  f[n] = IF n = 1 THEN p ELSE IF f[n - 1] = Null THEN Null ELSE ren_nxt[f[n - 1]]
    OBVIOUS
  <2>1. CASE n = 1
    BY <1>1, <2>1 DEF Chained
  <2>2. CASE n # 1
    <3>1. n - 1 \in 1 .. M /\ n \in Nat
      BY <1>1, <2>2
    <3>2. CASE n - 1 > Len(s)
      BY <1>1, <3>1, <3>2
    <3>3. CASE n - 1 <= Len(s)
      <4>1. n - 1 \in DOMAIN s /\ f[n - 1] = s[n - 1]
        BY <1>1, <3>1, <3>3
      <4>2. ren_nxt[s[n - 1]] = IF n - 1 = Len(s) THEN Null ELSE s[n]
        BY <3>1, <4>1 DEF Chained
      <4>3. f[n] = IF n - 1 = Len(s) THEN Null ELSE s[n]
        BY <1>1, <3>1, <3>3
      <4> QED
        BY <1>1, <2>2, <4>1, <4>2, <4>3
    <3> QED
      BY <1>1, <3>1, <3>2, <3>3
  <2> QED
    BY <2>1, <2>2
<1>3. At = Turn(At)
  <2> HIDE DEF f, Turn
  <2> QED
    BY <1>2
<1>4. \A n \in 1 .. M : At[n] = f[n]
  <2> DEFINE B == {n \in 1 .. M : At[n] # f[n]}
  <2> SUFFICES ASSUME B # {} PROVE FALSE
    OBVIOUS
  <2>1. PICK m \in B : \A k \in B : m <= k
    <3>1. B \subseteq Nat
      BY <1>1
    <3> HIDE DEF B
    <3> QED
      BY <3>1, Least
  <2>2. m \in 1 .. M /\ m \in Nat /\ At[m] # f[m]
    BY <1>1, <2>1
  <2>3. At[m] = IF m = 1 THEN p ELSE IF At[m - 1] = Null THEN Null ELSE ren_nxt[At[m - 1]]
    <3> HIDE DEF At
    <3> QED
      BY <1>3, <2>2
  <2>4. f[m] = IF m = 1 THEN p ELSE IF f[m - 1] = Null THEN Null ELSE ren_nxt[f[m - 1]]
    <3> HIDE DEF f
    <3> QED
      BY <1>2, <2>2
  <2>5. m # 1 => m - 1 \in 1 .. M /\ m - 1 \notin B
    <3>1. m # 1 => m - 1 \in 1 .. M /\ ~(m <= m - 1)
      BY <1>1, <2>2
    <3> HIDE DEF B
    <3> QED
      BY <2>1, <3>1
  <2>6. m # 1 => At[m - 1] = f[m - 1]
    <3> HIDE DEF At, f
    <3> QED
      BY <2>5
  <2> HIDE DEF At, f
  <2> QED
    BY <2>2, <2>3, <2>4, <2>6
<1>5. Chain(p) = [n \in {k \in 1 .. M : At[k] # Null} |-> At[n]]
  BY DEF Chain
<1> HIDE DEF At
<1>6. {k \in 1 .. M : At[k] # Null} = 1 .. Len(s)
  <2>1. \A k \in 1 .. M : f[k] # Null <=> k \in 1 .. Len(s)
    BY <1>1
  <2>2. 1 .. Len(s) \subseteq 1 .. M
    BY <1>1
  <2> HIDE DEF f
  <2> QED
    BY <1>4, <2>1, <2>2
<1>7. \A n \in 1 .. Len(s) : At[n] = s[n]
  <2>1. \A n \in 1 .. Len(s) : n \in 1 .. M /\ f[n] = s[n]
    BY <1>1
  <2> HIDE DEF f
  <2> QED
    BY <1>4, <2>1
<1>8. Chain(p) = [n \in 1 .. Len(s) |-> s[n]]
  BY <1>5, <1>6, <1>7
<1>9. s = [n \in 1 .. Len(s) |-> s[n]]
  BY <1>1, LenProperties DEF Chained
<1> QED
  BY <1>8, <1>9

(* A chain none of whose cells changes.                                     *)
LEMMA ChainedKept ==
  ASSUME NEW s, NEW p, NEW a, Chained(s, p, a), NEW b,
         \A i \in DOMAIN s : b[s[i]] = a[s[i]]
  PROVE  Chained(s, p, b)
BY DEF Chained

(* What follows a cell of a chain.                                          *)
LEMMA ChainedAfter ==
  ASSUME NEW s, NEW p, NEW a, Chained(s, p, a), NEW i \in DOMAIN s, NEW b,
         \A k \in DOMAIN s : k > i => b[s[k]] = a[s[k]]
  PROVE  Chained(SubSeq(s, i + 1, Len(s)), a[s[i]], b)
<1>1. s \in Seq(Cells) /\ Len(s) \in Nat /\ DOMAIN s = 1 .. Len(s) /\ Len(s) <= MaxCells
  BY ChainedType DEF Chained
<1>2. PICK t : t = SubSeq(s, i + 1, Len(s))
  OBVIOUS
<1>3. t \in Seq(Cells) /\ Len(t) = Len(s) - i /\ \A k \in DOMAIN t : i + k \in DOMAIN s /\ t[k] = s[i + k]
  BY <1>1, <1>2, AfterProperties
<1>4. DOMAIN t = 1 .. Len(s) - i /\ (t = <<>> <=> Len(t) = 0)
  BY <1>3, LenProperties, EmptySeq
<1>5. Len(t) <= MaxCells
  BY <1>1, <1>3, RenameListAssumption
<1>6. t = <<>> => a[s[i]] = Null
  BY <1>1, <1>3, <1>4 DEF Chained
<1>7. t # <<>> => a[s[i]] = t[1]
  <2> SUFFICES ASSUME t # <<>> PROVE a[s[i]] = t[1]
    OBVIOUS
  <2>1. 1 \in DOMAIN t /\ i # Len(s)
    BY <1>1, <1>3, <1>4
  <2> QED
    BY <1>1, <1>3, <2>1 DEF Chained
<1>8. ASSUME NEW k \in DOMAIN t
      PROVE  b[t[k]] = IF k = Len(t) THEN Null ELSE t[k + 1]
  <2>1. /\ i + k \in DOMAIN s /\ t[k] = s[i + k] /\ i + k > i
        /\ k = Len(t) <=> i + k = Len(s)
    BY <1>1, <1>3, <1>4
  <2>2. a[s[i + k]] = IF i + k = Len(s) THEN Null ELSE s[i + k + 1]
    BY <2>1 DEF Chained
  <2>3. k # Len(t) => k + 1 \in DOMAIN t /\ t[k + 1] = s[i + k + 1]
    <3>1. k # Len(t) => k + 1 \in DOMAIN t /\ i + (k + 1) = i + k + 1
      BY <1>1, <1>3, <1>4
    <3> QED
      BY <1>3, <3>1
  <2> QED
    BY <2>1, <2>2, <2>3
<1> QED
  BY <1>2, <1>3, <1>5, <1>6, <1>7, <1>8 DEF Chained

(* A cell that leads to the first of a chain.                               *)
LEMMA ChainedBefore ==
  ASSUME NEW s, NEW q, NEW a, Chained(s, q, a), Len(s) < MaxCells, NEW p \in Cells, NEW b,
         b[p] = q, \A i \in DOMAIN s : b[s[i]] = a[s[i]]
  PROVE  Chained(<<p>> \o s, p, b)
<1>1. s \in Seq(Cells) /\ Len(s) \in Nat /\ DOMAIN s = 1 .. Len(s) /\ (s = <<>> <=> Len(s) = 0)
  BY ChainedType DEF Chained
<1>2. PICK t : t = <<p>> \o s
  OBVIOUS
<1>3. /\ t \in Seq(Cells) /\ Len(t) = Len(s) + 1 /\ t[1] = p
      /\ \A k \in DOMAIN t : k = 1 \/ (k - 1 \in DOMAIN s /\ t[k] = s[k - 1])
  BY <1>1, <1>2, PushProperties
<1>4. DOMAIN t = 1 .. Len(s) + 1 /\ t # <<>>
  BY <1>1, <1>3, LenProperties, EmptySeq
<1>5. Len(t) <= MaxCells
  BY <1>1, <1>3, RenameListAssumption
<1>6. ASSUME NEW k \in DOMAIN t
      PROVE  b[t[k]] = IF k = Len(t) THEN Null ELSE t[k + 1]
  <2>1. k # Len(t) => k + 1 \in DOMAIN t /\ k \in DOMAIN s /\ t[k + 1] = s[k]
    <3>1. k # Len(t) => k + 1 \in DOMAIN t /\ k + 1 # 1 /\ (k + 1) - 1 = k
      BY <1>1, <1>3, <1>4
    <3> QED
      BY <1>3, <3>1
  <2>2. CASE k = 1
    <3>1. b[t[k]] = q /\ (1 = Len(t) <=> s = <<>>)
      BY <1>1, <1>3, <2>2
    <3> QED
      BY <2>1, <2>2, <3>1 DEF Chained
  <2>3. CASE k # 1
    <3>1. k - 1 \in DOMAIN s /\ t[k] = s[k - 1] /\ (k = Len(t) <=> k - 1 = Len(s)) /\ (k - 1) + 1 = k
      BY <1>1, <1>3, <1>4, <2>3
    <3>2. b[t[k]] = IF k - 1 = Len(s) THEN Null ELSE s[k]
      BY <3>1 DEF Chained
    <3> QED
      BY <2>1, <3>1, <3>2
  <2> QED
    BY <2>2, <2>3
<1> QED
  BY <1>2, <1>3, <1>4, <1>5, <1>6 DEF Chained

(* The chain behind the first cell.                                         *)
LEMMA ChainedTail ==
  ASSUME NEW s, NEW p, NEW a, Chained(s, p, a), s # <<>>, NEW b,
         \A k \in DOMAIN s : k > 1 => b[s[k]] = a[s[k]]
  PROVE  Chained(Tail(s), a[p], b)
<1>1. 1 \in DOMAIN s /\ p = s[1] /\ s \in Seq(Cells)
  BY ChainedType DEF Chained
<1>2. Tail(s) = SubSeq(s, 1 + 1, Len(s))
  <2>1. Len(s) \in Nat /\ Len(s) # 0
    BY <1>1, ChainedType
  <2> DEFINE t == SubSeq(s, 1 + 1, Len(s))
  <2>2. t \in Seq(Cells) /\ Len(t) = Len(s) - 1 /\ \A k \in DOMAIN t : t[k] = s[1 + k]
    BY <1>1, AfterProperties
  <2>3. Tail(s) \in Seq(Cells) /\ Len(Tail(s)) = Len(s) - 1 /\ \A k \in DOMAIN Tail(s) : Tail(s)[k] = s[k + 1]
    BY <1>1, <2>1, PopProperties, HeadTailProperties
  <2>4. DOMAIN t = 1 .. Len(s) - 1 /\ DOMAIN Tail(s) = 1 .. Len(s) - 1
    BY <2>2, <2>3, LenProperties
  <2>5. \A k \in 1 .. Len(s) - 1 : t[k] = Tail(s)[k]
    <3>1. \A k \in 1 .. Len(s) - 1 : 1 + k = k + 1
      BY <2>1
    <3> HIDE DEF t
    <3> QED
      BY <2>2, <2>3, <2>4, <3>1
  <2>6. t = Tail(s)
    <3> HIDE DEF t
    <3> QED
      BY <2>2, <2>3, <2>5, SeqEqual
  <2> QED
    BY <2>6
<1>3. \A i \in DOMAIN s : i = 1 => Chained(SubSeq(s, i + 1, Len(s)), a[s[i]], b)
  BY ChainedAfter
<1> QED
  BY <1>1, <1>2, <1>3

(* There is room for a cell that is not in a chain yet.                     *)
LEMMA RoomForMore ==
  ASSUME NEW s \in Seq(Cells), R!NoTwice(s), NEW c \in Cells, \A i \in DOMAIN s : s[i] # c
  PROVE  Len(s) < MaxCells
<1> DEFINE n == Len(s)
           f == [k \in 1 .. n + 1 |-> IF k <= n THEN s[k] ELSE c]
<1>1. n \in Nat /\ DOMAIN s = 1 .. n /\ (\A k \in 1 .. n : s[k] \in Cells)
  BY LenProperties, ElementOfSeq
<1>2. \A k \in 1 .. n + 1 : f[k] \in Cells
  BY <1>1
<1>3. \A k, m \in 1 .. n + 1 : f[k] = f[m] => k = m
  BY <1>1 DEF R!NoTwice
<1>4. f \in Injection(1 .. n + 1, Cells)
  <2>1. f \in [1 .. n + 1 -> Cells]
    BY <1>2
  <2> HIDE DEF f
  <2> QED
    BY <1>3, <2>1 DEF Injection, IsInjective
<1>5. IsFiniteSet(1 .. MaxCells) /\ Cardinality(1 .. MaxCells) = MaxCells
  BY RenameListAssumption, FS_Interval
<1>6. IsFiniteSet(1 .. n + 1) /\ Cardinality(1 .. n + 1) = n + 1
  BY <1>1, FS_Interval
<1>7. Cardinality(1 .. n + 1) <= Cardinality(Cells)
  BY <1>4, <1>5, FS_Injection DEF Cells
<1> QED
  BY <1>1, <1>5, <1>6, <1>7, RenameListAssumption DEF Cells

-----------------------------------------------------------------------------
(***************************************************************************)
(* The invariant: each list is a chain, and all its cells believe to be the *)
(* first one.  That the chains have no cell twice and none in common comes  *)
(* from Renames, whose sequences they are.                                  *)
(***************************************************************************)
Listed == [d \in Dirs |-> Chain(dir_renamed[d])]
Free == Chain(ren_free)

PointersOK ==
  /\ dir_renamed \in [Dirs -> Pointers]
  /\ ren_free \in Pointers
  /\ ren_nxt \in [Cells -> Pointers]
  /\ ren_prv \in [Cells -> Pointers]
  /\ \A d \in Dirs : /\ Chained(Listed[d], dir_renamed[d], ren_nxt)
                     /\ \A i \in DOMAIN Listed[d] : ren_prv[Listed[d][i]] = Null
  /\ Chained(Free, ren_free, ren_nxt)

ListInv == PointersOK /\ R!OwnedInv

(* What Renames says of the cells.                                          *)
LEMMA Owned ==
  ASSUME ListInv
  PROVE  /\ \A i, j \in DOMAIN Free : Free[i] = Free[j] => i = j
         /\ \A i \in DOMAIN Free : Free[i] <= brk
         /\ \A d \in Dirs :
              /\ \A i, j \in DOMAIN Listed[d] : Listed[d][i] = Listed[d][j] => i = j
              /\ \A i \in DOMAIN Listed[d] : Listed[d][i] <= brk
              /\ \A i \in DOMAIN Free, j \in DOMAIN Listed[d] : Free[i] # Listed[d][j]
              /\ \A e \in Dirs \ {d} : \A i \in DOMAIN Listed[d], j \in DOMAIN Listed[e] :
                   Listed[d][i] # Listed[e][j]
         /\ brk \in PoolSize .. MaxCells
         /\ cell \in [Cells -> Halves \cup {NoHalf}]
<1>1. R!CellsOwnedOnce /\ R!CellsExist /\ R!TypeOK
  BY DEF ListInv, R!OwnedInv, R!TypeInv
<1>2. brk \in PoolSize .. MaxCells /\ cell \in [Cells -> Halves \cup {NoHalf}]
  BY <1>1 DEF R!TypeOK, R!Cells, Cells, R!Halves, Halves, R!Sides, Sides
<1>3. /\ R!NoTwice(Free)
      /\ \A d \in Dirs : /\ R!NoTwice(Listed[d])
                         /\ R!Apart(Free, Listed[d])
                         /\ \A e \in Dirs \ {d} : R!Apart(Listed[d], Listed[e])
  BY <1>1 DEF R!CellsOwnedOnce, Listed, Free
<1>4. /\ \A i \in DOMAIN Free : Free[i] <= brk
      /\ \A d \in Dirs : \A i \in DOMAIN Listed[d] : Listed[d][i] <= brk
  BY <1>1 DEF R!CellsExist, Listed, Free
<1> QED
  BY <1>2, <1>3, <1>4 DEF R!NoTwice, R!Apart

LEMMA ListedCells ==
  ASSUME ListInv
  PROVE  /\ \A d \in Dirs :
              /\ Listed[d] \in Seq(Cells)
              /\ Len(Listed[d]) \in Nat /\ DOMAIN Listed[d] = 1 .. Len(Listed[d])
              /\ \A i \in DOMAIN Listed[d] : Listed[d][i] \in Cells /\ Listed[d][i] # Null
         /\ Free \in Seq(Cells)
         /\ \A i \in DOMAIN Free : Free[i] \in Cells
<1>1. \A d \in Dirs : Chained(Listed[d], dir_renamed[d], ren_nxt)
  BY DEF ListInv, PointersOK
<1>2. Chained(Free, ren_free, ren_nxt)
  BY DEF ListInv, PointersOK
<1>3. \A d \in Dirs : Listed[d] \in Seq(Cells)
  BY <1>1 DEF Chained
<1>4. \A d \in Dirs : /\ Len(Listed[d]) \in Nat /\ DOMAIN Listed[d] = 1 .. Len(Listed[d])
                      /\ \A i \in DOMAIN Listed[d] : Listed[d][i] \in Cells /\ Listed[d][i] # Null
  BY <1>1, ChainedType
<1>5. Free \in Seq(Cells)
  BY <1>2 DEF Chained
<1>6. \A i \in DOMAIN Free : Free[i] \in Cells
  BY <1>2, ChainedType
<1> QED
  BY <1>3, <1>4, <1>5, <1>6

(* Chains of the pointers after a step are the lists after it.              *)
LEMMA Followed ==
  ASSUME NEW L, L = [d \in Dirs |-> L[d]], NEW F,
         \A d \in Dirs : Chained(L[d], dir_renamed'[d], ren_nxt'),
         Chained(F, ren_free', ren_nxt')
  PROVE  Listed' = L /\ Free' = F
<1>1. ChainsAre'
  BY WalkMeets, PTL
<1>2. \A d \in Dirs : Chain(dir_renamed[d])' = L[d]
  BY <1>1 DEF ChainsAre
<1>3. Chain(ren_free)' = F
  BY <1>1 DEF ChainsAre
<1> QED
  BY <1>2, <1>3 DEF Listed, Free

(* A cell leaves its list: what follows it becomes the list, as the cell    *)
(* believes to be the first one, and it is the first free one now.          *)
LEMMA PairStep ==
  ASSUME ListInv, NEW h \in Halves, Pair(h)
  PROVE  PointersOK' /\ R!Pair(h)
<1>1. PICK s, d : s = Listed[h.dir] /\ d = h.dir
  OBVIOUS
<1>2. d \in Dirs /\ s = Met(h)
  BY <1>1 DEF Halves, Listed, Met
<1>3. /\ \A e \in Dirs : /\ Chained(Listed[e], dir_renamed[e], ren_nxt)
                         /\ \A k \in DOMAIN Listed[e] : ren_prv[Listed[e][k]] = Null
      /\ Chained(Free, ren_free, ren_nxt)
      /\ Chained(s, dir_renamed[d], ren_nxt)
      /\ dir_renamed \in [Dirs -> Pointers] /\ ren_free \in Pointers
      /\ ren_nxt \in [Cells -> Pointers] /\ ren_prv \in [Cells -> Pointers]
  BY <1>1, <1>2 DEF ListInv, PointersOK
<1>4. PICK p \in Cells : /\ Found(p, h) /\ Unlink(p, d)
                         /\ reports' = Append(reports, Report(cell[p], h))
                         /\ Note(h, "paired")
                         /\ UNCHANGED <<cell, brk>>
  BY <1>1 DEF Pair
<1>5. PICK i \in DOMAIN s : /\ p = s[i] /\ cell[p].cok = h.cok
                            /\ \A j \in 1 .. i - 1 : cell[s[j]].cok # h.cok
  BY <1>2, <1>4 DEF Found
<1>6. /\ Len(s) \in Nat /\ DOMAIN s = 1 .. Len(s) /\ s \in Seq(Cells)
      /\ \A k \in DOMAIN s : s[k] \in Cells /\ s[k] # Null
      /\ \A k \in DOMAIN s : k > i => s[k] # p
  <2>1. /\ Len(s) \in Nat /\ DOMAIN s = 1 .. Len(s) /\ s \in Seq(Cells)
        /\ \A k \in DOMAIN s : s[k] \in Cells /\ s[k] # Null
    BY <1>1, <1>2, ListedCells
  <2>2. \A j, k \in DOMAIN s : s[j] = s[k] => j = k
    BY <1>1, <1>2, Owned
  <2> QED
    BY <1>5, <2>1, <2>2
<1>20. i \in DOMAIN Listed[d] /\ p = Listed[d][i]
  BY <1>1, <1>5
<1>7. ren_prv[p] = Null /\ p # Null /\ ren_nxt[p] \in Pointers
  BY <1>1, <1>2, <1>3, <1>5, <1>6
<1>8. /\ dir_renamed' = [dir_renamed EXCEPT ![d] = ren_nxt[p]]
      /\ ren_free' = p
      /\ ren_nxt' = [ren_nxt EXCEPT ![p] = ren_free]
  <2>1. \A c \in Cells : c # ren_prv[p]
    BY <1>7, RenameListAssumption DEF Cells, Null
  <2> QED
    BY <1>3, <1>4, <1>7, <2>1 DEF Unlink
<1>9. ren_prv' \in [Cells -> Pointers] /\ \A c \in Cells : ren_prv[c] = Null => ren_prv'[c] = Null
  <2>1. ren_prv' = IF ren_nxt[p] = Null THEN ren_prv ELSE [ren_prv EXCEPT ![ren_nxt[p]] = Null]
    BY <1>4, <1>7 DEF Unlink
  <2> QED
    BY <1>3, <2>1 DEF Pointers
<1>10. PICK t : t = SubSeq(s, i + 1, Len(s))
  OBVIOUS
<1>11. PICK L : L = [Listed EXCEPT ![d] = t]
  OBVIOUS
<1>12. PICK F : F = <<p>> \o Free
  OBVIOUS
<1>13. L = [e \in Dirs |-> L[e]] /\ L[d] = t /\ \A e \in Dirs \ {d} : L[e] = Listed[e]
  BY <1>2, <1>11 DEF Listed
<1>14. Chained(t, ren_nxt[p], ren_nxt')
  <2>1. \A k \in DOMAIN s : k > i => ren_nxt'[s[k]] = ren_nxt[s[k]]
    BY <1>3, <1>6, <1>8
  <2> QED
    BY <1>3, <1>5, <1>10, <2>1, ChainedAfter
<1>15. ASSUME NEW e \in Dirs
       PROVE  Chained(L[e], dir_renamed'[e], ren_nxt') /\ \A k \in DOMAIN L[e] : ren_prv'[L[e][k]] = Null
  <2>1. CASE e = d
    <3>1. t \in Seq(Cells) /\ \A k \in DOMAIN t : i + k \in DOMAIN s /\ t[k] = s[i + k]
      BY <1>6, <1>10, AfterProperties
    <3>2. \A k \in DOMAIN t : ren_prv[t[k]] = Null /\ t[k] \in Cells
      <4>1. \A k \in DOMAIN s : ren_prv[s[k]] = Null
        BY <1>1, <1>2, <1>3
      <4> QED
        BY <1>6, <3>1, <4>1
    <3>3. dir_renamed'[e] = ren_nxt[p]
      BY <1>2, <1>3, <1>8, <2>1
    <3> QED
      BY <1>9, <1>13, <1>14, <2>1, <3>2, <3>3
  <2>2. CASE e # d
    <3>1. L[e] = Listed[e] /\ dir_renamed'[e] = dir_renamed[e]
      BY <1>2, <1>3, <1>8, <1>13, <2>2
    <3>2. \A k \in DOMAIN Listed[e] : Listed[e][k] # p /\ Listed[e][k] \in Cells
      <4>1. \A k \in DOMAIN Listed[e] : Listed[e][k] # p
        BY <1>2, <1>20, <2>2, Owned
      <4> QED
        BY <4>1, ListedCells
    <3>3. \A k \in DOMAIN Listed[e] : ren_nxt'[Listed[e][k]] = ren_nxt[Listed[e][k]]
      BY <1>3, <1>8, <3>2
    <3>4. Chained(Listed[e], dir_renamed[e], ren_nxt')
      BY <1>3, <3>3, ChainedKept
    <3> QED
      BY <1>3, <1>9, <3>1, <3>2, <3>4
  <2> QED
    BY <2>1, <2>2
<1>16. Chained(F, ren_free', ren_nxt')
  <2>1. \A k \in DOMAIN Free : Free[k] # p /\ Free[k] \in Cells
    <3>1. \A k \in DOMAIN Free : Free[k] # p
      BY <1>2, <1>20, Owned
    <3> QED
      BY <3>1, ListedCells
  <2>2. R!NoTwice(Free) /\ Free \in Seq(Cells)
    BY ListedCells, Owned DEF R!NoTwice
  <2>3. Len(Free) < MaxCells
    BY <2>1, <2>2, RoomForMore
  <2>4. ren_nxt'[p] = ren_free /\ \A k \in DOMAIN Free : ren_nxt'[Free[k]] = ren_nxt[Free[k]]
    BY <1>3, <1>8, <2>1
  <2>5. Chained(Free, ren_free, ren_nxt)
    BY <1>3
  <2>6. Chained(<<p>> \o Free, p, ren_nxt')
    BY <2>3, <2>4, <2>5, ChainedBefore
  <2> QED
    BY <1>8, <1>12, <2>6
<1>17. Listed' = L /\ Free' = F
  BY <1>13, <1>15, <1>16, Followed
<1>18. PointersOK'
  <2>1. /\ dir_renamed' \in [Dirs -> Pointers] /\ ren_free' \in Pointers
        /\ ren_nxt' \in [Cells -> Pointers]
    BY <1>3, <1>7, <1>8 DEF Pointers
  <2> QED
    BY <1>9, <1>15, <1>16, <1>17, <2>1 DEF PointersOK
<1>19. R!Pair(h)
  <2>1. R!Found(i, h)
    BY <1>1, <1>5 DEF R!Found, Listed
  <2>2. Listed' = [Listed EXCEPT ![h.dir] = SubSeq(Listed[h.dir], i + 1, Len(Listed[h.dir]))]
    BY <1>1, <1>10, <1>11, <1>17
  <2>3. Free' = <<Listed[h.dir][i]>> \o Free
    BY <1>1, <1>5, <1>12, <1>17
  <2>4. reports' = Append(reports, R!Report(cell[Listed[h.dir][i]], h)) /\ R!Note(h, "paired")
    BY <1>1, <1>4, <1>5 DEF Report, R!Report, Note, R!Note
  <2>5. i \in DOMAIN Listed[h.dir]
    BY <1>1
  <2> QED
    BY <1>4, <2>1, <2>2, <2>3, <2>4, <2>5 DEF R!Pair, Listed, Free
<1> QED
  BY <1>18, <1>19

(* A cell that is on no list and not free is cleared and put first.  F is   *)
(* what is free then.                                                       *)
LEMMA InsertStep ==
  ASSUME ListInv, NEW h \in Halves, NEW p \in Cells, Insert(p, h),
         \A d \in Dirs : \A i \in DOMAIN Listed[d] : Listed[d][i] # p,
         ren_free' \in Pointers, NEW F, Chained(F, ren_free', ren_nxt')
  PROVE  PointersOK' /\ Free' = F /\ R!Insert(p, h)
<1>1. PICK s, d : s = Listed[h.dir] /\ d = h.dir
  OBVIOUS
<1>2. d \in Dirs
  BY <1>1 DEF Halves
<1>3. /\ \A e \in Dirs : /\ Chained(Listed[e], dir_renamed[e], ren_nxt)
                         /\ \A k \in DOMAIN Listed[e] : ren_prv[Listed[e][k]] = Null
      /\ Chained(s, dir_renamed[d], ren_nxt)
      /\ dir_renamed \in [Dirs -> Pointers]
      /\ ren_nxt \in [Cells -> Pointers] /\ ren_prv \in [Cells -> Pointers]
  BY <1>1, <1>2 DEF ListInv, PointersOK
<1>4. /\ ren_prv' = [ren_prv EXCEPT ![p] = Null]
      /\ ren_nxt' = [ren_nxt EXCEPT ![p] = dir_renamed[d]]
      /\ dir_renamed' = [dir_renamed EXCEPT ![d] = p]
  BY <1>1 DEF Insert
<1>5. \A e \in Dirs : \A k \in DOMAIN Listed[e] :
        /\ Listed[e][k] \in Cells
        /\ ren_nxt'[Listed[e][k]] = ren_nxt[Listed[e][k]]
        /\ ren_prv'[Listed[e][k]] = Null
  <2>1. \A e \in Dirs : \A k \in DOMAIN Listed[e] : Listed[e][k] \in Cells
    BY ListedCells
  <2> QED
    BY <1>3, <1>4, <2>1
<1>6. PICK t : t = <<p>> \o s
  OBVIOUS
<1>7. PICK L : L = [Listed EXCEPT ![d] = t]
  OBVIOUS
<1>8. L = [e \in Dirs |-> L[e]] /\ L[d] = t /\ \A e \in Dirs \ {d} : L[e] = Listed[e]
  BY <1>2, <1>7 DEF Listed
<1>9. Chained(t, p, ren_nxt')
  <2>1. s \in Seq(Cells) /\ R!NoTwice(s) /\ \A i \in DOMAIN s : s[i] # p
    <3>1. s \in Seq(Cells)
      BY <1>1, <1>2, ListedCells
    <3>2. R!NoTwice(s)
      BY <1>1, <1>2, Owned DEF R!NoTwice
    <3> QED
      BY <1>1, <1>2, <3>1, <3>2
  <2>2. Len(s) < MaxCells
    BY <2>1, RoomForMore
  <2>3. ren_nxt'[p] = dir_renamed[d] /\ \A k \in DOMAIN s : ren_nxt'[s[k]] = ren_nxt[s[k]]
    BY <1>1, <1>2, <1>3, <1>4, <1>5
  <2>4. Chained(s, dir_renamed[d], ren_nxt)
    BY <1>3
  <2>5. Chained(<<p>> \o s, p, ren_nxt')
    BY <2>2, <2>3, <2>4, ChainedBefore
  <2> QED
    BY <1>6, <2>5
<1>10. ASSUME NEW e \in Dirs
       PROVE  Chained(L[e], dir_renamed'[e], ren_nxt') /\ \A k \in DOMAIN L[e] : ren_prv'[L[e][k]] = Null
  <2>1. CASE e = d
    <3>1. s \in Seq(Cells)
      BY <1>3 DEF Chained
    <3>2. t[1] = p /\ \A k \in DOMAIN t : k = 1 \/ (k - 1 \in DOMAIN s /\ t[k] = s[k - 1])
      BY <1>6, <3>1, PushProperties
    <3>3. ren_prv'[p] = Null
      BY <1>3, <1>4
    <3>4. \A k \in DOMAIN s : ren_prv'[s[k]] = Null
      BY <1>1, <1>2, <1>5
    <3>5. \A k \in DOMAIN t : ren_prv'[t[k]] = Null
      BY <3>2, <3>3, <3>4
    <3>6. dir_renamed'[e] = p
      BY <1>2, <1>3, <1>4, <2>1
    <3> QED
      BY <1>8, <1>9, <2>1, <3>5, <3>6
  <2>2. CASE e # d
    <3>1. L[e] = Listed[e] /\ dir_renamed'[e] = dir_renamed[e]
      BY <1>2, <1>3, <1>4, <1>8, <2>2
    <3>2. \A k \in DOMAIN Listed[e] : ren_nxt'[Listed[e][k]] = ren_nxt[Listed[e][k]]
      BY <1>5
    <3>3. Chained(Listed[e], dir_renamed[e], ren_nxt')
      BY <1>3, <3>2, ChainedKept
    <3> QED
      BY <1>5, <3>1, <3>3
  <2> QED
    BY <2>1, <2>2
<1>11. Listed' = L /\ Free' = F
  BY <1>8, <1>10, Followed
<1>12. PointersOK'
  <2>1. /\ dir_renamed' \in [Dirs -> Pointers]
        /\ ren_nxt' \in [Cells -> Pointers]
        /\ ren_prv' \in [Cells -> Pointers]
    BY <1>2, <1>3, <1>4 DEF Pointers
  <2> QED
    BY <1>10, <1>11, <2>1 DEF PointersOK
<1>13. R!Insert(p, h)
  <2>1. Listed' = [Listed EXCEPT ![h.dir] = <<p>> \o Listed[h.dir]]
    BY <1>1, <1>6, <1>7, <1>11
  <2>2. cell' = [cell EXCEPT ![p] = h] /\ R!Note(h, "kept") /\ UNCHANGED reports
    BY DEF Insert, Note, R!Note
  <2> QED
    BY <2>1, <2>2 DEF R!Insert, Listed
<1> QED
  BY <1>11, <1>12, <1>13

LEMMA NotFoundSame ==
  ASSUME NEW h \in Halves
  PROVE  NotFound(h) <=> R!NotFound(h)
<1>1. h.dir \in Dirs
  BY DEF Halves
<1> QED
  BY <1>1 DEF NotFound, R!NotFound, Met

LEMMA NoneFree ==
  ASSUME ListInv
  PROVE  ren_free = Null <=> Free = <<>>
<1>1. Chained(Free, ren_free, ren_nxt)
  BY DEF ListInv, PointersOK
<1> QED
  BY <1>1, ChainedType

(* The first free cell is taken: what follows it is free.                   *)
LEMMA KeepInFreeCellStep ==
  ASSUME ListInv, NEW h \in Halves, KeepInFreeCell(h)
  PROVE  PointersOK' /\ R!KeepInFreeCell(h)
<1>1. PICK p : p = ren_free
  OBVIOUS
<1>2. /\ NotFound(h) /\ p # Null /\ ren_free' = ren_nxt[p] /\ Insert(p, h) /\ UNCHANGED brk
  BY <1>1 DEF KeepInFreeCell
<1>3. /\ Chained(Free, p, ren_nxt) /\ p \in Cells
      /\ ren_nxt \in [Cells -> Pointers]
  BY <1>1, <1>2 DEF ListInv, PointersOK, Pointers
<1>4. Free # <<>> /\ 1 \in DOMAIN Free /\ Free[1] = p
  <2>1. Free # <<>>
    BY <1>1, <1>2, NoneFree
  <2>2. 1 \in DOMAIN Free
    BY <1>3, <2>1, ChainedType
  <2> QED
    BY <1>3, <2>1, <2>2 DEF Chained
<1>5. \A d \in Dirs : \A i \in DOMAIN Listed[d] : Listed[d][i] # p
  BY <1>4, Owned
<1>6. Chained(Tail(Free), ren_nxt[p], ren_nxt')
  <2>1. \A i \in DOMAIN Free : Free[i] \in Cells
    BY ListedCells
  <2>2. \A i \in DOMAIN Free : i # 1 => Free[i] # p
    BY <1>4, Owned
  <2>3. DOMAIN Free \subseteq Nat
    BY <1>3, ChainedType
  <2>4. \A k \in DOMAIN Free : k > 1 => ren_nxt'[Free[k]] = ren_nxt[Free[k]]
    BY <1>2, <1>3, <2>1, <2>2, <2>3 DEF Insert
  <2> QED
    BY <1>3, <1>4, <2>4, ChainedTail
<1>7. ren_free' \in Pointers /\ Chained(Tail(Free), ren_free', ren_nxt')
  BY <1>2, <1>3, <1>6
<1>8. PointersOK' /\ Free' = Tail(Free) /\ R!Insert(p, h)
  BY <1>2, <1>3, <1>5, <1>7, InsertStep
<1>9. Head(Free) = p
  <2>1. Free \in Seq(Cells)
    BY ListedCells
  <2> QED
    BY <1>4, <2>1, PopProperties
<1> QED
  BY <1>2, <1>4, <1>8, <1>9, NotFoundSame DEF R!KeepInFreeCell, Free

(* The cell malloc gives is on no list, as those exist.                     *)
LEMMA KeepInNewCellStep ==
  ASSUME ListInv, NEW h \in Halves, KeepInNewCell(h)
  PROVE  PointersOK' /\ R!KeepInNewCell(h)
<1>1. /\ NotFound(h) /\ ren_free = Null /\ brk < MaxCells /\ brk' = brk + 1
      /\ Insert(brk + 1, h) /\ UNCHANGED ren_free
  BY DEF KeepInNewCell
<1>2. brk \in Nat /\ brk + 1 \in Cells
  <2>1. brk \in PoolSize .. MaxCells
    BY Owned
  <2> QED
    BY <1>1, <2>1, RenameListAssumption DEF Cells
<1>3. \A d \in Dirs : \A i \in DOMAIN Listed[d] : Listed[d][i] # brk + 1
  <2>1. \A d \in Dirs : \A i \in DOMAIN Listed[d] : Listed[d][i] <= brk
    BY Owned
  <2> QED
    BY <1>2, <2>1
<1>4. Chained(<<>>, ren_free', ren_nxt') /\ ren_free' \in Pointers
  BY <1>1, RenameListAssumption DEF Chained, Pointers
<1>5. PointersOK' /\ Free' = <<>> /\ R!Insert(brk + 1, h)
  BY <1>1, <1>2, <1>3, <1>4, InsertStep
<1>6. Free = <<>>
  BY <1>1, NoneFree
<1> QED
  BY <1>1, <1>5, <1>6, NotFoundSame DEF R!KeepInNewCell, Free

LEMMA SkipHalfStep ==
  ASSUME ListInv, NEW h \in Halves, SkipHalf(h)
  PROVE  PointersOK' /\ R!SkipHalf(h)
<1>1. /\ NotFound(h) /\ ren_free = Null /\ Note(h, "skipped")
      /\ UNCHANGED <<dir_renamed, ren_nxt, ren_prv, ren_free, cell, brk, reports>>
  BY DEF SkipHalf
<1>2. PICK L : L = Listed
  OBVIOUS
<1>3. L = [d \in Dirs |-> L[d]] /\ \A d \in Dirs : Chained(L[d], dir_renamed'[d], ren_nxt')
  BY <1>1, <1>2 DEF Listed, ListInv, PointersOK
<1>4. Chained(Free, ren_free', ren_nxt')
  BY <1>1 DEF ListInv, PointersOK
<1>5. Listed' = Listed /\ Free' = Free
  BY <1>2, <1>3, <1>4, Followed
<1>6. PointersOK'
  BY <1>1, <1>5 DEF ListInv, PointersOK
<1>7. Free = <<>> /\ R!NotFound(h)
  BY <1>1, NoneFree, NotFoundSame
<1>8. R!SkipHalf(h)
  BY <1>1, <1>5, <1>7 DEF R!SkipHalf, Listed, Free, Note, R!Note
<1> QED
  BY <1>6, <1>8

(* The directories go, their cells stay where they were.                    *)
LEMMA PurgeStep ==
  ASSUME ListInv, Purge
  PROVE  PointersOK' /\ R!Purge
<1>1. PICK L : L = [d \in Dirs |-> <<>>]
  OBVIOUS
<1>2. L = [d \in Dirs |-> L[d]] /\ \A d \in Dirs : L[d] = <<>> /\ DOMAIN L[d] = {}
  BY <1>1
<1>3. /\ dir_renamed' = [d \in Dirs |-> Null]
      /\ UNCHANGED <<ren_nxt, ren_prv, ren_free, cell, brk, reports>>
      /\ Note(NoHalf, "purge")
  BY DEF Purge
<1>4. \A d \in Dirs : Chained(L[d], dir_renamed'[d], ren_nxt')
  <2>1. Chained(<<>>, Null, ren_nxt')
    BY RenameListAssumption DEF Chained
  <2>2. \A d \in Dirs : L[d] = <<>> /\ dir_renamed'[d] = Null
    BY <1>2, <1>3
  <2> QED
    BY <2>1, <2>2
<1>5. Chained(Free, ren_free', ren_nxt')
  BY <1>3 DEF ListInv, PointersOK
<1>6. Listed' = L /\ Free' = Free
  BY <1>2, <1>4, <1>5, Followed
<1>7. PointersOK'
  <2>1. /\ dir_renamed' \in [Dirs -> Pointers] /\ ren_free' \in Pointers
        /\ ren_nxt' \in [Cells -> Pointers] /\ ren_prv' \in [Cells -> Pointers]
    BY <1>3 DEF ListInv, PointersOK, Pointers
  <2> QED
    BY <1>2, <1>4, <1>5, <1>6, <2>1 DEF PointersOK
<1> QED
  BY <1>1, <1>3, <1>6, <1>7 DEF R!Purge, Listed, Free, Note, R!Note

LEMMA ListSame ==
  ASSUME ListInv, UNCHANGED vars
  PROVE  PointersOK' /\ UNCHANGED R!vars
<1>1. UNCHANGED <<dir_renamed, ren_nxt, ren_prv, ren_free, cell, brk, reports, history>>
  BY DEF vars
<1>2. \A d \in Dirs : Chained(Listed[d], dir_renamed'[d], ren_nxt')
  BY <1>1 DEF ListInv, PointersOK
<1>3. Chained(Free, ren_free', ren_nxt')
  BY <1>1 DEF ListInv, PointersOK
<1>4. PICK L : L = Listed
  OBVIOUS
<1>5. L = [d \in Dirs |-> L[d]] /\ \A d \in Dirs : Chained(L[d], dir_renamed'[d], ren_nxt')
  BY <1>2, <1>4 DEF Listed
<1>6. Listed' = Listed /\ Free' = Free
  BY <1>3, <1>4, <1>5, Followed
<1>7. PointersOK'
  BY <1>1, <1>6 DEF ListInv, PointersOK
<1> QED
  BY <1>1, <1>6, <1>7 DEF R!vars, Listed, Free

(* The static cells, chained from the first to the last.                    *)
LEMMA ListInit == Init => ListInv /\ R!Init
<1> SUFFICES ASSUME Init PROVE ListInv /\ R!Init
  OBVIOUS
<1>1. /\ dir_renamed = [d \in Dirs |-> Null]
      /\ ren_nxt = [c \in Cells |-> IF c < PoolSize THEN c + 1 ELSE Null]
      /\ ren_prv = [c \in Cells |-> IF c <= PoolSize THEN c - 1 ELSE Null]
      /\ ren_free = IF PoolSize = 0 THEN Null ELSE 1
  BY DEF Init
<1>2. PICK F : F = [i \in 1 .. PoolSize |-> i]
  OBVIOUS
<1>3. /\ F \in Seq(Cells) /\ Len(F) = PoolSize /\ DOMAIN F = 1 .. PoolSize
      /\ \A i \in DOMAIN F : F[i] = i /\ i \in Cells
      /\ F = <<>> <=> PoolSize = 0
  <2>1. \A i \in 1 .. PoolSize : i \in Cells
    BY RenameListAssumption DEF Cells
  <2>2. F \in [1 .. PoolSize -> Cells] /\ \A i \in 1 .. PoolSize : F[i] = i
    BY <1>2, <2>1
  <2>3. F \in Seq(Cells)
    BY <2>2, RenameListAssumption, SeqDef
  <2>4. Len(F) = PoolSize
    BY <2>2, <2>3, RenameListAssumption, LenProperties
  <2> QED
    BY <2>1, <2>2, <2>3, <2>4, EmptySeq
<1>4. Chained(F, ren_free, ren_nxt)
  <2>1. F # <<>> => F[1] = 1
    BY <1>3, RenameListAssumption
  <2>2. \A i \in DOMAIN F : ren_nxt[F[i]] = IF i = Len(F) THEN Null ELSE F[i + 1]
    <3> SUFFICES ASSUME NEW i \in DOMAIN F
                 PROVE  ren_nxt[F[i]] = IF i = Len(F) THEN Null ELSE F[i + 1]
      OBVIOUS
    <3>1. i \in 1 .. PoolSize /\ F[i] = i /\ i \in Cells /\ i \in Nat
      BY <1>3
    <3>2. ren_nxt[F[i]] = IF i < PoolSize THEN i + 1 ELSE Null
      BY <1>1, <3>1
    <3>3. i # Len(F) => i < PoolSize /\ F[i + 1] = i + 1
      <4>1. i # Len(F) => i < PoolSize /\ i + 1 \in 1 .. PoolSize
        BY <1>3, <3>1, RenameListAssumption
      <4> QED
        BY <1>3, <4>1
    <3>4. i = Len(F) => ~(i < PoolSize)
      BY <1>3, <3>1, RenameListAssumption
    <3> QED
      BY <3>2, <3>3, <3>4
  <2> QED
    BY <1>1, <1>3, <2>1, <2>2, RenameListAssumption DEF Chained
<1>5. Free = F
  BY <1>4, WalkMeets DEF ChainsAre, Free
<1>6. Chained(<<>>, Null, ren_nxt)
  BY RenameListAssumption DEF Chained
<1>7. Listed = [d \in Dirs |-> <<>>]
  <2>1. Chain(Null) = <<>>
    BY <1>6, WalkMeets DEF ChainsAre
  <2> QED
    BY <1>1, <2>1 DEF Listed
<1>8. R!Init
  BY <1>2, <1>5, <1>7 DEF Init, R!Init, Listed, Free, R!Cells, Cells
<1>9. R!OwnedInv
  BY <1>8, R!OwnedInit, AssumptionOfRenames
<1>10. PointersOK
  <2>1. dir_renamed \in [Dirs -> Pointers]
    BY <1>1 DEF Pointers
  <2>2. ren_nxt \in [Cells -> Pointers]
    BY <1>1, RenameListAssumption DEF Pointers, Cells, Null
  <2>3. ren_prv \in [Cells -> Pointers]
    BY <1>1, RenameListAssumption DEF Pointers, Cells, Null
  <2>4. ren_free \in Pointers
    BY <1>1, RenameListAssumption DEF Pointers, Cells, Null
  <2>5. \A d \in Dirs : Chained(Listed[d], dir_renamed[d], ren_nxt) /\ DOMAIN Listed[d] = {}
    <3>1. \A d \in Dirs : Listed[d] = <<>> /\ dir_renamed[d] = Null
      BY <1>1, <1>7
    <3>2. DOMAIN <<>> = {}
      OBVIOUS
    <3> QED
      BY <1>6, <3>1, <3>2
  <2> QED
    BY <1>4, <1>5, <2>1, <2>2, <2>3, <2>4, <2>5 DEF PointersOK
<1> QED
  BY <1>8, <1>9, <1>10 DEF ListInv

LEMMA SomePending ==
  ASSUME ListInv
  PROVE  (\E d \in Dirs : dir_renamed[d] # Null) <=> \E d \in Dirs : Listed[d] # <<>>
<1>1. \A d \in Dirs : Chained(Listed[d], dir_renamed[d], ren_nxt)
  BY DEF ListInv, PointersOK
<1> QED
  BY <1>1, ChainedType

(* Every step of the pointers is one of the lists.                          *)
LEMMA ListStep == ListInv /\ [Next]_vars => ListInv' /\ [R!Next]_(R!vars)
<1> SUFFICES ASSUME ListInv, [Next]_vars PROVE ListInv' /\ [R!Next]_(R!vars)
  OBVIOUS
<1>1. ASSUME NEW h \in Halves, Fresh(h), MoveEvent(h)
      PROVE  PointersOK' /\ R!Next
  <2>1. PointersOK' /\ R!MoveEvent(h)
    <3>1. CASE Pair(h)
      BY <3>1, PairStep DEF R!MoveEvent
    <3>2. CASE KeepInFreeCell(h)
      BY <3>2, KeepInFreeCellStep DEF R!MoveEvent
    <3>3. CASE KeepInNewCell(h)
      BY <3>3, KeepInNewCellStep DEF R!MoveEvent
    <3>4. CASE SkipHalf(h)
      BY <3>4, SkipHalfStep DEF R!MoveEvent
    <3> QED
      BY <1>1, <3>1, <3>2, <3>3, <3>4 DEF MoveEvent
  <2>2. h \in R!Halves /\ R!Fresh(h)
    BY <1>1 DEF Halves, R!Halves, Sides, R!Sides, Fresh, R!Fresh
  <2> QED
    BY <2>1, <2>2 DEF R!Next
<1>2. ASSUME Purge, \E d \in Dirs : dir_renamed[d] # Null
      PROVE  PointersOK' /\ R!Next
  <2>1. \E d \in Dirs : Listed[d] # <<>>
    BY <1>2, SomePending
  <2> QED
    BY <1>2, <2>1, PurgeStep DEF R!Next, Listed
<1>3. PointersOK' /\ [R!Next]_(R!vars)
  BY <1>1, <1>2, ListSame DEF Next
<1>4. R!OwnedInv'
  <2>1. R!Happens
    BY <1>3, R!NextHappens, AssumptionOfRenames
  <2> QED
    BY <2>1, R!OwnedStep, AssumptionOfRenames DEF ListInv
<1> QED
  BY <1>3, <1>4 DEF ListInv

(* R and Lists are the same instance of Renames.                            *)
LEMMA SameRenames == /\ R!Init => Lists!Init
                     /\ [R!Next]_(R!vars) => [Lists!Next]_(Lists!vars)
<1>1. R!Init => Lists!Init
  BY DEF R!Init, Lists!Init, R!Cells, Lists!Cells
<1>2. ASSUME NEW h \in R!Halves, R!Fresh(h), R!MoveEvent(h)
      PROVE  h \in Lists!Halves /\ Lists!Fresh(h) /\ Lists!MoveEvent(h)
  <2>1. h \in Lists!Halves /\ Lists!Fresh(h)
    BY <1>2 DEF R!Halves, Lists!Halves, R!Sides, Lists!Sides, R!Fresh, Lists!Fresh
  <2>2. R!Pair(h) => Lists!Pair(h)
    BY DEF R!Pair, Lists!Pair, R!Found, Lists!Found, R!Report, Lists!Report, R!Note, Lists!Note
  <2>3. R!NotFound(h) <=> Lists!NotFound(h)
    BY DEF R!NotFound, Lists!NotFound
  <2>4. \A c : R!Insert(c, h) <=> Lists!Insert(c, h)
    BY DEF R!Insert, Lists!Insert, R!Note, Lists!Note
  <2>5. R!KeepInFreeCell(h) => Lists!KeepInFreeCell(h)
    BY <2>3, <2>4 DEF R!KeepInFreeCell, Lists!KeepInFreeCell
  <2>6. R!KeepInNewCell(h) => Lists!KeepInNewCell(h)
    BY <2>3, <2>4 DEF R!KeepInNewCell, Lists!KeepInNewCell
  <2>7. R!SkipHalf(h) => Lists!SkipHalf(h)
    BY <2>3 DEF R!SkipHalf, Lists!SkipHalf, R!Note, Lists!Note
  <2> QED
    BY <1>2, <2>1, <2>2, <2>5, <2>6, <2>7 DEF R!MoveEvent, Lists!MoveEvent
<1>3. R!Purge => Lists!Purge
  BY DEF R!Purge, Lists!Purge, R!Note, Lists!Note
<1>4. UNCHANGED R!vars => UNCHANGED Lists!vars
  BY DEF R!vars, Lists!vars
<1> QED
  BY <1>1, <1>2, <1>3, <1>4 DEF R!Next, Lists!Next

LEMMA ListAlways == Spec => []ListInv
BY ListInit, ListStep, PTL DEF Spec

(* The pointers do exactly what the sequences of Renames do: every step of  *)
(* the search, the unlinking and the insertion on ren_nxt and ren_prv is    *)
(* the step of the sequences, so no list gets a cycle or joins another one  *)
(* and all that is proved of Renames is true of the pointers.               *)
THEOREM ImplementsRenames == Spec => RenamesSpec
<1>1. Spec => Lists!Init /\ [][Lists!Next]_(Lists!vars)
  BY ListInit, ListStep, SameRenames, PTL DEF Spec
<1> QED
  BY <1>1 DEF RenamesSpec, Lists!Spec

(* What this gives of the pointers at once: each report joins the two       *)
(* halves of one rename.                                                    *)
THEOREM PointersFaithful == Spec => []Lists!ReportsFaithful
<1>1. Spec => R!Spec
  BY ListInit, ListStep, PTL DEF Spec, R!Spec
<1>2. R!Spec => []R!ReportsFaithful
  BY R!Faithful, AssumptionOfRenames
<1>3. R!ReportsFaithful => Lists!ReportsFaithful
  BY DEF R!ReportsFaithful, Lists!ReportsFaithful, R!Partners, Lists!Partners, R!WasRead, Lists!WasRead
<1> QED
  BY <1>1, <1>2, <1>3, PTL

-----------------------------------------------------------------------------
(***************************************************************************)
(* No cell is lost while each half is paired before another one of its      *)
(* directory comes.  Then a list never has two cells, so that nothing is in *)
(* front of the cell that Pair unlinks.  That an insertion finds the list   *)
(* empty is because the half on it has been waiting since it was kept.      *)
(***************************************************************************)
Waits(k, d) ==
  /\ history[k].fate = "kept"
  /\ history[k].half.dir = d
  /\ history[k].half = cell[Listed[d][1]]
  /\ \A m \in k + 1 .. Len(history) : ~Lists!Partners(history[k].half, history[m].half)

NoneLost ==
  \A c \in 1 .. brk : \/ \E i \in DOMAIN Free : Free[i] = c
                      \/ \E d \in Dirs : \E i \in DOMAIN Listed[d] : Listed[d][i] = c

OneEach ==
  \A d \in Dirs : \/ Listed[d] = <<>>
                  \/ Len(Listed[d]) = 1 /\ \E k \in DOMAIN history : Waits(k, d)

TurnInv == InTurn => NoneLost /\ OneEach

LEMMA TurnInit == Init => TurnInv
<1> SUFFICES ASSUME Init PROVE NoneLost /\ OneEach
  BY DEF TurnInv
<1>1. ListInv /\ R!Init
  BY ListInit
<1>2. Listed = [d \in Dirs |-> <<>>] /\ Free = [i \in 1 .. PoolSize |-> i] /\ brk = PoolSize
  BY <1>1 DEF R!Init, Listed, Free
<1> QED
  BY <1>2 DEF NoneLost, OneEach

(* One more entry: they came in their turn before it too.                   *)
LEMMA TurnNote ==
  ASSUME ListInv, NEW h \in Halves \cup {NoHalf}, NEW f \in R!Fates, Note(h, f), InTurn'
  PROVE  /\ InTurn
         /\ f # "purge"
         /\ Len(history) \in Nat /\ DOMAIN history = 1 .. Len(history)
         /\ DOMAIN history' = 1 .. Len(history) + 1
         /\ Len(history') = Len(history) + 1
         /\ history'[Len(history) + 1].half = h /\ history'[Len(history) + 1].fate = f
         /\ \A k \in 1 .. Len(history) : history'[k] = history[k]
         /\ f = "kept" =>
              \A k \in 1 .. Len(history) :
                history[k].fate = "kept" /\ history[k].half.dir = h.dir =>
                  \E m \in k + 1 .. Len(history) : Lists!Partners(history[k].half, history[m].half)
<1>1. PICK n : n = Len(history)
  OBVIOUS
<1>2. PICK x : x = [half |-> h, fate |-> f]
  OBVIOUS
<1>3. x \in R!Entries /\ x.half = h /\ x.fate = f
  BY <1>2 DEF R!Entries, Halves, R!Halves, Sides, R!Sides
<1>4. history \in Seq(R!Entries) /\ history' = Append(history, x)
  BY <1>2 DEF Note, ListInv, R!OwnedInv, R!TypeInv, R!TypeOK
<1>5. /\ history' \in Seq(R!Entries)
      /\ Len(history') = n + 1
      /\ history'[n + 1] = x
      /\ n \in Nat /\ DOMAIN history = 1 .. n
      /\ \A k \in 1 .. n : history'[k] = history[k]
  BY <1>1, <1>3, <1>4, AppendTo, LenProperties
<1>6. DOMAIN history' = 1 .. n + 1
  BY <1>5, LenProperties
<1>7. \A k, l \in 1 .. n + 1 :
        /\ history'[k].fate # "purge"
        /\ k < l /\ history'[k].fate = "kept" /\ history'[l].fate = "kept"
           /\ history'[k].half.dir = history'[l].half.dir
           => \E m \in k + 1 .. l - 1 : Lists!Partners(history'[k].half, history'[m].half)
  BY <1>6 DEF InTurn, Lists!Partners
<1>8. \A k, l \in 1 .. n : \A m \in k + 1 .. l - 1 : m \in 1 .. n
  BY <1>5
<1>9. \A k \in 1 .. n : k \in 1 .. n + 1
  BY <1>5
<1>10. InTurn
  <2> SUFFICES ASSUME NEW k \in 1 .. n, NEW l \in 1 .. n
               PROVE  /\ history[k].fate # "purge"
                      /\ k < l /\ history[k].fate = "kept" /\ history[l].fate = "kept"
                         /\ history[k].half.dir = history[l].half.dir
                         => \E m \in k + 1 .. l - 1 : Lists!Partners(history[k].half, history[m].half)
    BY <1>5 DEF InTurn
  <2>1. history'[k] = history[k] /\ history'[l] = history[l]
    BY <1>5
  <2>2. \A m \in k + 1 .. l - 1 : history'[m] = history[m]
    BY <1>5, <1>8
  <2>3. k \in 1 .. n + 1 /\ l \in 1 .. n + 1
    BY <1>9
  <2> QED
    BY <1>7, <2>1, <2>2, <2>3
<1>11. f # "purge"
  <2>1. n + 1 \in 1 .. n + 1
    BY <1>5
  <2> QED
    BY <1>3, <1>5, <1>7, <2>1
<1>12. ASSUME f = "kept", NEW k \in 1 .. n, history[k].fate = "kept", history[k].half.dir = h.dir
       PROVE  \E m \in k + 1 .. n : Lists!Partners(history[k].half, history[m].half)
  <2>1. n + 1 \in 1 .. n + 1 /\ k \in 1 .. n + 1 /\ k < n + 1 /\ (n + 1) - 1 = n
    BY <1>5
  <2>2. history'[k] = history[k] /\ history'[n + 1] = x
    BY <1>5
  <2>3. \E m \in k + 1 .. (n + 1) - 1 : Lists!Partners(history'[k].half, history'[m].half)
    BY <1>3, <1>7, <1>12, <2>1, <2>2
  <2>4. \A m \in k + 1 .. n : history'[m] = history[m]
    BY <1>5
  <2> QED
    BY <2>1, <2>2, <2>3, <2>4
<1> QED
  BY <1>1, <1>3, <1>5, <1>6, <1>10, <1>11, <1>12

(* A half that waits in another directory goes on waiting.                  *)
LEMMA WaitsOn ==
  ASSUME ListInv, NEW h \in Halves, NEW f \in R!Fates, Note(h, f), InTurn',
         NEW d \in Dirs, Listed'[d] = Listed[d], cell'[Listed[d][1]] = cell[Listed[d][1]],
         NEW k \in DOMAIN history, Waits(k, d),
         ~Lists!Partners(cell[Listed[d][1]], h)
  PROVE  k \in DOMAIN history' /\ Waits(k, d)'
<1>1. PICK n : n = Len(history)
  OBVIOUS
<1>2. /\ n \in Nat /\ k \in 1 .. n
      /\ DOMAIN history' = 1 .. n + 1 /\ Len(history') = n + 1
      /\ history'[n + 1].half = h
      /\ \A m \in 1 .. n : history'[m] = history[m]
  BY <1>1, TurnNote
<1>3. history'[k] = history[k] /\ k \in 1 .. n + 1
  BY <1>2
<1>4. ASSUME NEW m \in k + 1 .. n + 1
      PROVE  ~Lists!Partners(history'[k].half, history'[m].half)
  <2>1. CASE m = n + 1
    BY <1>2, <1>3, <2>1 DEF Waits
  <2>2. CASE m # n + 1
    <3>1. m \in k + 1 .. n /\ m \in 1 .. n
      BY <1>2, <2>2
    <3> QED
      BY <1>1, <1>2, <1>3, <3>1 DEF Waits
  <2> QED
    BY <2>1, <2>2
<1>5. /\ history'[k].fate = "kept"
      /\ history'[k].half.dir = d
      /\ history'[k].half = cell'[Listed'[d][1]]
  BY <1>3 DEF Waits
<1> QED
  BY <1>2, <1>3, <1>4, <1>5 DEF Waits, Lists!Partners

(* The halves of the other directories wait on, whatever is done with h.    *)
LEMMA OthersWaitOn ==
  ASSUME ListInv, NEW h \in Halves, NEW f \in R!Fates, Note(h, f), InTurn',
         NEW d \in Dirs, d # h.dir, Listed'[d] = Listed[d],
         \A i \in DOMAIN Listed[d] : cell'[Listed[d][i]] = cell[Listed[d][i]],
         Listed[d] = <<>> \/ (Len(Listed[d]) = 1 /\ \E k \in DOMAIN history : Waits(k, d))
  PROVE  Listed'[d] = <<>> \/ (Len(Listed'[d]) = 1 /\ \E k \in DOMAIN history' : Waits(k, d)')
<1>1. CASE Listed[d] = <<>>
  BY <1>1
<1>2. CASE Len(Listed[d]) = 1 /\ \E k \in DOMAIN history : Waits(k, d)
  <2>1. PICK k \in DOMAIN history : Waits(k, d)
    BY <1>2
  <2>2. 1 \in DOMAIN Listed[d]
    <3>1. DOMAIN Listed[d] = 1 .. Len(Listed[d])
      BY ListedCells
    <3> QED
      BY <1>2, <3>1
  <2>3. ~Lists!Partners(cell[Listed[d][1]], h)
    BY <2>1 DEF Waits, Lists!Partners
  <2>4. k \in DOMAIN history' /\ Waits(k, d)'
    BY <2>1, <2>2, <2>3, WaitsOn
  <2> QED
    BY <1>2, <2>4
<1> QED
  BY <1>1, <1>2

(* Nothing is in front of the cell that is unlinked, and nothing behind it. *)
LEMMA PairTurn ==
  ASSUME ListInv, TurnInv, NEW h \in Halves, R!Pair(h), InTurn'
  PROVE  NoneLost' /\ OneEach'
<1>1. PICK d : d = h.dir
  OBVIOUS
<1>2. d \in Dirs
  BY <1>1 DEF Halves
<1>3. PICK i \in DOMAIN Listed[d] :
        /\ Listed' = [Listed EXCEPT ![d] = SubSeq(Listed[d], i + 1, Len(Listed[d]))]
        /\ Free' = <<Listed[d][i]>> \o Free
        /\ Note(h, "paired")
        /\ UNCHANGED <<brk, cell>>
  BY <1>1 DEF R!Pair, R!Note, Note, Listed, Free
<1>4. "paired" \in R!Fates
  BY DEF R!Fates
<1>5. NoneLost /\ OneEach
  BY <1>3, <1>4, TurnNote DEF TurnInv
<1>6. /\ Listed[d] \in Seq(Cells) /\ DOMAIN Listed[d] = 1 .. Len(Listed[d])
      /\ Listed[d][i] \in Cells
      /\ Free \in Seq(Cells)
  BY <1>2, <1>3, ListedCells
<1>7. Len(Listed[d]) = 1 /\ i = 1
  <2>1. Listed[d] # <<>>
    BY <1>3
  <2>2. Len(Listed[d]) = 1
    BY <1>2, <1>5, <2>1 DEF OneEach
  <2> QED
    BY <1>3, <1>6, <2>2
<1>8. Listed'[d] = <<>>
  <2>1. PICK t : t = SubSeq(Listed[d], i + 1, Len(Listed[d]))
    OBVIOUS
  <2>2. t \in Seq(Cells) /\ Len(t) = Len(Listed[d]) - i
    BY <1>3, <1>6, <2>1, AfterProperties
  <2>3. t = <<>>
    BY <1>7, <2>2, EmptySeq
  <2> QED
    BY <1>2, <1>3, <2>1, <2>3 DEF Listed
<1>9. \A e \in Dirs \ {d} : Listed'[e] = Listed[e]
  BY <1>3 DEF Listed
<1>10. /\ 1 \in DOMAIN Free' /\ Free'[1] = Listed[d][1]
       /\ \A k \in DOMAIN Free : k + 1 \in DOMAIN Free' /\ Free'[k + 1] = Free[k]
  <2>1. PICK t : t = <<Listed[d][i]>> \o Free
    OBVIOUS
  <2>2. /\ t \in Seq(Cells) /\ Len(t) = Len(Free) + 1 /\ t[1] = Listed[d][i]
        /\ \A k \in DOMAIN t : k = 1 \/ (k - 1 \in DOMAIN Free /\ t[k] = Free[k - 1])
    BY <1>6, <2>1, PushProperties
  <2>3. DOMAIN t = 1 .. Len(Free) + 1 /\ DOMAIN Free = 1 .. Len(Free) /\ Len(Free) \in Nat
    BY <1>6, <2>2, LenProperties
  <2>4. \A k \in DOMAIN Free : k + 1 \in DOMAIN t /\ k + 1 # 1 /\ (k + 1) - 1 = k
    BY <2>3
  <2>5. \A k \in DOMAIN Free : k + 1 \in DOMAIN t /\ t[k + 1] = Free[k]
    BY <2>2, <2>4
  <2>6. 1 \in DOMAIN t
    BY <2>3
  <2> QED
    BY <1>3, <1>7, <2>1, <2>2, <2>5, <2>6
<1>11. NoneLost'
  <2> SUFFICES ASSUME NEW c \in 1 .. brk
               PROVE  \/ \E k \in DOMAIN Free' : Free'[k] = c
                      \/ \E e \in Dirs : \E k \in DOMAIN Listed'[e] : Listed'[e][k] = c
    BY <1>3 DEF NoneLost
  <2>1. CASE \E k \in DOMAIN Free : Free[k] = c
    BY <1>10, <2>1
  <2>2. ASSUME NEW e \in Dirs, NEW k \in DOMAIN Listed[e], Listed[e][k] = c
        PROVE  \/ \E j \in DOMAIN Free' : Free'[j] = c
               \/ \E g \in Dirs : \E j \in DOMAIN Listed'[g] : Listed'[g][j] = c
    <3>1. CASE e = d
      <4>1. k = 1
        BY <1>6, <1>7, <3>1
      <4> QED
        BY <1>10, <2>2, <3>1, <4>1
    <3>2. CASE e # d
      BY <1>9, <2>2, <3>2
    <3> QED
      BY <3>1, <3>2
  <2> QED
    BY <1>5, <2>1, <2>2 DEF NoneLost
<1>12. OneEach'
  <2> SUFFICES ASSUME NEW e \in Dirs
               PROVE  \/ Listed'[e] = <<>>
                      \/ Len(Listed'[e]) = 1 /\ \E k \in DOMAIN history' : Waits(k, e)'
    BY DEF OneEach
  <2>1. CASE e = d
    BY <1>8, <2>1
  <2>2. CASE e # d
    <3>1. Listed[e] = <<>> \/ (Len(Listed[e]) = 1 /\ \E k \in DOMAIN history : Waits(k, e))
      BY <1>5 DEF OneEach
    <3>2. \A k \in DOMAIN Listed[e] : cell'[Listed[e][k]] = cell[Listed[e][k]]
      BY <1>3
    <3>3. Listed'[e] = Listed[e]
      BY <1>9, <2>2
    <3> QED
      BY <1>1, <1>3, <1>4, <2>2, <3>1, <3>2, <3>3, OthersWaitOn
  <2> QED
    BY <2>1, <2>2
<1> QED
  BY <1>11, <1>12

(* The list is empty when a half is put on it.                              *)
LEMMA InsertTurn ==
  ASSUME ListInv, TurnInv, NEW h \in Halves, NEW p \in Cells, R!Insert(p, h), InTurn',
         \A d \in Dirs : \A i \in DOMAIN Listed[d] : Listed[d][i] # p,
         \A i \in DOMAIN Free : Free[i] = p \/ \E j \in DOMAIN Free' : Free'[j] = Free[i],
         \A c \in 1 .. brk' : c \in 1 .. brk \/ c = p
  PROVE  NoneLost' /\ OneEach'
<1>1. PICK d : d = h.dir
  OBVIOUS
<1>2. d \in Dirs
  BY <1>1 DEF Halves
<1>3. /\ Listed' = [Listed EXCEPT ![d] = <<p>> \o Listed[d]]
      /\ cell' = [cell EXCEPT ![p] = h]
      /\ Note(h, "kept")
  BY <1>1 DEF R!Insert, R!Note, Note, Listed
<1>4. "kept" \in R!Fates
  BY DEF R!Fates
<1>5. PICK n : n = Len(history)
  OBVIOUS
<1>6. /\ InTurn /\ n \in Nat /\ DOMAIN history = 1 .. n
      /\ DOMAIN history' = 1 .. n + 1 /\ Len(history') = n + 1
      /\ history'[n + 1].half = h /\ history'[n + 1].fate = "kept"
      /\ \A k \in 1 .. n :
           history[k].fate = "kept" /\ history[k].half.dir = h.dir =>
             \E m \in k + 1 .. n : Lists!Partners(history[k].half, history[m].half)
  BY <1>3, <1>4, <1>5, TurnNote
<1>7. NoneLost /\ OneEach
  BY <1>6 DEF TurnInv
<1>8. Listed[d] = <<>>
  <2> SUFFICES ASSUME Listed[d] # <<>> PROVE FALSE
    OBVIOUS
  <2>1. PICK k \in DOMAIN history : Waits(k, d)
    BY <1>2, <1>7 DEF OneEach
  <2>2. \E m \in k + 1 .. n : Lists!Partners(history[k].half, history[m].half)
    BY <1>1, <1>6, <2>1 DEF Waits
  <2> QED
    BY <1>5, <2>1, <2>2 DEF Waits
<1>9. Listed'[d] = <<p>>
  <2>1. <<p>> \o <<>> = <<p>>
    OBVIOUS
  <2> QED
    BY <1>2, <1>3, <1>8, <2>1 DEF Listed
<1>10. \A e \in Dirs \ {d} : Listed'[e] = Listed[e]
  BY <1>3 DEF Listed
<1>11. cell'[p] = h
  <2>1. cell \in [Cells -> Halves \cup {NoHalf}]
    BY Owned
  <2> QED
    BY <1>3, <2>1
<1>12. NoneLost'
  <2> SUFFICES ASSUME NEW c \in 1 .. brk'
               PROVE  \/ \E k \in DOMAIN Free' : Free'[k] = c
                      \/ \E e \in Dirs : \E k \in DOMAIN Listed'[e] : Listed'[e][k] = c
    BY DEF NoneLost
  <2>1. CASE c = p
    <3>1. 1 \in DOMAIN Listed'[d] /\ Listed'[d][1] = p
      BY <1>9
    <3> QED
      BY <1>2, <2>1, <3>1
  <2>2. CASE c # p
    <3>1. \/ \E k \in DOMAIN Free : Free[k] = c
          \/ \E e \in Dirs : \E k \in DOMAIN Listed[e] : Listed[e][k] = c
      BY <1>7, <2>2 DEF NoneLost
    <3>2. CASE \E k \in DOMAIN Free : Free[k] = c
      BY <2>2, <3>2
    <3>3. ASSUME NEW e \in Dirs, NEW k \in DOMAIN Listed[e], Listed[e][k] = c
          PROVE  \E g \in Dirs : \E j \in DOMAIN Listed'[g] : Listed'[g][j] = c
      <4>1. DOMAIN <<>> = {}
        OBVIOUS
      <4>2. e # d
        BY <1>8, <3>3, <4>1
      <4> QED
        BY <1>10, <3>3, <4>2
    <3> QED
      BY <3>1, <3>2, <3>3
  <2> QED
    BY <2>1, <2>2
<1>13. OneEach'
  <2> SUFFICES ASSUME NEW e \in Dirs
               PROVE  \/ Listed'[e] = <<>>
                      \/ Len(Listed'[e]) = 1 /\ \E k \in DOMAIN history' : Waits(k, e)'
    BY DEF OneEach
  <2>1. CASE e = d
    <3>1. Len(Listed'[e]) = 1 /\ Listed'[e][1] = p
      BY <1>9, <2>1
    <3>2. n + 1 \in DOMAIN history' /\ (n + 1) + 1 .. n + 1 = {}
      BY <1>6
    <3>3. Waits(n + 1, e)'
      BY <1>1, <1>6, <1>11, <2>1, <3>1, <3>2 DEF Waits
    <3> QED
      BY <3>1, <3>2, <3>3
  <2>2. CASE e # d
    <3>1. Listed[e] = <<>> \/ (Len(Listed[e]) = 1 /\ \E k \in DOMAIN history : Waits(k, e))
      BY <1>7 DEF OneEach
    <3>2. \A k \in DOMAIN Listed[e] : cell'[Listed[e][k]] = cell[Listed[e][k]]
      <4>1. \A k \in DOMAIN Listed[e] : Listed[e][k] \in Cells
        BY ListedCells
      <4>2. cell \in [Cells -> Halves \cup {NoHalf}]
        BY Owned
      <4> QED
        BY <1>3, <4>1, <4>2
    <3>3. Listed'[e] = Listed[e]
      BY <1>10, <2>2
    <3> QED
      BY <1>1, <1>3, <1>4, <2>2, <3>1, <3>2, <3>3, OthersWaitOn
  <2> QED
    BY <2>1, <2>2
<1> QED
  BY <1>12, <1>13

(* A half that is skipped is of no rename that waits.                       *)
LEMMA SkipTurn ==
  ASSUME ListInv, TurnInv, NEW h \in Halves, R!SkipHalf(h), InTurn'
  PROVE  NoneLost' /\ OneEach'
<1>1. /\ Listed' = Listed /\ Free' = Free /\ cell' = cell /\ brk' = brk
      /\ Note(h, "skipped")
      /\ R!NotFound(h)
  BY DEF R!SkipHalf, R!Note, Note, Listed, Free
<1>2. "skipped" \in R!Fates
  BY DEF R!Fates
<1>3. NoneLost /\ OneEach
  BY <1>1, <1>2, TurnNote DEF TurnInv
<1>4. NoneLost'
  BY <1>1, <1>3 DEF NoneLost
<1>5. OneEach'
  <2> SUFFICES ASSUME NEW e \in Dirs, Listed[e] # <<>>
               PROVE  Len(Listed[e]) = 1 /\ \E k \in DOMAIN history' : Waits(k, e)'
    BY <1>1 DEF OneEach
  <2>1. Len(Listed[e]) = 1
    BY <1>3 DEF OneEach
  <2>2. PICK k \in DOMAIN history : Waits(k, e)
    BY <1>3 DEF OneEach
  <2>3. 1 \in DOMAIN Listed[e]
    <3>1. DOMAIN Listed[e] = 1 .. Len(Listed[e])
      BY ListedCells
    <3> QED
      BY <2>1, <3>1
  <2>4. ~Lists!Partners(cell[Listed[e][1]], h)
    <3>1. CASE e = h.dir
      <4>1. \A i \in DOMAIN Listed[h.dir] : cell[Listed[h.dir][i]].cok # h.cok
        BY <1>1 DEF R!NotFound, Listed
      <4> QED
        BY <2>3, <3>1, <4>1 DEF Lists!Partners
    <3>2. CASE e # h.dir
      BY <2>2, <3>2 DEF Waits, Lists!Partners
    <3> QED
      BY <3>1, <3>2
  <2>5. k \in DOMAIN history' /\ Waits(k, e)'
    BY <1>1, <1>2, <2>2, <2>4, WaitsOn
  <2> QED
    BY <2>1, <2>5
<1> QED
  BY <1>4, <1>5

LEMMA TurnStep == ListInv /\ TurnInv /\ [Next]_vars => TurnInv'
<1> SUFFICES ASSUME ListInv, TurnInv, [Next]_vars, InTurn' PROVE NoneLost' /\ OneEach'
  BY DEF TurnInv
<1>1. ASSUME NEW h \in Halves, Pair(h)
      PROVE  NoneLost' /\ OneEach'
  BY <1>1, PairStep, PairTurn
<1>2. ASSUME NEW h \in Halves, KeepInFreeCell(h)
      PROVE  NoneLost' /\ OneEach'
  <2>1. /\ Free # <<>>
        /\ R!Insert(Head(Free), h)
        /\ Free' = Tail(Free)
        /\ brk' = brk
    BY <1>2, KeepInFreeCellStep DEF R!KeepInFreeCell, Free
  <2>2. Free \in Seq(Cells)
    BY ListedCells
  <2>3. /\ 1 \in DOMAIN Free /\ Head(Free) = Free[1] /\ Head(Free) \in Cells
        /\ Len(Free) \in Nat /\ DOMAIN Free = 1 .. Len(Free)
        /\ DOMAIN Tail(Free) = 1 .. Len(Free) - 1
        /\ \A k \in DOMAIN Tail(Free) : Tail(Free)[k] = Free[k + 1]
    <3>1. /\ 1 \in DOMAIN Free /\ Head(Free) = Free[1] /\ Head(Free) \in Cells
          /\ Tail(Free) \in Seq(Cells)
          /\ \A k \in DOMAIN Tail(Free) : Tail(Free)[k] = Free[k + 1]
      BY <2>1, <2>2, PopProperties
    <3>2. Len(Free) \in Nat /\ DOMAIN Free = 1 .. Len(Free)
      BY <2>2, LenProperties
    <3>3. Len(Tail(Free)) = Len(Free) - 1
      BY <2>1, <2>2, HeadTailProperties
    <3> QED
      BY <3>1, <3>2, <3>3, LenProperties
  <2>4. \A i \in DOMAIN Free : Free[i] = Head(Free) \/ \E j \in DOMAIN Free' : Free'[j] = Free[i]
    <3> SUFFICES ASSUME NEW i \in DOMAIN Free, i # 1
                 PROVE  \E j \in DOMAIN Tail(Free) : Tail(Free)[j] = Free[i]
      BY <2>1, <2>3
    <3>1. i - 1 \in DOMAIN Tail(Free) /\ (i - 1) + 1 = i
      BY <2>3
    <3> QED
      BY <2>3, <3>1
  <2>5. \A d \in Dirs : \A i \in DOMAIN Listed[d] : Listed[d][i] # Head(Free)
    BY <2>3, Owned
  <2> QED
    BY <2>1, <2>3, <2>4, <2>5, InsertTurn
<1>3. ASSUME NEW h \in Halves, KeepInNewCell(h)
      PROVE  NoneLost' /\ OneEach'
  <2>1. /\ Free = <<>> /\ brk < MaxCells /\ brk' = brk + 1
        /\ R!Insert(brk + 1, h)
    BY <1>3, KeepInNewCellStep DEF R!KeepInNewCell, Free
  <2>2. brk \in Nat /\ brk + 1 \in Cells
    <3>1. brk \in PoolSize .. MaxCells
      BY Owned
    <3> QED
      BY <2>1, <3>1, RenameListAssumption DEF Cells
  <2>3. \A d \in Dirs : \A i \in DOMAIN Listed[d] : Listed[d][i] # brk + 1
    <3>1. \A d \in Dirs : \A i \in DOMAIN Listed[d] : Listed[d][i] <= brk
      BY Owned
    <3> QED
      BY <2>2, <3>1
  <2>4. \A c \in 1 .. brk' : c \in 1 .. brk \/ c = brk + 1
    BY <2>1, <2>2
  <2>5. \A i \in DOMAIN Free : Free[i] = brk + 1 \/ \E j \in DOMAIN Free' : Free'[j] = Free[i]
    BY <2>1
  <2> QED
    BY <2>1, <2>2, <2>3, <2>4, <2>5, InsertTurn
<1>4. ASSUME NEW h \in Halves, SkipHalf(h)
      PROVE  NoneLost' /\ OneEach'
  <2>1. R!SkipHalf(h)
    BY <1>4, SkipHalfStep
  <2> QED
    BY <2>1, SkipTurn
<1>5. CASE Purge
  <2>1. Note(NoHalf, "purge") /\ "purge" \in R!Fates
    BY <1>5 DEF Purge, R!Fates
  <2> QED
    BY <2>1, TurnNote
<1>6. CASE UNCHANGED vars
  <2>1. Listed' = Listed /\ Free' = Free
    BY <1>6, ListSame DEF R!vars, Listed, Free
  <2>2. history' = history /\ cell' = cell /\ brk' = brk
    BY <1>6 DEF vars
  <2>3. InTurn
    BY <2>2 DEF InTurn, Lists!Partners
  <2>4. NoneLost /\ OneEach
    BY <2>3 DEF TurnInv
  <2>5. \A k, d : Waits(k, d)' <=> Waits(k, d)
    BY <2>1, <2>2 DEF Waits, Lists!Partners
  <2> QED
    BY <2>1, <2>2, <2>4, <2>5 DEF NoneLost, OneEach
<1> QED
  BY <1>1, <1>2, <1>3, <1>4, <1>5, <1>6 DEF Next, MoveEvent

(* While every half is paired before another one of its directory comes,    *)
(* and the configuration is not read again, each cell that exists can be    *)
(* reached from ren_free or from a directory: none is lost, whatever the    *)
(* halves of the other directories do in between.                           *)
THEOREM NothingLost == Spec => []NoCellLost
<1>1. ListInv /\ TurnInv => NoCellLost
  <2> SUFFICES ASSUME ListInv, NoneLost PROVE Reachable = 1 .. brk
    BY DEF TurnInv, NoCellLost
  <2>1. brk \in Nat
    <3>1. brk \in PoolSize .. MaxCells
      BY Owned
    <3> QED
      BY <3>1, RenameListAssumption
  <2>2. Reachable = {Free[i] : i \in DOMAIN Free} \cup
                    UNION {{Listed[d][i] : i \in DOMAIN Listed[d]} : d \in Dirs}
    BY DEF Reachable, Free, Listed
  <2>3. \A i \in DOMAIN Free : Free[i] \in 1 .. brk
    <3>1. \A i \in DOMAIN Free : Free[i] \in Cells
      BY ListedCells
    <3>2. \A i \in DOMAIN Free : Free[i] <= brk
      BY Owned
    <3> QED
      BY <2>1, <3>1, <3>2, RenameListAssumption DEF Cells
  <2>4. \A d \in Dirs : \A i \in DOMAIN Listed[d] : Listed[d][i] \in 1 .. brk
    <3>1. \A d \in Dirs : \A i \in DOMAIN Listed[d] : Listed[d][i] \in Cells
      BY ListedCells
    <3>2. \A d \in Dirs : \A i \in DOMAIN Listed[d] : Listed[d][i] <= brk
      BY Owned
    <3> QED
      BY <2>1, <3>1, <3>2, RenameListAssumption DEF Cells
  <2>5. Reachable \subseteq 1 .. brk
    BY <2>2, <2>3, <2>4
  <2>6. 1 .. brk \subseteq Reachable
    BY <2>2 DEF NoneLost
  <2> QED
    BY <2>5, <2>6
<1>2. Spec => [](ListInv /\ TurnInv)
  BY ListInit, ListStep, TurnInit, TurnStep, PTL DEF Spec
<1> QED
  BY <1>1, <1>2, PTL
=============================================================================
