----------------------------- MODULE EventsProofs -----------------------------
(***************************************************************************)
(* What is proved about Events, for every set of directories, inodes and    *)
(* actions and every number of events: what is proved of rename correlation *)
(* holds within the loop that feeds it, and each command runs for the       *)
(* directory its event happened in.                                         *)
(***************************************************************************)
EXTENDS Events, RenamesProofs

(* Where names lead, as the watches are set.                                *)
Names ==
  /\ path \in [Dirs -> Inodes \cup {Gone}]
  /\ dirs \in Seq(Dirs)

-----------------------------------------------------------------------------
(***************************************************************************)
(* The numbers inotify gives: from 1, one per inode, never two for one      *)
(* inode nor one for two.                                                   *)
(***************************************************************************)
WatchedInodes(failed) == {path[dirs[k]] : k \in Opened(failed)}

First(i, failed) ==
  CHOOSE k \in Opened(failed) :
    /\ path[dirs[k]] = i
    /\ \A l \in Opened(failed) : path[dirs[l]] = i => k <= l

UpTo(i, failed) == {path[dirs[k]] : k \in {l \in Opened(failed) : l <= First(i, failed)}}

LEMMA OpenedDirs ==
  ASSUME Names, NEW failed, NEW k \in Opened(failed)
  PROVE  k \in Nat /\ k \in 1 .. Len(dirs) /\ dirs[k] \in Dirs /\ path[dirs[k]] \in Inodes
<1>1. k \in DOMAIN dirs /\ path[dirs[k]] # Gone /\ dirs \in Seq(Dirs)
  BY DEF Opened, Names
<1>2. k \in 1 .. Len(dirs) /\ dirs[k] \in Dirs
  BY <1>1, LenProperties, ElementOfSeq
<1> QED
  BY <1>1, <1>2, LenProperties DEF Names

LEMMA FirstProperties ==
  ASSUME Names, NEW failed, NEW i \in WatchedInodes(failed)
  PROVE  /\ First(i, failed) \in Opened(failed)
         /\ path[dirs[First(i, failed)]] = i
         /\ \A l \in Opened(failed) : path[dirs[l]] = i => First(i, failed) <= l
<1> DEFINE S == {k \in Opened(failed) : path[dirs[k]] = i}
<1>1. S \subseteq Nat /\ S # {}
  BY OpenedDirs DEF WatchedInodes
<1>2. PICK m \in S : \A k \in S : m <= k
  <2> HIDE DEF S
  <2> QED
    BY <1>1, Least
<1>3. \E k \in Opened(failed) :
        /\ path[dirs[k]] = i
        /\ \A l \in Opened(failed) : path[dirs[l]] = i => k <= l
  BY <1>2
<1> QED
  BY <1>3 DEF First

LEMMA UpToProperties ==
  ASSUME Names, NEW failed, NEW i \in WatchedInodes(failed)
  PROVE  /\ UpTo(i, failed) \subseteq Inodes
         /\ IsFiniteSet(UpTo(i, failed))
         /\ i \in UpTo(i, failed)
<1>1. UpTo(i, failed) \subseteq Inodes
  BY OpenedDirs DEF UpTo
<1>2. IsFiniteSet(UpTo(i, failed))
  BY <1>1, EventsAssumption, FS_Subset
<1>3. First(i, failed) \in Opened(failed) /\ path[dirs[First(i, failed)]] = i
  BY FirstProperties
<1>4. First(i, failed) <= First(i, failed)
  BY <1>3, OpenedDirs
<1>5. i \in UpTo(i, failed)
  BY <1>3, <1>4 DEF UpTo
<1> QED
  BY <1>1, <1>2, <1>5

LEMMA NumberType ==
  ASSUME Names, NEW failed, NEW i \in WatchedInodes(failed)
  PROVE  /\ WatchNumber(i, failed) = Cardinality(UpTo(i, failed))
         /\ WatchNumber(i, failed) \in 1 .. Cardinality(Inodes)
<1>1. WatchNumber(i, failed) = Cardinality(UpTo(i, failed))
  BY DEF WatchNumber, UpTo, First
<1>2. IsFiniteSet(UpTo(i, failed)) /\ UpTo(i, failed) # {} /\ UpTo(i, failed) \in SUBSET Inodes
  BY UpToProperties
<1>3. Cardinality(UpTo(i, failed)) \in Nat /\ Cardinality(UpTo(i, failed)) # 0
  BY <1>2, FS_CardinalityType, FS_EmptySet
<1>4. Cardinality(UpTo(i, failed)) <= Cardinality(Inodes) /\ Cardinality(Inodes) \in Nat
  BY <1>2, EventsAssumption, FS_Subset, FS_CardinalityType
<1> QED
  BY <1>1, <1>3, <1>4

LEMMA NumbersInOrder ==
  ASSUME Names, NEW failed, NEW i \in WatchedInodes(failed), NEW j \in WatchedInodes(failed),
         First(i, failed) < First(j, failed)
  PROVE  WatchNumber(i, failed) # WatchNumber(j, failed)
<1>1. UpTo(i, failed) \subseteq UpTo(j, failed)
  <2> SUFFICES ASSUME NEW x \in UpTo(i, failed) PROVE x \in UpTo(j, failed)
    OBVIOUS
  <2>1. PICK k \in Opened(failed) : x = path[dirs[k]] /\ k <= First(i, failed)
    BY DEF UpTo
  <2>2. k \in Nat /\ First(i, failed) \in Nat /\ First(j, failed) \in Nat
    BY OpenedDirs, FirstProperties
  <2>3. k <= First(j, failed)
    BY <2>1, <2>2
  <2> QED
    BY <2>1, <2>3 DEF UpTo
<1>2. j \notin UpTo(i, failed)
  <2> SUFFICES ASSUME j \in UpTo(i, failed) PROVE FALSE
    OBVIOUS
  <2>1. PICK k \in Opened(failed) : j = path[dirs[k]] /\ k <= First(i, failed)
    BY DEF UpTo
  <2>2. k \in Nat /\ First(i, failed) \in Nat /\ First(j, failed) \in Nat
    BY OpenedDirs, FirstProperties
  <2>3. First(j, failed) <= k
    BY <2>1, FirstProperties
  <2> QED
    BY <2>1, <2>2, <2>3
<1>3. j \in UpTo(j, failed) /\ IsFiniteSet(UpTo(j, failed))
  BY UpToProperties
<1>4. Cardinality(UpTo(j, failed)) # Cardinality(UpTo(i, failed))
  BY <1>1, <1>2, <1>3, FS_Subset
<1> QED
  BY <1>4, NumberType

LEMMA NumbersDiffer ==
  ASSUME Names, NEW failed, NEW i \in WatchedInodes(failed), NEW j \in WatchedInodes(failed),
         WatchNumber(i, failed) = WatchNumber(j, failed)
  PROVE  i = j
<1> SUFFICES ASSUME i # j PROVE FALSE
  OBVIOUS
<1>1. First(i, failed) \in Nat /\ First(j, failed) \in Nat /\ First(i, failed) # First(j, failed)
  BY OpenedDirs, FirstProperties
<1>2. First(i, failed) < First(j, failed) \/ First(j, failed) < First(i, failed)
  BY <1>1
<1> QED
  BY <1>2, NumbersInOrder

LEMMA MaskType ==
  ASSUME Names, NEW failed, NEW i \in WatchedInodes(failed)
  PROVE  LastMask(i, failed) \subseteq AllEvents
<1> DEFINE S == {k \in Opened(failed) : path[dirs[k]] = i}
<1>1. Len(dirs) \in Nat /\ S \subseteq 1 .. Len(dirs) /\ S # {}
  BY OpenedDirs, LenProperties DEF WatchedInodes, Names
<1>2. PICK m \in S : \A k \in S : k <= m
  <2> HIDE DEF S
  <2> QED
    BY <1>1, Greatest
<1>3. \E k \in Opened(failed) :
        /\ path[dirs[k]] = i
        /\ \A l \in Opened(failed) : path[dirs[l]] = i => l <= k
  BY <1>2
<1>4. PICK k \in Opened(failed) : LastMask(i, failed) = DirMask(dirs[k])
  BY <1>3 DEF LastMask
<1>5. Actions[dirs[k]] \in Seq(SUBSET AllEvents)
  BY OpenedDirs, EventsAssumption
<1>6. \A a \in DOMAIN Actions[dirs[k]] : Actions[dirs[k]][a] \in SUBSET AllEvents
  BY <1>5, LenProperties, ElementOfSeq
<1> QED
  BY <1>4, <1>6 DEF DirMask

(* What the watches are after in_events_init.                               *)
LEMMA WatchesSet ==
  ASSUME Names, SetWatches
  PROVE  \E failed \in SUBSET Dirs :
           /\ DOMAIN watch' = Inodes /\ DOMAIN dir_wd' = Dirs /\ DOMAIN opened' = Dirs
           /\ watch' = [i \in Inodes |-> watch'[i]]
           /\ dir_wd' = [d \in Dirs |-> dir_wd'[d]]
           /\ opened' = [d \in Dirs |-> opened'[d]]
           /\ \A i \in Inodes :
                \/ /\ i \in WatchedInodes(failed)
                   /\ watch'[i] = [wd |-> WatchNumber(i, failed), mask |-> LastMask(i, failed)]
                \/ watch'[i] = NoWatch
           /\ \A d \in Dirs :
                \/ /\ path[d] \in WatchedInodes(failed)
                   /\ path[d] # Gone
                   /\ dir_wd'[d] = WatchNumber(path[d], failed)
                   /\ opened'[d] = path[d]
                \/ dir_wd'[d] = -1 /\ opened'[d] = Gone
<1>1. PICK failed \in SUBSET Dirs :
        LET found == {path[dirs[k]] : k \in Opened(failed)}
            open(d) == \E k \in Opened(failed) : dirs[k] = d
        IN  /\ watch' = [i \in Inodes |->
                           IF i \in found
                           THEN [wd |-> WatchNumber(i, failed), mask |-> LastMask(i, failed)]
                           ELSE NoWatch]
            /\ dir_wd' = [d \in Dirs |-> IF open(d) THEN WatchNumber(path[d], failed) ELSE -1]
            /\ opened' = [d \in Dirs |-> IF open(d) THEN path[d] ELSE Gone]
  BY DEF SetWatches
<1>2. \A i \in Inodes :
        \/ /\ i \in WatchedInodes(failed)
           /\ watch'[i] = [wd |-> WatchNumber(i, failed), mask |-> LastMask(i, failed)]
        \/ watch'[i] = NoWatch
  BY <1>1 DEF WatchedInodes
<1>3. \A d \in Dirs :
        \/ /\ \E k \in Opened(failed) : dirs[k] = d
           /\ dir_wd'[d] = WatchNumber(path[d], failed)
           /\ opened'[d] = path[d]
        \/ dir_wd'[d] = -1 /\ opened'[d] = Gone
  BY <1>1
<1>4. \A d \in Dirs :
        (\E k \in Opened(failed) : dirs[k] = d) => path[d] \in WatchedInodes(failed) /\ path[d] # Gone
  BY DEF WatchedInodes, Opened
<1> QED
  BY <1>1, <1>2, <1>3, <1>4

-----------------------------------------------------------------------------
(***************************************************************************)
(* The type invariant.  It is not inductive alone: that rename correlation  *)
(* is given halves, each of them once, needs that the kernel announces a    *)
(* side of a cookie once, and that no half was read but from an event taken.*)
(***************************************************************************)
HalfEvents == \A k \in DOMAIN sent : sent[k].mask \cap Sides # {} => sent[k].cok \in Cookies

SentOnce ==
  \A s \in Sides : \A j, k \in DOMAIN sent :
    s \in sent[j].mask /\ s \in sent[k].mask /\ sent[j].cok = sent[k].cok => j = k

HistoryRead ==
  \A k \in DOMAIN history :
    history[k].fate # "purge" =>
      \E j \in 1 .. taken :
        history[k].half.side \in sent[j].mask /\ sent[j].cok = history[k].half.cok

KernelType ==
  /\ watch \in [Inodes -> [wd : 0 .. Cardinality(Inodes), mask : SUBSET AllEvents]]
  /\ sent \in Seq(Events)
  /\ taken \in 0 .. Len(sent)

RegistryType ==
  /\ dir_ino \in [Dirs -> Inodes \cup {Gone}]
  /\ opened \in [Dirs -> Inodes \cup {Gone}]
  /\ dir_wd \in [Dirs -> (1 .. Cardinality(Inodes)) \cup {-1}]
  /\ watching \in BOOLEAN
  /\ reads \in 0 .. MaxReads

Launches == [dir : Dirs, act : Nat, event : Events, ino : Inodes \cup {Gone},
             old : Halves \cup {NoHalf}]

Surroundings ==
  /\ Names
  /\ KernelType
  /\ RegistryType
  /\ launched \in Seq(Launches)
  /\ HalfEvents
  /\ SentOnce
  /\ HistoryRead

EventsInv == FaithfulInv /\ Surroundings

LEMMA EventsInvType == EventsInv => EventsTypeOK
  BY DEF EventsInv, Surroundings, FaithfulInv, OwnedInv, TypeInv, Names, KernelType, RegistryType,
         Launches, EventsTypeOK

(* The next event, and the half it is.                                      *)
LEMMA NextEvent ==
  ASSUME EventsInv, taken < Len(sent)
  PROVE  taken \in Nat /\ taken + 1 \in DOMAIN sent /\ sent[taken + 1] \in Events
<1>1. sent \in Seq(Events) /\ taken \in 0 .. Len(sent) /\ Len(sent) \in Nat
  BY LenProperties DEF EventsInv, Surroundings, KernelType
<1>2. taken + 1 \in 1 .. Len(sent)
  BY <1>1
<1> QED
  BY <1>1, <1>2, LenProperties, ElementOfSeq

LEMMA TakenHalf ==
  ASSUME EventsInv, taken < Len(sent), IsHalf(sent[taken + 1]), NEW d \in Dirs
  PROVE  LET h == HalfOf(d, sent[taken + 1]) IN
         /\ h \in Halves
         /\ h.side \in sent[taken + 1].mask
         /\ h.cok = sent[taken + 1].cok
         /\ Fresh(h)
<1> DEFINE e == sent[taken + 1]
           h == HalfOf(d, e)
<1>1. PICK s \in Sides : e.mask = {s}
  BY DEF IsHalf
<1>2. (CHOOSE t \in Sides : t \in e.mask) = s
  BY <1>1
<1>3. e.cok \in Cookies
  BY <1>1, NextEvent DEF EventsInv, Surroundings, HalfEvents
<1>4. h \in Halves /\ h.side = s /\ h.cok = e.cok
  BY <1>2, <1>3 DEF HalfOf, Halves
<1>5. ASSUME NEW k \in DOMAIN history, history[k].fate # "purge",
             <<history[k].half.side, history[k].half.cok>> = <<h.side, h.cok>>
      PROVE  FALSE
  <2>1. PICK j \in 1 .. taken : s \in sent[j].mask /\ sent[j].cok = e.cok
    BY <1>4, <1>5 DEF EventsInv, Surroundings, HistoryRead
  <2>2. sent \in Seq(Events) /\ taken \in 0 .. Len(sent) /\ Len(sent) \in Nat
    BY LenProperties DEF EventsInv, Surroundings, KernelType
  <2>3. j \in DOMAIN sent /\ taken + 1 \in DOMAIN sent /\ j # taken + 1
    BY <2>2, LenProperties, NextEvent
  <2> QED
    BY <1>1, <2>1, <2>3 DEF EventsInv, Surroundings, SentOnce
<1>6. Fresh(h)
  BY <1>5 DEF Fresh
<1> QED
  BY <1>1, <1>4, <1>6

(* One step of the system, as rename correlation sees it.                   *)
LEMMA EventsHappens == EventsInv /\ [EventsNext]_allvars => Happens
<1> SUFFICES ASSUME EventsInv, [EventsNext]_allvars PROVE Happens
  OBVIOUS
<1>1. CASE ReadConfiguration
  BY <1>1 DEF ReadConfiguration, Happens
<1>2. CASE TakeEvent
  <2>1. ASSUME NEW k \in DOMAIN dirs, HandleEvent(dirs[k], sent[taken + 1])
        PROVE  Happens
    <3>1. dirs[k] \in Dirs
      BY LenProperties, ElementOfSeq DEF EventsInv, Surroundings, Names
    <3>2. CASE UNCHANGED vars
      BY <3>2 DEF Happens
    <3>3. CASE ~UNCHANGED vars
      <4>1. IsHalf(sent[taken + 1]) /\ MoveEvent(HalfOf(dirs[k], sent[taken + 1]))
        BY <2>1, <3>3 DEF HandleEvent, MoveEvent
      <4>2. LET h == HalfOf(dirs[k], sent[taken + 1]) IN h \in Halves /\ Fresh(h)
        BY <1>2, <3>1, <4>1, TakenHalf DEF TakeEvent
      <4> QED
        BY <4>1, <4>2 DEF Happens
    <3> QED
      BY <3>2, <3>3
  <2> QED
    BY <1>2, <2>1 DEF TakeEvent, Happens
<1>3. CASE UNCHANGED vars
  BY <1>3 DEF Happens
<1>4. CASE InitEvents
  BY <1>3, <1>4 DEF InitEvents
<1>5. ASSUME NEW i \in Inodes, KernelEvent(i) \/ KernelHalf(i) \/ KernelRemoved(i) PROVE Happens
  BY <1>3, <1>5 DEF KernelEvent, KernelHalf, KernelRemoved
<1>6. CASE KernelOverflow
  BY <1>3, <1>6 DEF KernelOverflow
<1>7. ASSUME NEW d \in Dirs, Replace(d) PROVE Happens
  BY <1>3, <1>7 DEF Replace
<1>8. CASE UNCHANGED allvars
  BY <1>3, <1>8 DEF allvars
<1> QED
  BY <1>1, <1>2, <1>4, <1>5, <1>6, <1>7, <1>8 DEF EventsNext

(* What the event taken does for the directory that owns its watch.         *)
LEMMA HandleResult ==
  ASSUME EventsInv, taken < Len(sent), NEW d \in Dirs, HandleEvent(d, sent[taken + 1])
  PROVE  LET e == sent[taken + 1] IN
         /\ \/ launched' = launched
            \/ \E x \in Launches :
                 /\ x.dir = d /\ x.event = e /\ x.ino = opened[d]
                 /\ launched' = Append(launched, x)
         /\ \/ history' = history
            \/ \E f \in Fates \ {"purge"} : IsHalf(e) /\ Note(HalfOf(d, e), f)
<1> DEFINE e == sent[taken + 1]
           h == HalfOf(d, e)
<1>1. e \in Events /\ opened[d] \in Inodes \cup {Gone} /\ Actions[d] \in Seq(SUBSET AllEvents)
  BY NextEvent, EventsAssumption DEF EventsInv, Surroundings, RegistryType
<1>2. ASSUME NEW old \in Halves \cup {NoHalf}, Run(d, e, old)
      PROVE  \/ launched' = launched
             \/ \E x \in Launches :
                  /\ x.dir = d /\ x.event = e /\ x.ino = opened[d]
                  /\ launched' = Append(launched, x)
  <2> HIDE DEF e
  <2>1. \A a \in DOMAIN Actions[d] : a \in Nat
    BY <1>1, LenProperties
  <2>2. \A a \in Nat :
          LET x == [dir |-> d, act |-> a, event |-> e, ino |-> opened[d], old |-> old]
          IN  x \in Launches /\ x.dir = d /\ x.event = e /\ x.ino = opened[d]
    BY <1>1 DEF Launches
  <2> QED
    BY <1>2, <2>1, <2>2 DEF Run
<1>3. CASE ~IsHalf(e)
  BY <1>2, <1>3 DEF HandleEvent, vars
<1>4. CASE IsHalf(e)
  <2>1. h \in Halves
    BY <1>4, TakenHalf
  <2>2. ASSUME Pair(h), Run(d, e, reports'[Len(reports')].old)
        PROVE  reports'[Len(reports')].old \in Halves
    <3>1. PICK i \in DOMAIN renamed[h.dir] : reports' = Append(reports, Report(cell[renamed[h.dir][i]], h))
      BY <2>2 DEF Pair
    <3>2. cell[renamed[h.dir][i]] \in Halves
      BY <2>1 DEF EventsInv, Surroundings, FaithfulInv, OwnedInv, TypeInv, ListedHoldHalves, Halves
    <3>3. Report(cell[renamed[h.dir][i]], h) \in [old : Halves, new : Halves]
      <4> HIDE DEF h
      <4> QED
        BY <2>1, <3>2 DEF Report
    <3>4. reports \in Seq([old : Halves, new : Halves])
      BY DEF EventsInv, Surroundings, FaithfulInv, OwnedInv, TypeInv, TypeOK
    <3>5. reports'[Len(reports')] = Report(cell[renamed[h.dir][i]], h)
      BY <3>1, <3>3, <3>4, AppendTo
    <3> QED
      BY <3>3, <3>5
  <2>3. ASSUME Pair(h), Run(d, e, reports'[Len(reports')].old)
        PROVE  Note(h, "paired")
    BY <2>3 DEF Pair
  <2>4. ASSUME KeepInFreeCell(h) \/ KeepInNewCell(h) \/ SkipHalf(h)
        PROVE  Note(h, "kept") \/ Note(h, "skipped")
    BY <2>4 DEF KeepInFreeCell, KeepInNewCell, SkipHalf, Insert
  <2>5. \/ Pair(h) /\ Run(d, e, reports'[Len(reports')].old)
        \/ /\ KeepInFreeCell(h) \/ KeepInNewCell(h) \/ SkipHalf(h)
           /\ UNCHANGED launched
    BY <1>4 DEF HandleEvent
  <2>6. /\ "paired" \in Fates \ {"purge"} /\ "kept" \in Fates \ {"purge"}
        /\ "skipped" \in Fates \ {"purge"}
    BY DEF Fates
  <2> HIDE DEF h, e
  <2>7. CASE Pair(h) /\ Run(d, e, reports'[Len(reports')].old)
    BY <1>2, <1>4, <2>2, <2>3, <2>6, <2>7 DEF h, e
  <2>8. CASE (KeepInFreeCell(h) \/ KeepInNewCell(h) \/ SkipHalf(h)) /\ UNCHANGED launched
    BY <1>4, <2>4, <2>6, <2>8 DEF h, e
  <2> QED
    BY <2>5, <2>7, <2>8
<1> QED
  BY <1>3, <1>4

LEMMA EventsInvInit == EventsInit => EventsInv
<1> SUFFICES ASSUME EventsInit PROVE EventsInv
  OBVIOUS
<1>1. FaithfulInv /\ history = <<>>
  BY FaithfulInit DEF EventsInit, Init
<1>2. Names
  BY DEF EventsInit, Names
<1>3. KernelType
  <2>1. 0 \in 0 .. Cardinality(Inodes)
    BY EventsAssumption, FS_CardinalityType
  <2> QED
    BY <2>1 DEF EventsInit, KernelType, NoWatch
<1>4. RegistryType
  <2>1. reads \in 0 .. MaxReads
    BY EventsAssumption DEF EventsInit
  <2>2. dir_wd \in [Dirs -> (1 .. Cardinality(Inodes)) \cup {-1}]
    <3>1. -1 \in (1 .. Cardinality(Inodes)) \cup {-1}
      OBVIOUS
    <3> QED
      BY <3>1 DEF EventsInit
  <2> QED
    BY <2>1, <2>2 DEF EventsInit, RegistryType
<1> QED
  BY <1>1, <1>2, <1>3, <1>4
  DEF EventsInit, EventsInv, Surroundings, HalfEvents, SentOnce, HistoryRead

(* One more event in the queue.                                             *)
LEMMA Queued ==
  ASSUME EventsInv, NEW e \in Events, sent' = Append(sent, e), UNCHANGED <<taken, history>>,
         e.mask \cap Sides # {} => e.cok \in Cookies,
         \A s \in e.mask \cap Sides : \A k \in DOMAIN sent :
           sent[k].cok = e.cok => s \notin sent[k].mask
  PROVE  /\ sent' \in Seq(Events)
         /\ taken' \in 0 .. Len(sent')
         /\ HalfEvents' /\ SentOnce' /\ HistoryRead'
<1>1. /\ sent \in Seq(Events) /\ Len(sent) \in Nat /\ DOMAIN sent = 1 .. Len(sent)
      /\ taken \in 0 .. Len(sent)
  BY LenProperties DEF EventsInv, Surroundings, KernelType
<1>2. /\ sent' \in Seq(Events)
      /\ Len(sent') = Len(sent) + 1
      /\ DOMAIN sent' = 1 .. Len(sent) + 1
      /\ \A k \in DOMAIN sent : sent'[k] = sent[k]
      /\ sent'[Len(sent) + 1] = e
      /\ \A k \in DOMAIN sent' : k \in DOMAIN sent \/ k = Len(sent) + 1
  BY <1>1, AppendTo, LenProperties
<1>3. taken' \in 0 .. Len(sent')
  BY <1>1, <1>2
<1>4. HalfEvents'
  BY <1>2 DEF EventsInv, Surroundings, HalfEvents
<1>5. SentOnce'
  BY <1>2 DEF EventsInv, Surroundings, SentOnce
<1>6. HistoryRead'
  <2> SUFFICES ASSUME NEW k \in DOMAIN history, history[k].fate # "purge"
               PROVE  \E j \in 1 .. taken :
                        history[k].half.side \in sent'[j].mask /\ sent'[j].cok = history[k].half.cok
    BY DEF HistoryRead
  <2>1. PICK j \in 1 .. taken :
          history[k].half.side \in sent[j].mask /\ sent[j].cok = history[k].half.cok
    BY DEF EventsInv, Surroundings, HistoryRead
  <2>2. j \in DOMAIN sent
    BY <1>1
  <2> QED
    BY <1>2, <2>1, <2>2
<1> QED
  BY <1>2, <1>3, <1>4, <1>5, <1>6

LEMMA QueueType ==
  ASSUME EventsInv, NEW i \in Inodes, NEW bits, NEW c \in Cookies \cup {0}, Queue(i, bits, c),
         bits \subseteq AllEvents \cup {"isdir", "ignored", "q_overflow"}
  PROVE  LET e == [wd |-> watch[i].wd, mask |-> bits, cok |-> c, ino |-> i] IN
         /\ e \in Events
         /\ sent' = Append(sent, e)
<1>1. watch[i].wd \in 0 .. Cardinality(Inodes)
  BY DEF EventsInv, Surroundings, KernelType
<1>2. watch[i].wd \in Int
  BY <1>1, EventsAssumption, FS_CardinalityType
<1> QED
  BY <1>2 DEF Queue, Events

LEMMA KernelSteps ==
  ASSUME EventsInv, NEW i \in Inodes, KernelEvent(i) \/ KernelHalf(i) \/ KernelRemoved(i)
  PROVE  /\ \E e \in Events :
              /\ sent' = Append(sent, e)
              /\ e.wd = watch[i].wd /\ e.wd # 0 /\ e.ino = i
              /\ e.mask \cap Sides # {} => e.cok \in Cookies
              /\ \A s \in e.mask \cap Sides : \A k \in DOMAIN sent :
                   sent[k].cok = e.cok => s \notin sent[k].mask
         /\ UNCHANGED <<vars, taken, registry, launched>>
         /\ \/ UNCHANGED <<watch, path>>
            \/ /\ watch' = [watch EXCEPT ![i] = NoWatch]
               /\ path' = [d \in Dirs |-> IF path[d] = i THEN Gone ELSE path[d]]
<1>1. watch[i].mask \subseteq AllEvents
  BY DEF EventsInv, Surroundings, KernelType
<1>2. "ignored" \notin Sides /\ "isdir" \notin Sides
  BY DEF Sides
<1>3. CASE KernelEvent(i)
  <2>1. PICK b \in watch[i].mask \ Sides : Queue(i, {b}, 0)
    BY <1>3 DEF KernelEvent
  <2> DEFINE e == [wd |-> watch[i].wd, mask |-> {b}, cok |-> 0, ino |-> i]
  <2>2. e \in Events /\ sent' = Append(sent, e)
    BY <1>1, <2>1, QueueType
  <2>3. e.mask \cap Sides = {} /\ e.wd = watch[i].wd /\ e.wd # 0 /\ e.ino = i
    BY <2>1 DEF Queue
  <2> HIDE DEF e
  <2> QED
    BY <1>3, <2>2, <2>3 DEF KernelEvent
<1>4. CASE KernelHalf(i)
  <2>1. PICK s \in Sides \cap watch[i].mask, c \in Cookies, isdir \in {{}, {"isdir"}} :
          /\ \A k \in DOMAIN sent : sent[k].cok = c => s \notin sent[k].mask
          /\ Queue(i, {s} \cup isdir, c)
    BY <1>4 DEF KernelHalf
  <2> DEFINE e == [wd |-> watch[i].wd, mask |-> {s} \cup isdir, cok |-> c, ino |-> i]
  <2>2. e \in Events /\ sent' = Append(sent, e)
    BY <1>1, <2>1, QueueType
  <2>3. e.mask \cap Sides = {s} /\ e.cok = c /\ e.wd = watch[i].wd /\ e.wd # 0 /\ e.ino = i
    BY <1>2, <2>1 DEF Queue
  <2> HIDE DEF e
  <2> QED
    BY <1>4, <2>1, <2>2, <2>3 DEF KernelHalf
<1>5. CASE KernelRemoved(i)
  <2> DEFINE e == [wd |-> watch[i].wd, mask |-> {"ignored"}, cok |-> 0, ino |-> i]
  <2>1. Queue(i, {"ignored"}, 0)
    BY <1>5 DEF KernelRemoved
  <2>2. e \in Events /\ sent' = Append(sent, e)
    BY <2>1, QueueType
  <2>3. e.mask \cap Sides = {} /\ e.wd = watch[i].wd /\ e.wd # 0 /\ e.ino = i
    BY <1>2, <2>1 DEF Queue
  <2> HIDE DEF e
  <2> QED
    BY <1>5, <2>2, <2>3 DEF KernelRemoved
<1> QED
  BY <1>3, <1>4, <1>5

LEMMA ReadStep == EventsInv /\ ReadConfiguration => Surroundings'
<1> SUFFICES ASSUME EventsInv, ReadConfiguration PROVE Surroundings'
  OBVIOUS
<1>1. PICK n \in 1 .. Cardinality(Dirs) : \E s \in [1 .. n -> Dirs] :
        /\ dirs' = s
        /\ dir_ino' = [d \in Dirs |-> IF \E k \in 1 .. n : s[k] = d THEN path[d] ELSE Gone]
  BY DEF ReadConfiguration
<1>2. PICK s \in [1 .. n -> Dirs] :
        /\ dirs' = s
        /\ dir_ino' = [d \in Dirs |-> IF \E k \in 1 .. n : s[k] = d THEN path[d] ELSE Gone]
  BY <1>1
<1>3. Names'
  <2>1. n \in Nat
    OBVIOUS
  <2>2. dirs' \in Seq(Dirs)
    BY <1>2, <2>1
  <2> QED
    BY <2>2 DEF ReadConfiguration, kernel, EventsInv, Surroundings, Names
<1>4. KernelType' /\ launched' \in Seq(Launches) /\ HalfEvents' /\ SentOnce'
  BY DEF ReadConfiguration, kernel, EventsInv, Surroundings, KernelType, HalfEvents, SentOnce
<1>5. RegistryType'
  <2>1. dir_ino' \in [Dirs -> Inodes \cup {Gone}]
    BY <1>2 DEF EventsInv, Surroundings, Names
  <2>2. reads' \in 0 .. MaxReads
    BY EventsAssumption DEF ReadConfiguration, EventsInv, Surroundings, RegistryType
  <2>3. dir_wd' \in [Dirs -> (1 .. Cardinality(Inodes)) \cup {-1}]
    <3>1. -1 \in (1 .. Cardinality(Inodes)) \cup {-1}
      OBVIOUS
    <3> QED
      BY <3>1 DEF ReadConfiguration
  <2> QED
    BY <2>1, <2>2, <2>3 DEF ReadConfiguration, RegistryType
<1>6. HistoryRead'
  <2>1. /\ history \in Seq(Entries)
        /\ [half |-> NoHalf, fate |-> "purge"] \in Entries
        /\ history' = Append(history, [half |-> NoHalf, fate |-> "purge"])
    BY DEF ReadConfiguration, Purge, Note, Entries, Fates, EventsInv, Surroundings, FaithfulInv, OwnedInv,
           TypeInv, TypeOK
  <2>2. \A k \in DOMAIN history' :
          history'[k].fate # "purge" => k \in DOMAIN history /\ history'[k] = history[k]
    BY <2>1, AppendTo
  <2>3. HistoryRead /\ UNCHANGED <<sent, taken>>
    BY DEF ReadConfiguration, kernel, EventsInv, Surroundings
  <2> QED
    BY <2>2, <2>3 DEF HistoryRead
<1> QED
  BY <1>3, <1>4, <1>5, <1>6 DEF Surroundings

LEMMA InitStep == EventsInv /\ InitEvents => Surroundings'
<1> SUFFICES ASSUME EventsInv, InitEvents PROVE Surroundings'
  OBVIOUS
<1>1. Names
  BY DEF EventsInv, Surroundings
<1>2. PICK failed \in SUBSET Dirs :
           /\ watch' = [i \in Inodes |-> watch'[i]]
           /\ dir_wd' = [d \in Dirs |-> dir_wd'[d]]
           /\ opened' = [d \in Dirs |-> opened'[d]]
           /\ \A i \in Inodes :
                \/ /\ i \in WatchedInodes(failed)
                   /\ watch'[i] = [wd |-> WatchNumber(i, failed), mask |-> LastMask(i, failed)]
                \/ watch'[i] = NoWatch
           /\ \A d \in Dirs :
                \/ /\ path[d] \in WatchedInodes(failed)
                   /\ path[d] # Gone
                   /\ dir_wd'[d] = WatchNumber(path[d], failed)
                   /\ opened'[d] = path[d]
                \/ dir_wd'[d] = -1 /\ opened'[d] = Gone
  BY <1>1, WatchesSet DEF InitEvents
<1>3. Names'
  BY DEF InitEvents, EventsInv, Surroundings, Names
<1>4. sent \in Seq(Events) /\ Len(sent) \in Nat /\ taken \in 0 .. Len(sent)
  BY LenProperties DEF EventsInv, Surroundings, KernelType
<1>5. KernelType'
  <2>1. ASSUME NEW i \in Inodes
        PROVE  watch'[i] \in [wd : 0 .. Cardinality(Inodes), mask : SUBSET AllEvents]
    <3>1. Cardinality(Inodes) \in Nat
      BY EventsAssumption, FS_CardinalityType
    <3>2. CASE watch'[i] = NoWatch
      BY <3>1, <3>2 DEF NoWatch
    <3>3. CASE /\ i \in WatchedInodes(failed)
               /\ watch'[i] = [wd |-> WatchNumber(i, failed), mask |-> LastMask(i, failed)]
      <4>1. WatchNumber(i, failed) \in 0 .. Cardinality(Inodes)
        BY <1>1, <3>1, <3>3, NumberType
      <4>2. LastMask(i, failed) \subseteq AllEvents
        BY <1>1, <3>3, MaskType
      <4> QED
        BY <3>3, <4>1, <4>2
    <3> QED
      BY <1>2, <3>2, <3>3
  <2>2. taken' \in 0 .. Len(sent)
    BY <1>4 DEF InitEvents
  <2> QED
    BY <1>2, <1>4, <2>1, <2>2 DEF InitEvents, KernelType
<1>6. RegistryType'
  <2>1. ASSUME NEW d \in Dirs
        PROVE  /\ dir_wd'[d] \in (1 .. Cardinality(Inodes)) \cup {-1}
               /\ opened'[d] \in Inodes \cup {Gone}
    <3>1. path[d] \in WatchedInodes(failed) => WatchNumber(path[d], failed) \in 1 .. Cardinality(Inodes)
      BY <1>1, NumberType
    <3>2. path[d] \in Inodes \cup {Gone}
      BY <1>1 DEF Names
    <3> QED
      BY <1>2, <3>1, <3>2
  <2>2. dir_wd' \in [Dirs -> (1 .. Cardinality(Inodes)) \cup {-1}]
    BY <1>2, <2>1
  <2>3. opened' \in [Dirs -> Inodes \cup {Gone}]
    BY <1>2, <2>1
  <2> QED
    BY <2>2, <2>3 DEF InitEvents, EventsInv, Surroundings, RegistryType
<1>7. HistoryRead'
  <2>1. 1 .. taken \subseteq 1 .. taken'
    BY <1>4 DEF InitEvents
  <2>2. HistoryRead /\ UNCHANGED <<sent, history>>
    BY DEF InitEvents, vars, EventsInv, Surroundings
  <2> QED
    BY <2>1, <2>2 DEF HistoryRead
<1> QED
  BY <1>3, <1>5, <1>6, <1>7
  DEF InitEvents, EventsInv, HalfEvents, SentOnce, Surroundings

LEMMA TakeStep == EventsInv /\ TakeEvent => Surroundings'
<1> SUFFICES ASSUME EventsInv, TakeEvent PROVE Surroundings'
  OBVIOUS
<1> DEFINE e == sent[taken + 1]
<1>1. /\ sent \in Seq(Events) /\ Len(sent) \in Nat /\ taken \in 0 .. Len(sent)
      /\ taken < Len(sent) /\ taken' = taken + 1 /\ UNCHANGED <<kernel, registry>>
  BY LenProperties DEF EventsInv, Surroundings, KernelType, TakeEvent
<1>2. Names' /\ KernelType' /\ RegistryType'
  <2>1. taken' \in 0 .. Len(sent)
    BY <1>1
  <2> QED
    BY <1>1, <2>1 DEF kernel, registry, EventsInv, Surroundings, Names, KernelType, RegistryType
<1>3. HalfEvents' /\ SentOnce'
  BY <1>1 DEF kernel, EventsInv, Surroundings, HalfEvents, SentOnce
<1>4. ASSUME NEW k \in DOMAIN dirs, HandleEvent(dirs[k], e)
      PROVE  launched' \in Seq(Launches) /\ HistoryRead'
  <2>1. dirs[k] \in Dirs
    BY LenProperties, ElementOfSeq DEF EventsInv, Surroundings, Names
  <2>2. /\ \/ launched' = launched
           \/ \E x \in Launches : launched' = Append(launched, x)
        /\ \/ history' = history
           \/ \E f \in Fates \ {"purge"} : IsHalf(e) /\ Note(HalfOf(dirs[k], e), f)
    BY <1>1, <1>4, <2>1, HandleResult
  <2>3. launched' \in Seq(Launches)
    BY <2>2, AppendTo DEF EventsInv, Surroundings
  <2>4. 1 .. taken \subseteq 1 .. taken' /\ taken + 1 \in 1 .. taken'
    BY <1>1
  <2>5. sent' = sent
    BY <1>1 DEF kernel
  <2>6. ASSUME history' = history
        PROVE  HistoryRead'
    <3>1. HistoryRead
      BY DEF EventsInv, Surroundings
    <3> QED
      BY <2>4, <2>5, <2>6, <3>1 DEF HistoryRead
  <2>7. ASSUME NEW f \in Fates \ {"purge"}, IsHalf(e), Note(HalfOf(dirs[k], e), f)
        PROVE  HistoryRead'
    <3> DEFINE h == HalfOf(dirs[k], e)
               x == [half |-> h, fate |-> f]
    <3>1. h \in Halves /\ h.side \in e.mask /\ h.cok = e.cok
      BY <1>1, <2>1, <2>7, TakenHalf
    <3>2. x \in Entries /\ history' = Append(history, x) /\ history \in Seq(Entries)
      BY <2>7, <3>1 DEF Note, Entries, EventsInv, Surroundings, FaithfulInv, OwnedInv, TypeInv, TypeOK
    <3>3. x.half.side \in e.mask /\ x.half.cok = e.cok
      BY <3>1
    <3> HIDE DEF x
    <3>4. \A m \in DOMAIN history' :
            history'[m] = x \/ (m \in DOMAIN history /\ history'[m] = history[m])
      BY <3>2, AppendTo
    <3> QED
      BY <2>4, <2>5, <3>3, <3>4 DEF EventsInv, Surroundings, HistoryRead
  <2> QED
    <3> HIDE DEF e
    <3>1. HistoryRead'
      BY <2>2, <2>6, <2>7
    <3> QED
      BY <2>3, <3>1
<1>5. ASSUME UNCHANGED <<launched, vars>>
      PROVE  launched' \in Seq(Launches) /\ HistoryRead'
  <2>1. 1 .. taken \subseteq 1 .. taken'
    BY <1>1
  <2> QED
    BY <1>1, <1>5, <2>1 DEF kernel, vars, EventsInv, Surroundings, HistoryRead
<1>6. launched' \in Seq(Launches) /\ HistoryRead'
  BY <1>4, <1>5 DEF TakeEvent
<1> QED
  BY <1>2, <1>3, <1>6 DEF Surroundings

LEMMA KernelStep ==
  ASSUME EventsInv, NEW i \in Inodes, KernelEvent(i) \/ KernelHalf(i) \/ KernelRemoved(i)
  PROVE  Surroundings'
<1>1. PICK e \in Events :
        /\ sent' = Append(sent, e)
        /\ e.mask \cap Sides # {} => e.cok \in Cookies
        /\ \A s \in e.mask \cap Sides : \A k \in DOMAIN sent :
             sent[k].cok = e.cok => s \notin sent[k].mask
  BY KernelSteps
<1>2. /\ UNCHANGED <<vars, taken, registry, launched>>
      /\ \/ UNCHANGED <<watch, path>>
         \/ /\ watch' = [watch EXCEPT ![i] = NoWatch]
            /\ path' = [d \in Dirs |-> IF path[d] = i THEN Gone ELSE path[d]]
  BY KernelSteps
<1>3. /\ sent' \in Seq(Events) /\ taken' \in 0 .. Len(sent')
      /\ HalfEvents' /\ SentOnce' /\ HistoryRead'
  BY <1>1, <1>2, Queued DEF vars
<1>4. Names' /\ KernelType'
  <2>1. NoWatch \in [wd : 0 .. Cardinality(Inodes), mask : SUBSET AllEvents]
    <3>1. 0 \in 0 .. Cardinality(Inodes)
      BY EventsAssumption, FS_CardinalityType
    <3> QED
      BY <3>1 DEF NoWatch
  <2>2. watch' \in [Inodes -> [wd : 0 .. Cardinality(Inodes), mask : SUBSET AllEvents]]
    <3>1. watch \in [Inodes -> [wd : 0 .. Cardinality(Inodes), mask : SUBSET AllEvents]]
      BY DEF EventsInv, Surroundings, KernelType
    <3> QED
      BY <1>2, <2>1, <3>1
  <2>3. Names'
    BY <1>2 DEF registry, EventsInv, Surroundings, Names
  <2> QED
    BY <1>3, <2>2, <2>3 DEF KernelType
<1> QED
  BY <1>2, <1>3, <1>4 DEF registry, EventsInv, RegistryType, Surroundings

LEMMA OverflowStep == EventsInv /\ KernelOverflow => Surroundings'
<1> SUFFICES ASSUME EventsInv, KernelOverflow PROVE Surroundings'
  OBVIOUS
<1> DEFINE e == [wd |-> -1, mask |-> {"q_overflow"}, cok |-> 0, ino |-> Gone]
<1>1. e \in Events
  BY DEF Events
<1>2. sent' = Append(sent, e) /\ UNCHANGED <<vars, path, watch, taken, registry, launched>>
  BY DEF KernelOverflow
<1>3. e.mask \cap Sides = {}
  BY DEF Sides
<1> HIDE DEF e
<1>4. /\ sent' \in Seq(Events) /\ taken' \in 0 .. Len(sent')
      /\ HalfEvents' /\ SentOnce' /\ HistoryRead'
  BY <1>1, <1>2, <1>3, Queued DEF vars
<1> QED
  BY <1>2, <1>4 DEF registry, EventsInv, Names, KernelType, RegistryType, Surroundings

LEMMA ReplaceStep ==
  ASSUME EventsInv, NEW d \in Dirs, Replace(d)
  PROVE  Surroundings'
<1>1. path' \in [Dirs -> Inodes \cup {Gone}]
  BY DEF Replace, EventsInv, Surroundings, Names
<1> QED
  BY <1>1 DEF Replace, vars, registry, EventsInv, Names, KernelType, RegistryType, HalfEvents,
              SentOnce, HistoryRead, Surroundings

LEMMA EventsInvStep == EventsInv /\ [EventsNext]_allvars => EventsInv'
<1> SUFFICES ASSUME EventsInv, [EventsNext]_allvars PROVE EventsInv'
  OBVIOUS
<1>1. FaithfulInv'
  BY EventsHappens, FaithfulStep DEF EventsInv
<1>2. ASSUME UNCHANGED allvars
      PROVE  Surroundings'
  BY <1>2 DEF allvars, evars, kernel, registry, vars, EventsInv, Names, KernelType, RegistryType,
              HalfEvents, SentOnce, HistoryRead, Surroundings
<1>3. Surroundings'
  BY <1>2, ReadStep, InitStep, TakeStep, KernelStep, OverflowStep, ReplaceStep DEF EventsNext
<1> QED
  BY <1>1, <1>3 DEF EventsInv

(* Every variable of the system keeps its type: watch descriptors run from  *)
(* 1 to the number of inodes, and what is launched was an event of the      *)
(* queue with the inode of a directory.                                     *)
THEOREM EventsTypeCorrect == EventsSpec => []EventsTypeOK
<1>1. EventsSpec => []EventsInv
  BY EventsInvInit, EventsInvStep, PTL DEF EventsSpec
<1> QED
  BY <1>1, EventsInvType, PTL

-----------------------------------------------------------------------------
(***************************************************************************)
(* Watches.  A descriptor a directory holds is that of the inode it was     *)
(* opened on, on the watch and on the events not taken yet: those of older  *)
(* watches, with the same numbers, went with the old inotify instance.      *)
(***************************************************************************)
HeldOpen == \A d \in Dirs : dir_wd[d] # -1 => opened[d] # Gone

HeldWatches ==
  \A i \in Inodes : \A d \in Dirs :
    watch[i].wd # 0 /\ dir_wd[d] = watch[i].wd => opened[d] = i

HeldAlike ==
  \A d, f \in Dirs : dir_wd[d] = dir_wd[f] /\ dir_wd[d] # -1 => opened[d] = opened[f]

HeldEvents ==
  \A k \in DOMAIN sent : \A d \in Dirs :
    k > taken /\ sent[k].wd # -1 /\ dir_wd[d] = sent[k].wd => opened[d] = sent[k].ino

InodesApart ==
  \A k, l \in DOMAIN dirs : dir_ino[dirs[k]] = dir_ino[dirs[l]] => k = l

WatchInv ==
  /\ HeldOpen
  /\ HeldWatches
  /\ HeldAlike
  /\ HeldEvents
  /\ InodesApart
  /\ RightDirectory

LEMMA WatchInit == EventsInit => WatchInv
  BY DEF EventsInit, WatchInv, HeldOpen, HeldWatches, HeldAlike, HeldEvents, InodesApart,
         RightDirectory, NoWatch

LEMMA WatchRead == EventsInv /\ WatchInv /\ ReadConfiguration => WatchInv'
<1> SUFFICES ASSUME EventsInv, WatchInv, ReadConfiguration PROVE WatchInv'
  OBVIOUS
<1>1. \A d \in Dirs : dir_wd'[d] = -1 /\ opened'[d] = Gone
  BY DEF ReadConfiguration
<1>2. UNCHANGED <<watch, sent, taken, launched>>
  BY DEF ReadConfiguration, kernel
<1>3. HeldOpen' /\ HeldAlike' /\ HeldEvents'
  BY <1>1 DEF HeldOpen, HeldAlike, HeldEvents
<1>4. HeldWatches'
  <2>1. \A i \in Inodes : watch[i].wd # -1
    BY EventsAssumption, FS_CardinalityType DEF EventsInv, Surroundings, KernelType
  <2> QED
    BY <1>1, <1>2, <2>1 DEF HeldWatches
<1>5. InodesApart'
  <2>1. PICK n \in 1 .. Cardinality(Dirs) : \E s \in [1 .. n -> Dirs] :
          /\ \A k, l \in 1 .. n : path[s[k]] = path[s[l]] => k = l
          /\ dirs' = s
          /\ dir_ino' = [d \in Dirs |-> IF \E k \in 1 .. n : s[k] = d THEN path[d] ELSE Gone]
    BY DEF ReadConfiguration
  <2>2. PICK s \in [1 .. n -> Dirs] :
          /\ \A k, l \in 1 .. n : path[s[k]] = path[s[l]] => k = l
          /\ dirs' = s
          /\ dir_ino' = [d \in Dirs |-> IF \E k \in 1 .. n : s[k] = d THEN path[d] ELSE Gone]
    BY <2>1
  <2>3. \A k \in 1 .. n : dir_ino'[s[k]] = path[s[k]]
    BY <2>2
  <2>4. DOMAIN dirs' = 1 .. n
    BY <2>2
  <2> QED
    BY <2>2, <2>3, <2>4 DEF InodesApart
<1>6. RightDirectory'
  BY <1>2 DEF WatchInv, RightDirectory
<1> QED
  BY <1>3, <1>4, <1>5, <1>6 DEF WatchInv

LEMMA WatchInitEvents == EventsInv /\ WatchInv /\ InitEvents => WatchInv'
<1> SUFFICES ASSUME EventsInv, WatchInv, InitEvents PROVE WatchInv'
  OBVIOUS
<1>1. Names
  BY DEF EventsInv, Surroundings
<1>2. PICK failed \in SUBSET Dirs :
           /\ \A i \in Inodes :
                \/ /\ i \in WatchedInodes(failed)
                   /\ watch'[i] = [wd |-> WatchNumber(i, failed), mask |-> LastMask(i, failed)]
                \/ watch'[i] = NoWatch
           /\ \A d \in Dirs :
                \/ /\ path[d] \in WatchedInodes(failed)
                   /\ path[d] # Gone
                   /\ dir_wd'[d] = WatchNumber(path[d], failed)
                   /\ opened'[d] = path[d]
                \/ dir_wd'[d] = -1 /\ opened'[d] = Gone
  BY <1>1, WatchesSet DEF InitEvents
<1>3. \A i \in WatchedInodes(failed) : WatchNumber(i, failed) # -1
  BY <1>1, NumberType
<1>4. \A i, j \in WatchedInodes(failed) : WatchNumber(i, failed) = WatchNumber(j, failed) => i = j
  BY <1>1, NumbersDiffer
<1>5. HeldOpen'
  BY <1>2 DEF HeldOpen
<1>6. HeldWatches'
  <2> SUFFICES ASSUME NEW i \in Inodes, NEW d \in Dirs, watch'[i].wd # 0, dir_wd'[d] = watch'[i].wd
               PROVE  opened'[d] = i
    BY DEF HeldWatches
  <2>1. i \in WatchedInodes(failed) /\ watch'[i].wd = WatchNumber(i, failed)
    <3>1. watch'[i] # NoWatch
      BY DEF NoWatch
    <3>2. /\ i \in WatchedInodes(failed)
          /\ watch'[i] = [wd |-> WatchNumber(i, failed), mask |-> LastMask(i, failed)]
      BY <1>2, <3>1
    <3> QED
      BY <3>2
  <2>2. /\ path[d] \in WatchedInodes(failed)
        /\ dir_wd'[d] = WatchNumber(path[d], failed)
        /\ opened'[d] = path[d]
    BY <1>2, <1>3, <2>1
  <2> QED
    BY <1>4, <2>1, <2>2
<1>7. HeldAlike'
  <2> SUFFICES ASSUME NEW d \in Dirs, NEW f \in Dirs, dir_wd'[d] = dir_wd'[f], dir_wd'[d] # -1
               PROVE  opened'[d] = opened'[f]
    BY DEF HeldAlike
  <2> QED
    BY <1>2, <1>4
<1>8. HeldEvents'
  <2>1. \A k \in DOMAIN sent : ~(k > Len(sent))
    BY LenProperties DEF EventsInv, Surroundings, KernelType
  <2> QED
    BY <2>1 DEF InitEvents, HeldEvents
<1>9. InodesApart' /\ RightDirectory'
  BY DEF InitEvents, WatchInv, InodesApart, RightDirectory
<1> QED
  BY <1>5, <1>6, <1>7, <1>8, <1>9 DEF WatchInv

LEMMA WatchTake == EventsInv /\ WatchInv /\ TakeEvent => WatchInv'
<1> SUFFICES ASSUME EventsInv, WatchInv, TakeEvent PROVE WatchInv'
  OBVIOUS
<1> DEFINE e == sent[taken + 1]
<1>1. /\ UNCHANGED <<path, watch, sent, dirs, dir_ino, dir_wd, opened>>
      /\ taken < Len(sent) /\ taken' = taken + 1
  BY DEF TakeEvent, kernel, registry
<1>2. HeldOpen' /\ HeldWatches' /\ HeldAlike' /\ InodesApart'
  BY <1>1 DEF WatchInv, HeldOpen, HeldWatches, HeldAlike, InodesApart
<1>3. HeldEvents'
  <2>1. taken \in Nat /\ \A k \in DOMAIN sent : k \in Nat
    BY <1>1, NextEvent, LenProperties DEF EventsInv, Surroundings, KernelType
  <2>2. \A k \in DOMAIN sent : k > taken' => k > taken
    BY <1>1, <2>1
  <2>3. HeldEvents
    BY DEF WatchInv
  <2> QED
    BY <1>1, <2>2, <2>3 DEF HeldEvents
<1>4. ASSUME NEW k \in DOMAIN dirs, Owner(k, e.wd), HandleEvent(dirs[k], e)
      PROVE  RightDirectory'
  <2>1. dirs[k] \in Dirs
    BY LenProperties, ElementOfSeq DEF EventsInv, Surroundings, Names
  <2>2. e.wd # -1 => opened[dirs[k]] = e.ino
    <3>1. taken + 1 \in DOMAIN sent /\ taken + 1 > taken
      BY <1>1, NextEvent
    <3> QED
      BY <1>4, <2>1, <3>1 DEF Owner, WatchInv, HeldEvents
  <2>3. \/ launched' = launched
        \/ \E x \in Launches :
             /\ x.event = e /\ x.ino = opened[dirs[k]]
             /\ launched' = Append(launched, x)
    BY <1>1, <1>4, <2>1, HandleResult
  <2>4. launched \in Seq(Launches) /\ RightDirectory
    BY DEF EventsInv, Surroundings, WatchInv
  <2> HIDE DEF e
  <2>5. CASE launched' = launched
    BY <2>4, <2>5 DEF RightDirectory
  <2>6. ASSUME NEW x \in Launches, x.event = e, x.ino = opened[dirs[k]],
               launched' = Append(launched, x)
        PROVE  RightDirectory'
    <3>1. \A m \in DOMAIN launched' :
            launched'[m] = x \/ (m \in DOMAIN launched /\ launched'[m] = launched[m])
      BY <2>4, <2>6, AppendTo
    <3> QED
      BY <2>2, <2>4, <2>6, <3>1 DEF RightDirectory
  <2> QED
    BY <2>3, <2>5, <2>6
<1>5. RightDirectory'
  BY <1>4 DEF TakeEvent, WatchInv, RightDirectory
<1> QED
  BY <1>2, <1>3, <1>5 DEF WatchInv

(* An event more, from a watch, and perhaps a watch less.                   *)
LEMMA WatchQueued ==
  ASSUME EventsInv, WatchInv, NEW e \in Events, sent' = Append(sent, e),
         e.wd = -1 \/ (e.ino \in Inodes /\ e.wd = watch[e.ino].wd /\ e.wd # 0),
         UNCHANGED <<taken, registry, launched>>,
         \A i \in Inodes : watch'[i] \in {watch[i], NoWatch}
  PROVE  WatchInv'
<1>1. UNCHANGED <<dirs, dir_ino, dir_wd, opened>>
  BY DEF registry
<1>2. HeldOpen' /\ HeldAlike' /\ InodesApart' /\ RightDirectory'
  BY <1>1 DEF WatchInv, HeldOpen, HeldAlike, InodesApart, RightDirectory
<1>3. HeldWatches'
  BY <1>1 DEF WatchInv, HeldWatches, NoWatch
<1>4. HeldEvents'
  <2>1. sent \in Seq(Events)
    BY DEF EventsInv, Surroundings, KernelType
  <2>2. \A k \in DOMAIN sent' : sent'[k] = e \/ (k \in DOMAIN sent /\ sent'[k] = sent[k])
    BY <2>1, AppendTo
  <2>3. \A d \in Dirs : e.wd # -1 /\ dir_wd[d] = e.wd => opened[d] = e.ino
    BY DEF WatchInv, HeldWatches
  <2> QED
    BY <1>1, <2>2, <2>3 DEF WatchInv, HeldEvents
<1> QED
  BY <1>2, <1>3, <1>4 DEF WatchInv

LEMMA WatchStep == EventsInv /\ WatchInv /\ [EventsNext]_allvars => WatchInv'
<1> SUFFICES ASSUME EventsInv, WatchInv, [EventsNext]_allvars PROVE WatchInv'
  OBVIOUS
<1>1. ASSUME NEW i \in Inodes, KernelEvent(i) \/ KernelHalf(i) \/ KernelRemoved(i)
      PROVE  WatchInv'
  <2>1. PICK e \in Events :
          /\ sent' = Append(sent, e)
          /\ e.wd = watch[i].wd /\ e.wd # 0 /\ e.ino = i
    BY <1>1, KernelSteps
  <2>2. /\ UNCHANGED <<taken, registry, launched>>
        /\ UNCHANGED watch \/ watch' = [watch EXCEPT ![i] = NoWatch]
    BY <1>1, KernelSteps
  <2>3. \A j \in Inodes : watch'[j] \in {watch[j], NoWatch}
    <3>1. watch \in [Inodes -> [wd : 0 .. Cardinality(Inodes), mask : SUBSET AllEvents]]
      BY DEF EventsInv, Surroundings, KernelType
    <3> QED
      BY <2>2, <3>1
  <2> QED
    BY <2>1, <2>2, <2>3, WatchQueued
<1>2. CASE KernelOverflow
  <2> DEFINE e == [wd |-> -1, mask |-> {"q_overflow"}, cok |-> 0, ino |-> Gone]
  <2>1. e \in Events /\ e.wd = -1
    BY DEF Events
  <2>2. sent' = Append(sent, e) /\ UNCHANGED <<watch, taken, registry, launched>>
    BY <1>2 DEF KernelOverflow
  <2> HIDE DEF e
  <2> QED
    BY <2>1, <2>2, WatchQueued
<1>3. ASSUME NEW d \in Dirs, Replace(d)
      PROVE  WatchInv'
  BY <1>3 DEF Replace, registry, WatchInv, HeldOpen, HeldWatches, HeldAlike, HeldEvents,
              InodesApart, RightDirectory
<1>4. CASE UNCHANGED allvars
  BY <1>4 DEF allvars, evars, kernel, registry, WatchInv, HeldOpen, HeldWatches, HeldAlike,
              HeldEvents, InodesApart, RightDirectory
<1> QED
  BY <1>1, <1>2, <1>3, <1>4, WatchRead, WatchInitEvents, WatchTake DEF EventsNext

LEMMA Watches == EventsSpec => [](EventsInv /\ WatchInv)
  BY EventsInvInit, EventsInvStep, WatchInit, WatchStep, PTL DEF EventsSpec

(* A command runs for the directory its event happened in, although watch   *)
(* descriptors start from 1 again at each reading of the configuration.     *)
THEOREM RightDirectoryAlways == EventsSpec => []RightDirectory
  BY Watches, PTL DEF WatchInv

(* Two registered directories never share a watch, as long as the names     *)
(* lead where they led when they were registered.                           *)
THEOREM DistinctWatchesAlways == EventsSpec => []DistinctWatches
<1>1. EventsInv /\ WatchInv => DistinctWatches
  <2> SUFFICES ASSUME EventsInv, WatchInv, SameInodes,
                      NEW k \in DOMAIN dirs, NEW l \in DOMAIN dirs,
                      dir_wd[dirs[k]] = dir_wd[dirs[l]], dir_wd[dirs[k]] # -1
               PROVE  k = l
    BY DEF DistinctWatches
  <2>1. dirs[k] \in Dirs /\ dirs[l] \in Dirs
    BY LenProperties, ElementOfSeq DEF EventsInv, Surroundings, Names
  <2>2. opened[dirs[k]] = opened[dirs[l]] /\ opened[dirs[k]] # Gone
    BY <2>1 DEF WatchInv, HeldOpen, HeldAlike
  <2>3. dir_ino[dirs[k]] = opened[dirs[k]] /\ dir_ino[dirs[l]] = opened[dirs[l]]
    BY <2>2 DEF SameInodes
  <2> QED
    BY <2>2, <2>3 DEF WatchInv, InodesApart
<1> QED
  BY <1>1, Watches, PTL

-----------------------------------------------------------------------------
(***************************************************************************)
(* Reports and readings.  No purge came since a half that is still pending  *)
(* was read; so none came between the halves of the report it ends in.      *)
(***************************************************************************)
NoPurge(k, l) == \A m \in k .. l : history[m].fate # "purge"

PendingSince ==
  \A d \in Dirs : \A i \in DOMAIN renamed[d] : \A k \in DOMAIN history :
    history[k].half = cell[renamed[d][i]] => NoPurge(k, Len(history))

ReadingInv == PendingSince /\ PairedInOneReading

LEMMA ReadingInit == Init => ReadingInv
  BY DEF Init, ReadingInv, PendingSince, PairedInOneReading

(* One more half read: what was true of the entries before it stays so.     *)
LEMMA NotedSince ==
  ASSUME FaithfulInv, NEW h \in Halves, Fresh(h), NEW f \in Fates \ {"purge"}, Note(h, f)
  PROVE  /\ history' \in Seq(Entries)
         /\ \A k \in DOMAIN history' :
              \/ k \in DOMAIN history /\ history'[k] = history[k]
              \/ k = Len(history') /\ history'[k].half = h /\ history'[k].fate = f
         /\ \A k \in DOMAIN history : history[k].half # h
         /\ \A k, l \in DOMAIN history : NoPurge(k, l) => NoPurge(k, l)'
         /\ \A k \in DOMAIN history : NoPurge(k, Len(history)) => NoPurge(k, Len(history))'
         /\ \A k \in DOMAIN history' : NoPurge(Len(history), k)'
<1> DEFINE n == Len(history)
           x == [half |-> h, fate |-> f]
<1>1. history \in Seq(Entries) /\ x \in Entries /\ history' = Append(history, x)
  BY DEF Note, Entries, FaithfulInv, OwnedInv, TypeInv, TypeOK
<1>2. x.half = h /\ x.fate = f
  OBVIOUS
<1> HIDE DEF x
<1>3. /\ history' \in Seq(Entries)
      /\ Len(history') = n + 1
      /\ history'[n + 1] = x
      /\ \A k \in DOMAIN history : history'[k] = history[k]
      /\ n \in Nat
      /\ DOMAIN history = 1 .. n
      /\ DOMAIN history' = 1 .. n + 1
  BY <1>1, AppendTo, LenProperties
<1>4. \A k \in DOMAIN history : history[k].half # h
  <2>1. \A k \in DOMAIN history : history[k].fate = "purge" => history[k].half \notin Halves
    BY RenamesAssumption DEF FaithfulInv, OwnedInv, TypeInv, PurgesHoldNone
  <2> QED
    BY <2>1 DEF Fresh
<1>5. \A k, l \in DOMAIN history : NoPurge(k, l) => NoPurge(k, l)'
  BY <1>3 DEF NoPurge
<1>6. \A k \in DOMAIN history : NoPurge(k, n) => NoPurge(k, n)'
  BY <1>2, <1>3 DEF NoPurge
<1>7. \A k \in DOMAIN history' : NoPurge(n, k)'
  BY <1>2, <1>3 DEF NoPurge
<1> QED
  BY <1>2, <1>3, <1>4, <1>5, <1>6, <1>7

LEMMA PairReading ==
  ASSUME FaithfulInv, ReadingInv, NEW h \in Halves, Fresh(h), Pair(h)
  PROVE  ReadingInv'
<1> DEFINE n == Len(history)
<1>1. PICK i \in DOMAIN renamed[h.dir] :
        /\ renamed' = [renamed EXCEPT ![h.dir] = SubSeq(@, i + 1, Len(@))]
        /\ reports' = Append(reports, Report(cell[renamed[h.dir][i]], h))
        /\ UNCHANGED cell
  BY DEF Pair
<1> DEFINE g == cell[renamed[h.dir][i]]
<1>2. Note(h, "paired") /\ "paired" \in Fates \ {"purge"}
  BY DEF Pair, Fates
<1>3. h.dir \in Dirs /\ g \in Halves /\ TypeOK
  BY <1>1 DEF Halves, FaithfulInv, OwnedInv, TypeInv, ListedHoldHalves
<1>4. /\ history' \in Seq(Entries)
      /\ \A k \in DOMAIN history' :
           \/ k \in DOMAIN history /\ history'[k] = history[k]
           \/ k = Len(history') /\ history'[k].half = h
      /\ \A k, l \in DOMAIN history : NoPurge(k, l) => NoPurge(k, l)'
      /\ \A k \in DOMAIN history : NoPurge(k, Len(history)) => NoPurge(k, Len(history))'
      /\ \A k \in DOMAIN history' : NoPurge(Len(history), k)'
      /\ \A k \in DOMAIN history : history[k].half # h
  BY <1>2, NotedSince
<1>5. PendingSince'
  <2> SUFFICES ASSUME NEW d \in Dirs, NEW j \in DOMAIN renamed'[d], NEW k \in DOMAIN history',
                      history'[k].half = cell[renamed'[d][j]]
               PROVE  NoPurge(k, Len(history))'
    BY <1>1 DEF PendingSince, NoPurge
  <2>1. Before(h, i, d, j) \in DOMAIN renamed[d] /\ renamed'[d][j] = renamed[d][Before(h, i, d, j)]
    <3>1. TypeOK /\ renamed' = [renamed EXCEPT ![h.dir] = SubSeq(@, i + 1, Len(@))]
      BY <1>1, <1>3
    <3> QED
      BY <3>1, UnlinkedLists
  <2>2. CASE k \in DOMAIN history /\ history'[k] = history[k]
    <3>1. NoPurge(k, Len(history))
      BY <2>1, <2>2 DEF ReadingInv, PendingSince
    <3> QED
      BY <1>4, <2>2, <3>1
  <2>3. CASE k = Len(history')
    BY <1>4, <2>3
  <2> QED
    BY <1>4, <2>2, <2>3
<1>6. PairedInOneReading'
  <2> SUFFICES ASSUME NEW r \in DOMAIN reports', NEW k \in DOMAIN history', NEW l \in DOMAIN history',
                      history'[k].half \in {reports'[r].old, reports'[r].new},
                      history'[l].half \in {reports'[r].old, reports'[r].new}
               PROVE  \A m \in k .. l : history'[m].fate # "purge"
    BY DEF PairedInOneReading
  <2>1. Report(g, h) \in [old : Halves, new : Halves]
    <3> HIDE DEF g
    <3> QED
      BY <1>3 DEF Report
  <2>2. (r \in DOMAIN reports /\ reports'[r] = reports[r]) \/ reports'[r] = Report(g, h)
    BY <1>1, <1>3, <2>1, AppendTo DEF TypeOK
  <2>3. CASE r \in DOMAIN reports /\ reports'[r] = reports[r]
    <3>1. reports[r].old # h /\ reports[r].new # h
      <4>1. WasRead(reports[r].old) /\ WasRead(reports[r].new)
        BY <2>3 DEF FaithfulInv, ReportsFaithful
      <4> QED
        BY <1>4, <4>1 DEF WasRead
    <3>2. k \in DOMAIN history /\ l \in DOMAIN history /\ history'[k] = history[k] /\ history'[l] = history[l]
      BY <1>4, <2>3, <3>1
    <3>3. NoPurge(k, l)
      BY <2>3, <3>2 DEF ReadingInv, PairedInOneReading, NoPurge
    <3>4. NoPurge(k, l)'
      BY <1>4, <3>2, <3>3
    <3> QED
      BY <3>4 DEF NoPurge
  <2>4. CASE reports'[r] = Report(g, h)
    <3>1. {reports'[r].old, reports'[r].new} = {g, h}
      <4> HIDE DEF g
      <4> QED
        BY <2>4 DEF Report
    <3>2. NoPurge(k, Len(history))'
      <4>1. CASE k \in DOMAIN history /\ history'[k] = history[k]
        <5>1. history[k].half = g
          BY <1>4, <3>1, <4>1
        <5>2. NoPurge(k, Len(history))
          BY <1>1, <1>3, <4>1, <5>1 DEF ReadingInv, PendingSince
        <5> QED
          BY <1>4, <4>1, <5>2
      <4>2. CASE k = Len(history')
        BY <1>4, <4>2
      <4> QED
        BY <1>4, <4>1, <4>2
    <3>3. k \in Nat /\ l \in Nat /\ l <= Len(history') /\ Len(history') \in Nat
      BY <1>4, LenProperties
    <3> QED
      BY <3>2, <3>3 DEF NoPurge
  <2> QED
    BY <2>2, <2>3, <2>4
<1> QED
  BY <1>5, <1>6 DEF ReadingInv

(* A step that reports nothing.                                             *)
LEMMA UnreportedReading ==
  ASSUME FaithfulInv, ReadingInv, NEW h \in Halves, Fresh(h), NEW f \in Fates \ {"purge"},
         Note(h, f), UNCHANGED reports
  PROVE  PairedInOneReading'
<1> SUFFICES ASSUME NEW r \in DOMAIN reports, NEW k \in DOMAIN history', NEW l \in DOMAIN history',
                    history'[k].half \in {reports[r].old, reports[r].new},
                    history'[l].half \in {reports[r].old, reports[r].new}
             PROVE  \A m \in k .. l : history'[m].fate # "purge"
  BY DEF PairedInOneReading
<1>1. reports[r].old # h /\ reports[r].new # h
  <2>1. WasRead(reports[r].old) /\ WasRead(reports[r].new)
    BY DEF FaithfulInv, ReportsFaithful
  <2> QED
    BY <2>1, NotedSince DEF WasRead
<1>2. k \in DOMAIN history /\ l \in DOMAIN history /\ history'[k] = history[k] /\ history'[l] = history[l]
  BY <1>1, NotedSince
<1>3. NoPurge(k, l)
  BY <1>2 DEF ReadingInv, PairedInOneReading, NoPurge
<1>4. NoPurge(k, l)'
  BY <1>2, <1>3, NotedSince
<1> QED
  BY <1>4 DEF NoPurge

LEMMA KeepReading ==
  ASSUME FaithfulInv, ReadingInv, NEW h \in Halves, Fresh(h), KeepInFreeCell(h) \/ KeepInNewCell(h)
  PROVE  ReadingInv'
<1>1. PICK c \in Cells :
        /\ Insert(c, h)
        /\ \A d \in Dirs : \A i \in DOMAIN renamed[d] : renamed[d][i] # c
  BY KeptApart DEF FaithfulInv
<1>2. Note(h, "kept") /\ UNCHANGED reports /\ "kept" \in Fates \ {"purge"}
  BY <1>1 DEF Insert, Fates
<1>3. /\ \A k \in DOMAIN history' :
           \/ k \in DOMAIN history /\ history'[k] = history[k]
           \/ k = Len(history')
      /\ \A k \in DOMAIN history : NoPurge(k, Len(history)) => NoPurge(k, Len(history))'
      /\ \A k \in DOMAIN history' : NoPurge(Len(history), k)'
      /\ \A k \in DOMAIN history : history[k].half # h
  BY <1>2, NotedSince
<1>4. PendingSince'
  <2> SUFFICES ASSUME NEW d \in Dirs, NEW j \in DOMAIN renamed'[d], NEW k \in DOMAIN history',
                      history'[k].half = cell'[renamed'[d][j]]
               PROVE  NoPurge(k, Len(history))'
    BY DEF PendingSince, NoPurge
  <2>1. CASE k \in DOMAIN history /\ history'[k] = history[k]
    <3>1. \/ cell'[renamed'[d][j]] = h
          \/ /\ Behind(h, d, j) \in DOMAIN renamed[d]
             /\ cell'[renamed'[d][j]] = cell[renamed[d][Behind(h, d, j)]]
      BY <1>1, KeptContents DEF FaithfulInv, OwnedInv, TypeInv
    <3>2. NoPurge(k, Len(history))
      BY <1>3, <2>1, <3>1 DEF ReadingInv, PendingSince
    <3> QED
      BY <1>3, <2>1, <3>2
  <2>2. CASE k = Len(history')
    BY <1>3, <2>2
  <2> QED
    BY <1>3, <2>1, <2>2
<1>5. PairedInOneReading'
  BY <1>2, UnreportedReading
<1> QED
  BY <1>4, <1>5 DEF ReadingInv

LEMMA SkipReading ==
  ASSUME FaithfulInv, ReadingInv, NEW h \in Halves, Fresh(h), SkipHalf(h)
  PROVE  ReadingInv'
<1>1. Note(h, "skipped") /\ UNCHANGED <<renamed, cell, reports>> /\ "skipped" \in Fates \ {"purge"}
  BY DEF SkipHalf, Fates
<1>2. PendingSince'
  <2> SUFFICES ASSUME NEW d \in Dirs, NEW j \in DOMAIN renamed[d], NEW k \in DOMAIN history',
                      history'[k].half = cell[renamed[d][j]]
               PROVE  NoPurge(k, Len(history))'
    BY <1>1 DEF PendingSince, NoPurge
  <2>1. CASE k \in DOMAIN history /\ history'[k] = history[k]
    <3>1. NoPurge(k, Len(history))
      BY <2>1 DEF ReadingInv, PendingSince
    <3> QED
      BY <1>1, <2>1, <3>1, NotedSince
  <2>2. CASE k = Len(history')
    BY <1>1, <2>2, NotedSince
  <2> QED
    BY <1>1, <2>1, <2>2, NotedSince
<1>3. PairedInOneReading'
  BY <1>1, UnreportedReading
<1> QED
  BY <1>2, <1>3 DEF ReadingInv

LEMMA PurgeReading ==
  ASSUME FaithfulInv, ReadingInv, Purge
  PROVE  ReadingInv'
<1>1. PendingSince'
  BY DEF Purge, PendingSince
<1>2. PairedInOneReading'
  <2> DEFINE x == [half |-> NoHalf, fate |-> "purge"]
  <2>1. history \in Seq(Entries) /\ x \in Entries /\ history' = Append(history, x) /\ x.half = NoHalf
    BY DEF Purge, Note, Entries, Fates, FaithfulInv, OwnedInv, TypeInv, TypeOK
  <2> HIDE DEF x
  <2>2. /\ \A k \in DOMAIN history' :
             (k \in DOMAIN history /\ history'[k] = history[k]) \/ history'[k].half = NoHalf
        /\ \A k \in DOMAIN history : history'[k] = history[k]
        /\ DOMAIN history = 1 .. Len(history) /\ Len(history) \in Nat
    BY <2>1, AppendTo, LenProperties
  <2> SUFFICES ASSUME NEW r \in DOMAIN reports, NEW k \in DOMAIN history', NEW l \in DOMAIN history',
                      history'[k].half \in {reports[r].old, reports[r].new},
                      history'[l].half \in {reports[r].old, reports[r].new}
               PROVE  \A m \in k .. l : history'[m].fate # "purge"
    BY DEF Purge, PairedInOneReading
  <2>3. reports[r].old # NoHalf /\ reports[r].new # NoHalf
    BY ReportedHalves, RenamesAssumption DEF FaithfulInv, OwnedInv, TypeInv
  <2>4. k \in DOMAIN history /\ l \in DOMAIN history /\ history'[k] = history[k] /\ history'[l] = history[l]
    BY <2>2, <2>3
  <2>5. \A m \in k .. l : m \in DOMAIN history /\ history[m].fate # "purge"
    BY <2>2, <2>4 DEF ReadingInv, PairedInOneReading
  <2> QED
    BY <2>2, <2>5
<1> QED
  BY <1>1, <1>2 DEF ReadingInv

LEMMA ReadingStep == FaithfulInv /\ ReadingInv /\ Happens => ReadingInv'
<1> SUFFICES ASSUME FaithfulInv, ReadingInv, Happens PROVE ReadingInv'
  OBVIOUS
<1>1. CASE UNCHANGED vars
  BY <1>1 DEF vars, ReadingInv, PendingSince, NoPurge, PairedInOneReading
<1> QED
  BY <1>1, PairReading, KeepReading, SkipReading, PurgeReading DEF Happens, MoveEvent

(* A report never joins halves of two readings of the configuration.        *)
THEOREM PairedInOneReadingAlways == EventsSpec => []PairedInOneReading
<1>1. EventsInit => ReadingInv
  BY ReadingInit DEF EventsInit
<1>2. EventsInv /\ ReadingInv /\ [EventsNext]_allvars => ReadingInv'
  BY EventsHappens, ReadingStep DEF EventsInv
<1>3. EventsSpec => [](EventsInv /\ ReadingInv)
  BY <1>1, <1>2, EventsInvInit, EventsInvStep, PTL DEF EventsSpec
<1> QED
  BY <1>3, PTL DEF ReadingInv

-----------------------------------------------------------------------------
(***************************************************************************)
(* Rename correlation within the loop: what Renames promises when it is     *)
(* given fresh halves, the loop, the kernel and the readings of the         *)
(* configuration leave true.                                                *)
(***************************************************************************)

(* Cells stay owned once, and reports faithful, whatever the loop does.     *)
THEOREM CorrelationWithinLoop == EventsSpec => [](CellsOwnedOnce /\ ReportsFaithful)
<1>1. EventsSpec => []EventsInv
  BY EventsInvInit, EventsInvStep, PTL DEF EventsSpec
<1> QED
  BY <1>1, PTL DEF EventsInv, FaithfulInv, OwnedInv

(* Halves that come one after the other are reported, in the loop too.      *)
THEOREM BackToBackWithinLoop == EventsSpec => []BackToBackReported
<1>1. EventsInit => BackInv
  BY BackInit DEF EventsInit
<1>2. EventsInv /\ BackInv /\ [EventsNext]_allvars => BackInv'
  BY EventsHappens, BackStep DEF EventsInv, FaithfulInv
<1>3. EventsSpec => [](EventsInv /\ BackInv)
  BY <1>1, <1>2, EventsInvInit, EventsInvStep, PTL DEF EventsSpec
<1> QED
  BY <1>3, PTL DEF BackInv

(* The whole loop keeps the promise of RenamePairing.                       *)
THEOREM LoopKeepsPromise == EventsSpec => PairingSpec
<1>1. EventsInit => Pairing!Init
  BY PairingInit DEF EventsInit
<1>2. EventsInv /\ [EventsNext]_allvars => [Pairing!Next]_(Pairing!vars)
  BY EventsHappens, PairingStep DEF EventsInv
<1> QED
  BY <1>1, <1>2, EventsInvInit, EventsInvStep, PTL DEF EventsSpec, PairingSpec, Pairing!Spec
=============================================================================
