-------------------------- MODULE ConfigurationProofs --------------------------
(***************************************************************************)
(* What is proved about Configuration, for all files, directories, events   *)
(* and commands, any number of readings and any sharing of events, and      *)
(* about LineReader, for all files and a buffer of any size.                *)
(***************************************************************************)
EXTENDS Configuration, LineReader, SequenceLemmas, FunctionTheorems

-----------------------------------------------------------------------------
(* The line that is read, and its argument.                                 *)
Frames(c) == [name : DOMAIN c, pos : Nat, todo : Seq(Names)]

LEMMA CurrentFile ==
  ASSUME TypeOK, phase = "reading"
  PROVE  /\ stack # <<>>
         /\ 1 \in DOMAIN stack
         /\ stack[1] \in Frames(content)
         /\ Text \in Seq(Lines)
         /\ stack[1].pos \in 0 .. Len(Text)
         /\ content \in Contents
<1>1. stack # <<>> /\ stack \in Seq(Frames(content))
  BY DEF TypeOK, Frames
<1>2. Len(stack) \in Nat \ {0} /\ DOMAIN stack = 1 .. Len(stack) /\ 1 \in 1 .. Len(stack)
  BY <1>1, EmptySeq, LenProperties
<1>3. stack[1] \in Frames(content)
  BY <1>1, <1>2, ElementOfSeq
<1>4. content \in Contents
  BY <1>3 DEF TypeOK, Frames
<1>5. Text \in Seq(Lines)
  BY <1>3, <1>4, ConfigurationAssumption DEF Frames, Text
<1>6. stack[1].pos \in Nat /\ stack[1].pos <= Len(Text) /\ Len(Text) \in Nat
  BY <1>2, <1>3, <1>5, LenProperties DEF TypeOK, Frames, Text
<1> QED
  BY <1>1, <1>2, <1>3, <1>4, <1>5, <1>6

LEMMA CurrentLine ==
  ASSUME TypeOK, AtLine
  PROVE  /\ stack[1].pos + 1 \in 1 .. Len(Text)
         /\ Line \in Lines
         /\ Again => Line.arg = Bad
         /\ ~Again => Line = Text[stack[1].pos + 1]
<1>1. phase = "reading" /\ stack[1].pos # Len(Text) /\ stack[1].pos < Len(Text)
  BY CurrentFile DEF AtLine, Reading, AtEnd
<1>2. stack[1].pos + 1 \in 1 .. Len(Text) /\ Text \in Seq(Lines) /\ DOMAIN Text = 1 .. Len(Text)
      /\ stack[1].pos \in Nat /\ Len(Text) \in Nat
  BY <1>1, CurrentFile, LenProperties
<1>3. CASE ~Again
  BY <1>2, <1>3, ElementOfSeq DEF Line
<1>4. CASE Again
  <2>1. stack[1].name \in DOMAIN content /\ content \in Contents
    BY <1>1, CurrentFile DEF Frames
  <2>2. stack[1].pos + 1 > 1
    BY <1>2, <1>4, <2>1, ConfigurationAssumption DEF Again, Text
  <2>3. stack[1].pos \in 1 .. Len(Text)
    BY <1>2, <2>2
  <2>4. PICK l \in Lines : l = Text[stack[1].pos]
    BY <1>2, <2>3, ElementOfSeq
  <2>5. [kw |-> l.kw, arg |-> Bad] \in Lines
    BY DEF Lines
  <2> QED
    BY <1>2, <1>4, <2>4, <2>5 DEF Line
<1> QED
  BY <1>3, <1>4

LEMMA Arguments ==
  ASSUME NEW l \in Lines, l.arg # Bad
  PROVE  /\ l.kw = "event" => l.arg \in Ways
         /\ l.kw = "directory" => l.arg \in Inodes
         /\ l.kw = "include" => l.arg \in Seq(Names)
         /\ l.kw \in {"user", "group"} => l.arg \in Ids
         /\ l.kw = "shell" => l.arg \in Shells
         /\ l.kw = "logging" => l.arg \in Drivers
         /\ l.kw = "set" => l.arg \in [name : STRING, value : Values]
         /\ l.kw \in {"level", "pidfile"} => l.arg \in Values
  BY DEF Lines

LEMMA FrameReplaced ==
  ASSUME TypeOK, phase = "reading", NEW f \in Frames(content),
         f.name = stack[1].name, f.pos <= Len(Text),
         stack' = [stack EXCEPT ![1] = f], content' = content
  PROVE  /\ stack' \in Seq(Frames(content'))
         /\ \A k \in DOMAIN stack' : stack'[k].pos <= Len(content'[stack'[k].name])
         /\ Len(stack') <= MaxOpen
         /\ stack' # <<>>
<1>1. stack \in Seq(Frames(content)) /\ DOMAIN stack = 1 .. Len(stack) /\ Len(stack) \in Nat \ {0}
  BY CurrentFile, LenProperties, EmptySeq DEF TypeOK, Frames
<1>2. /\ stack' \in Seq(Frames(content)) /\ Len(stack') = Len(stack)
      /\ \A j \in 1 .. Len(stack) : stack'[j] = IF j = 1 THEN f ELSE stack[j]
  BY <1>1, ExceptSeq
<1>3. DOMAIN stack' = 1 .. Len(stack) /\ stack' # <<>>
  BY <1>1, <1>2, LenProperties, EmptySeq
<1>4. \A k \in DOMAIN stack' : stack'[k].pos <= Len(content[stack'[k].name])
  BY <1>1, <1>2, <1>3 DEF TypeOK, Text
<1> QED
  BY <1>1, <1>2, <1>3, <1>4 DEF TypeOK

LEMMA Advanced ==
  ASSUME TypeOK, AtLine, Advance, content' = content
  PROVE  /\ stack' \in Seq(Frames(content'))
         /\ \A k \in DOMAIN stack' : stack'[k].pos <= Len(content'[stack'[k].name])
         /\ Len(stack') <= MaxOpen
         /\ stack' # <<>>
         /\ taken' \in Seq(Lines)
<1> DEFINE f == [stack[1] EXCEPT !.pos = @ + 1]
<1>1. phase = "reading" /\ stack[1] \in Frames(content) /\ stack[1].pos + 1 \in 1 .. Len(Text)
      /\ Text \in Seq(Lines)
  BY CurrentFile, CurrentLine DEF AtLine, Reading
<1>2. f \in Frames(content) /\ f.name = stack[1].name /\ f.pos = stack[1].pos + 1
  BY <1>1 DEF Frames
<1>3. f.pos <= Len(Text)
  BY <1>1, <1>2, LenProperties
<1>4. CASE Again
  <2>1. stack' = stack /\ taken' = taken
    BY <1>4 DEF Advance
  <2> QED
    BY <1>1, <2>1, CurrentFile DEF TypeOK, Frames
<1>5. CASE ~Again
  <2>1. stack' = [stack EXCEPT ![1] = f] /\ taken' = Append(taken, Line)
    BY <1>5 DEF Advance
  <2>2. taken' \in Seq(Lines)
    BY <2>1, CurrentLine, AppendProperties DEF TypeOK
  <2> QED
    BY <1>1, <1>2, <1>3, <2>1, <2>2, FrameReplaced
<1> QED
  BY <1>4, <1>5

-----------------------------------------------------------------------------
(* What an EVENT directive does to the table of a sound directory: an       *)
(* action grows, or there is a new one at the end.                          *)
Grown(a, b, n, S) ==
  /\ n \in DOMAIN a
  /\ Len(b) = Len(a) /\ DOMAIN b = DOMAIN a
  /\ \A k \in DOMAIN a : b[k] = IF k = n THEN [mask |-> a[n].mask \cup S, command |-> a[n].command]
                                         ELSE a[k]

Added(a, b, w) ==
  /\ Len(b) = Len(a) + 1 /\ DOMAIN b = 1 .. Len(a) + 1
  /\ \A k \in DOMAIN b : b[k] = IF k \in DOMAIN a THEN a[k] ELSE w

LEMMA JoinedTable ==
  ASSUME NEW d \in Directories, Sound(d), NEW S \in (SUBSET Events) \ {{}}, NEW c \in Commands
  PROVE  LET j == Joined(d, S, c) IN
         /\ j \in Directories
         /\ j.mask = d.mask \cup S
         /\ \/ \E n \in DOMAIN d.actions : d.actions[n].command = c /\ Grown(d.actions, j.actions, n, S)
            \/ /\ \A n \in DOMAIN d.actions : d.actions[n].command # c
               /\ Added(d.actions, j.actions, [mask |-> S, command |-> c])
<1> DEFINE a == d.actions
           j == Joined(d, S, c)
           here == {n \in DOMAIN a : a[n].command = c}
           first == CHOOSE n \in here : \A m \in here : n <= m
           w == [mask |-> S, command |-> c]
<1>1. /\ a \in Seq(Ways) /\ DOMAIN a = 1 .. Len(a) /\ Len(a) \in Nat
      /\ \A n \in DOMAIN a : a[n] \in Ways
  BY LenProperties, ElementOfSeq DEF Directories
<1>2. w \in Ways
  BY DEF Ways
<1>3. CASE here = {}
  <2>1. j = [d EXCEPT !.mask = @ \cup S, !.actions = Append(@, w)]
    BY <1>3 DEF Joined
  <2>2. /\ Append(a, w) \in Seq(Ways) /\ Len(Append(a, w)) = Len(a) + 1
        /\ \A k \in 1 .. Len(a) : Append(a, w)[k] = a[k]
        /\ Append(a, w)[Len(a) + 1] = w
    BY <1>1, <1>2, AppendProperties
  <2>3. DOMAIN Append(a, w) = 1 .. Len(a) + 1
    BY <2>2, LenProperties
  <2>4. Added(a, Append(a, w), w)
    BY <1>1, <2>2, <2>3 DEF Added
  <2>5. j.actions = Append(a, w) /\ j.mask = d.mask \cup S /\ j \in Directories
    BY <2>1, <2>2 DEF Directories
  <2> QED
    BY <1>3, <2>4, <2>5
<1>4. CASE here # {}
  <2>1. PICK n \in here : TRUE
    BY <1>4
  <2>2. here = {n}
    BY <2>1 DEF Sound
  <2>3. first = n
    BY <1>1, <2>2
  <2> DEFINE b == [a EXCEPT ![n].mask = @ \cup S]
             v == [mask |-> a[n].mask \cup S, command |-> a[n].command]
  <2>4. j = [d EXCEPT !.mask = @ \cup S, !.actions = b]
    BY <1>4, <2>3 DEF Joined
  <2>5. v \in Ways /\ [a[n] EXCEPT !.mask = @ \cup S] = v
    <3>1. a[n] \in Ways
      BY <1>1, <2>1
    <3>2. a[n].mask \cup S \in (SUBSET Events) \ {{}} /\ a[n].command \in Commands
      BY <3>1 DEF Ways
    <3>3. v \in Ways
      BY <3>2 DEF Ways
    <3> QED
      BY <3>1, <3>3 DEF Ways
  <2>6. b = [a EXCEPT ![n] = v]
    BY <2>5
  <2>7. /\ b \in Seq(Ways) /\ Len(b) = Len(a)
        /\ \A k \in 1 .. Len(a) : b[k] = IF k = n THEN v ELSE a[k]
    <3> HIDE DEF a, b, v
    <3> QED
      BY <1>1, <2>1, <2>5, <2>6, ExceptSeq
  <2>8. DOMAIN b = DOMAIN a
    BY <1>1, <2>7, LenProperties
  <2>9. Grown(a, b, n, S)
    BY <1>1, <2>1, <2>7, <2>8 DEF Grown
  <2>10. j.actions = b /\ j.mask = d.mask \cup S /\ j \in Directories
    BY <2>4, <2>7 DEF Directories
  <2> QED
    BY <2>1, <2>9, <2>10
<1> QED
  BY <1>3, <1>4

LEMMA JoinedSound ==
  ASSUME NEW d \in Directories, Sound(d), NEW S \in (SUBSET Events) \ {{}}, NEW c \in Commands,
         S \cap d.mask = {}
  PROVE  Sound(Joined(d, S, c))
<1> DEFINE a == d.actions
           j == Joined(d, S, c)
           b == j.actions
<1>1. /\ j.mask = d.mask \cup S
      /\ \/ \E n \in DOMAIN a : a[n].command = c /\ Grown(a, b, n, S)
         \/ /\ \A n \in DOMAIN a : a[n].command # c
            /\ Added(a, b, [mask |-> S, command |-> c])
  BY JoinedTable
<1>2. \A n \in DOMAIN a : a[n].mask \subseteq d.mask
  BY DEF Sound
<1>3. DOMAIN a = 1 .. Len(a) /\ Len(a) \in Nat
  BY LenProperties DEF Directories
<1>4. ASSUME NEW n \in DOMAIN a, Grown(a, b, n, S)
      PROVE  Sound(j)
  <2>1. /\ DOMAIN b = DOMAIN a /\ \A k \in DOMAIN a : b[k].command = a[k].command
        /\ b[n].mask = a[n].mask \cup S /\ \A k \in DOMAIN a : k # n => b[k] = a[k]
    BY <1>4 DEF Grown
  <2>2. \A k, m \in DOMAIN b : k # m => b[k].mask \cap b[m].mask = {} /\ b[k].command # b[m].command
    BY <1>2, <2>1 DEF Sound
  <2>3. UNION {b[k].mask : k \in DOMAIN b} = d.mask \cup S
    BY <1>4, <2>1 DEF Sound
  <2> QED
    BY <1>1, <2>2, <2>3 DEF Sound
<1>5. ASSUME \A n \in DOMAIN a : a[n].command # c, Added(a, b, [mask |-> S, command |-> c])
      PROVE  Sound(j)
  <2> DEFINE l == Len(a) + 1
  <2>1. /\ DOMAIN b = DOMAIN a \cup {l} /\ l \notin DOMAIN a
        /\ \A k \in DOMAIN a : b[k] = a[k]
        /\ b[l].mask = S /\ b[l].command = c
    BY <1>3, <1>5 DEF Added
  <2>2. \A k, m \in DOMAIN b : k # m => b[k].mask \cap b[m].mask = {} /\ b[k].command # b[m].command
    BY <1>2, <1>5, <2>1 DEF Sound
  <2>3. UNION {b[k].mask : k \in DOMAIN b} = d.mask \cup S
    <3> HIDE DEF b, a, l
    <3>1. UNION {b[k].mask : k \in DOMAIN b} = (UNION {b[k].mask : k \in DOMAIN a}) \cup b[l].mask
      BY <2>1
    <3>2. UNION {b[k].mask : k \in DOMAIN a} = UNION {a[k].mask : k \in DOMAIN a}
      BY <2>1
    <3> QED
      BY <2>1, <3>1, <3>2 DEF Sound, a
  <2> QED
    BY <1>1, <2>2, <2>3 DEF Sound
<1> QED
  BY <1>1, <1>4, <1>5

(* The actions an event leads to, before and after.                         *)
For(t, e) == {n \in DOMAIN t : e \in t[n].mask}

LEMMA TableFor ==
  ASSUME NEW a, NEW b, NEW S, NEW c, NEW e,
         DOMAIN a = 1 .. Len(a), Len(a) \in Nat,
         e \in S => For(a, e) = {},
         \/ \E n \in DOMAIN a : a[n].command = c /\ Grown(a, b, n, S)
         \/ Added(a, b, [mask |-> S, command |-> c])
  PROVE  /\ e \in S => For(b, e) # {} /\ \A n \in For(b, e) : b[n].command = c
         /\ e \notin S => For(b, e) = For(a, e) /\ \A n \in For(a, e) : b[n].command = a[n].command
<1>1. ASSUME NEW n \in DOMAIN a, a[n].command = c, Grown(a, b, n, S)
      PROVE  /\ e \in S => n \in For(b, e) /\ For(b, e) = {n} /\ b[n].command = c
             /\ e \notin S => For(b, e) = For(a, e) /\ \A k \in For(a, e) : b[k].command = a[k].command
  <2>1. /\ DOMAIN b = DOMAIN a
        /\ b[n].mask = a[n].mask \cup S /\ b[n].command = c
        /\ \A k \in DOMAIN a : k # n => b[k] = a[k]
    BY <1>1 DEF Grown
  <2>2. CASE e \in S
    BY <2>1, <2>2 DEF For
  <2>3. CASE e \notin S
    BY <1>1, <2>1, <2>3 DEF For
  <2> QED
    BY <2>2, <2>3
<1>2. ASSUME Added(a, b, [mask |-> S, command |-> c])
      PROVE  /\ e \in S => For(b, e) # {} /\ \A k \in For(b, e) : b[k].command = c
             /\ e \notin S => For(b, e) = For(a, e) /\ \A k \in For(a, e) : b[k].command = a[k].command
  <2> DEFINE l == Len(a) + 1
  <2>1. /\ DOMAIN b = DOMAIN a \cup {l} /\ l \notin DOMAIN a
        /\ b[l].mask = S /\ b[l].command = c
        /\ \A k \in DOMAIN a : b[k] = a[k]
    BY <1>2 DEF Added
  <2> HIDE DEF l
  <2>2. CASE e \in S
    BY <2>1, <2>2 DEF For
  <2>3. CASE e \notin S
    BY <2>1, <2>3 DEF For
  <2> QED
    BY <2>2, <2>3
<1> QED
  BY <1>1, <1>2

(* The command of each event, before and after.                             *)
LEMMA JoinedCommand ==
  ASSUME NEW d \in Directories, Sound(d), NEW S \in (SUBSET Events) \ {{}}, NEW c \in Commands,
         S \cap d.mask = {}, NEW e \in Events
  PROVE  Command(Joined(d, S, c), e) = IF e \in S THEN c ELSE Command(d, e)
<1> DEFINE a == d.actions
           b == Joined(d, S, c).actions
<1>1. \/ \E n \in DOMAIN a : a[n].command = c /\ Grown(a, b, n, S)
      \/ Added(a, b, [mask |-> S, command |-> c])
  BY JoinedTable
<1>2. e \in S => For(a, e) = {}
  BY DEF Sound, For
<1>3. DOMAIN a = 1 .. Len(a) /\ Len(a) \in Nat
  BY LenProperties DEF Directories
<1>4. Command(d, e) = IF For(a, e) = {} THEN NoCommand ELSE a[CHOOSE n \in For(a, e) : TRUE].command
  BY DEF Command, For
<1>5. Command(Joined(d, S, c), e)
        = IF For(b, e) = {} THEN NoCommand ELSE b[CHOOSE n \in For(b, e) : TRUE].command
  BY DEF Command, For
<1>6. /\ e \in S => For(b, e) # {} /\ \A n \in For(b, e) : b[n].command = c
      /\ e \notin S => For(b, e) = For(a, e) /\ \A n \in For(a, e) : b[n].command = a[n].command
  <2> HIDE DEF a, b
  <2> QED
    BY <1>1, <1>2, <1>3, TableFor
<1> QED
  <2> HIDE DEF a, b
  <2>1. For(a, e) # {} => (CHOOSE n \in For(a, e) : TRUE) \in For(a, e)
    OBVIOUS
  <2>2. For(b, e) # {} => (CHOOSE n \in For(b, e) : TRUE) \in For(b, e)
    OBVIOUS
  <2> QED
    BY <1>4, <1>5, <1>6, <2>1, <2>2

LEMMA UndeclaredCommand ==
  ASSUME NEW d, Sound(d), NEW e, e \notin d.mask
  PROVE  Command(d, e) = NoCommand
BY DEF Sound, Command

(* A sound table has no more actions than there are events.                 *)
LEMMA SoundFits ==
  ASSUME NEW d \in Directories, Sound(d)
  PROVE  Len(d.actions) <= Places
<1> DEFINE a == d.actions
           n == Len(a)
           f == [k \in 1 .. n |-> CHOOSE e \in Events : e \in a[k].mask]
<1>1. a \in Seq(Ways) /\ n \in Nat /\ DOMAIN a = 1 .. n /\ \A k \in 1 .. n : a[k] \in Ways
  BY LenProperties, ElementOfSeq DEF Directories
<1>2. \A k \in 1 .. n : f[k] \in Events /\ f[k] \in a[k].mask
  BY <1>1 DEF Ways
<1>3. \A k, m \in 1 .. n : k # m => f[k] # f[m]
  <2>1. \A k, m \in 1 .. n : k # m => a[k].mask \cap a[m].mask = {}
    BY <1>1 DEF Sound
  <2> HIDE DEF f, a, n
  <2> QED
    BY <1>2, <2>1
<1>4. f \in Injection(1 .. n, Events)
  BY <1>2, <1>3 DEF Injection, IsInjective
<1>5. Cardinality(1 .. n) <= Cardinality(Events)
  BY <1>4, FS_Injection, ConfigurationAssumption
<1>6. Cardinality(1 .. n) = n
  BY <1>1, FS_Interval
<1>7. Cardinality(Events) \in Nat /\ Cardinality(Events) <= Places /\ Places \in Nat
  BY FS_CardinalityType, ConfigurationAssumption
<1> QED
  BY <1>1, <1>5, <1>6, <1>7

-----------------------------------------------------------------------------
(* The inductive invariant.  Beside the two properties it says that no       *)
(* section is open when a reading begins, and that a directory that is not   *)
(* on the list holds nothing.                                                *)
ReaderOK ==
  /\ phase \in {"start", "reading", "ok", "failed", "crashed"}
  /\ readings \in 0 .. MaxReadings
  /\ content \in Contents \cup {[n \in {} |-> <<>>]}
  /\ stack \in Seq(Frames(content))
  /\ \A k \in DOMAIN stack : stack[k].pos <= Len(content[stack[k].name])
  /\ Len(stack) <= MaxOpen
  /\ taken \in Seq(Lines)
  /\ stack # <<>> <=> phase = "reading"
  /\ section \in Sections
  /\ phase \in {"start", "ok"} => section = "main"

DataOK ==
  /\ section = "directory" => at \in registered
  /\ section = "logging" => ct_driver \in Drivers \cup {Junk}
  /\ clobbered \in BOOLEAN

RegistryOK ==
  /\ registered \subseteq Inodes
  /\ dirs \in [Inodes -> Directories]
  /\ ActionsDisjoint
  /\ \A i \in Inodes : i \notin registered => dirs[i] = Blank

SettingsOK ==
  /\ setting \in [Settings -> Values \cup Drivers \cup {Unset}]
  /\ cliopts \in CommandLines

Inv == ReaderOK /\ DataOK /\ RegistryOK /\ SettingsOK

LEMMA InvTypeOK == Inv => TypeOK
BY DEF Inv, ReaderOK, DataOK, RegistryOK, SettingsOK, TypeOK, Frames

LEMMA BlankSound == Blank \in Directories /\ Sound(Blank)
<1>1. <<>> \in Seq(Ways) /\ DOMAIN <<>> = 1 .. 0 /\ 1 .. 0 = {}
  BY EmptySeq
<1>2. Blank.actions = <<>> /\ Blank.mask = {} /\ Blank.uid = Unset /\ Blank.gid = Unset /\ Blank.shell = Unset
  BY DEF Blank
<1>3. Blank \in Directories
  BY <1>1 DEF Blank, Directories
<1>4. UNION {Blank.actions[n].mask : n \in DOMAIN Blank.actions} = {}
  BY <1>1, <1>2
<1> QED
  BY <1>1, <1>2, <1>3, <1>4 DEF Sound

LEMMA InvInit == Init => Inv
<1> SUFFICES ASSUME Init PROVE Inv
  OBVIOUS
<1>1. ReaderOK
  <2>1. <<>> \in Seq(Frames(content)) /\ <<>> \in Seq(Lines) /\ Len(<<>>) = 0 /\ DOMAIN <<>> = {}
    BY EmptySeq
  <2> QED
    BY <2>1, ConfigurationAssumption DEF Init, ReaderOK, Sections
<1>2. RegistryOK
  BY BlankSound DEF Init, RegistryOK, ActionsDisjoint
<1>3. DataOK /\ SettingsOK
  BY DEF Init, DataOK, SettingsOK
<1> QED
  BY <1>1, <1>2, <1>3 DEF Inv

LEMMA InvBegin == Inv /\ BeginReading => Inv'
<1> SUFFICES ASSUME Inv, BeginReading PROVE Inv'
  OBVIOUS
<1>1. ReaderOK'
  <2>1. /\ readings' \in 0 .. MaxReadings /\ section' = section /\ section = "main"
        /\ content' \in Contents /\ taken' \in Seq(Lines)
    BY EmptySeq, ConfigurationAssumption DEF BeginReading, Begin, Inv, ReaderOK
  <2>2. CASE Main \in DOMAIN content' /\ MaxOpen > 0
    <3>1. Frame(Main) \in Frames(content') /\ Frame(Main).pos = 0 /\ Frame(Main).name = Main
      BY <2>2, EmptySeq DEF Frame, Frames
    <3>2. content'[Main] \in Seq(Lines)
      BY <2>1, <2>2, ConfigurationAssumption
    <3>3. Len(content'[Main]) \in Nat
      BY <3>2, LenProperties
    <3>4. stack' = <<Frame(Main)>> /\ phase' = "reading"
      BY <2>2 DEF BeginReading, Begin
    <3>5. /\ stack' \in Seq(Frames(content')) /\ Len(stack') = 1 /\ DOMAIN stack' = {1}
          /\ stack'[1] = Frame(Main) /\ stack' # <<>>
      BY <3>1, <3>4
    <3> QED
      BY <2>1, <2>2, <3>1, <3>3, <3>4, <3>5, ConfigurationAssumption DEF ReaderOK, Sections
  <2>3. CASE ~(Main \in DOMAIN content' /\ MaxOpen > 0)
    <3>1. stack' = <<>> /\ phase' = "failed"
      BY <2>3 DEF BeginReading, Begin
    <3>2. <<>> \in Seq(Frames(content')) /\ Len(<<>>) = 0 /\ DOMAIN <<>> = {}
      BY EmptySeq
    <3> QED
      BY <2>1, <3>1, <3>2, ConfigurationAssumption DEF ReaderOK, Sections
  <2> QED
    BY <2>2, <2>3
<1>2. RegistryOK'
  BY BlankSound DEF BeginReading, RegistryOK, ActionsDisjoint
<1>3. DataOK' /\ SettingsOK'
  BY DEF BeginReading, Begin, Inv, ReaderOK, DataOK, SettingsOK
<1> QED
  BY <1>1, <1>2, <1>3 DEF Inv

-----------------------------------------------------------------------------
(* The registry when a section ends.                                        *)
LEMMA DefaultsSound ==
  ASSUME NEW d \in Directories
  PROVE  /\ Defaults(d) \in Directories
         /\ Defaults(d).actions = d.actions /\ Defaults(d).mask = d.mask
BY DEF Defaults, Directories

LEMMA ClosedOK ==
  ASSUME Inv
  PROVE  /\ Closed \in [Inodes -> Directories]
         /\ \A i \in Inodes : /\ Closed[i].actions = dirs[i].actions
                              /\ Closed[i].mask = dirs[i].mask
                              /\ i \notin registered => Closed[i] = dirs[i]
<1>1. CASE section = "directory"
  <2>1. at \in registered /\ at \in Inodes /\ dirs \in [Inodes -> Directories]
    BY <1>1 DEF Inv, DataOK, RegistryOK
  <2>2. Closed = [dirs EXCEPT ![at] = Defaults(dirs[at])]
    BY <1>1 DEF Closed
  <2> QED
    BY <2>1, <2>2, DefaultsSound
<1>2. CASE section # "directory"
  BY <1>2 DEF Closed, Inv, RegistryOK
<1> QED
  BY <1>1, <1>2

LEMMA RegistryClosed ==
  ASSUME Inv, dirs' = Closed, registered' = registered
  PROVE  RegistryOK'
<1>1. \A i \in Inodes : Sound(Closed[i])
  BY ClosedOK DEF Inv, RegistryOK, ActionsDisjoint, Sound
<1> QED
  BY <1>1, ClosedOK DEF Inv, RegistryOK, ActionsDisjoint

LEMMA InvFail == Inv /\ Fail => Inv'
<1> SUFFICES ASSUME Inv, Fail PROVE Inv'
  OBVIOUS
<1>1. <<>> \in Seq(Frames(content)) /\ Len(<<>>) = 0 /\ DOMAIN <<>> = {}
  BY EmptySeq
<1>2. ReaderOK'
  BY <1>1, ConfigurationAssumption DEF Fail, Inv, ReaderOK, Sections
<1>3. RegistryOK'
  BY RegistryClosed DEF Fail
<1>4. DataOK' /\ SettingsOK'
  BY DEF Fail, data, settings, Inv, DataOK, SettingsOK
<1> QED
  BY <1>2, <1>3, <1>4 DEF Inv

-----------------------------------------------------------------------------
(* Lines that are taken.                                                    *)
LEMMA TakesSection ==
  ASSUME section \in Sections, NEW kw, Takes(kw)
  PROVE  /\ kw \in {"event", "group", "shell", "user"} => section = "directory"
         /\ kw \in {"logging", "pidfile"} => section = "settings"
         /\ kw \in {"level", "set"} => section = "logging"
         /\ kw \in {"directory", "include", "settings"} => section = "main"
         /\ kw = "end" => section # "main"
BY DEF Takes, Known, Keywords, Sections

LEMMA TakesArgument ==
  ASSUME Inv, NEW kw, kw # "end", Takes(kw)
  PROVE  /\ Line \in Lines /\ Line.arg # Bad /\ Line.kw = kw
BY InvTypeOK, CurrentLine DEF Takes

(* A line that is left behind, in the same section or another one.          *)
LEMMA ReaderAdvance ==
  ASSUME Inv, AtLine, Advance, section' \in Sections, UNCHANGED <<phase, readings, content>>
  PROVE  ReaderOK'
<1>1. phase = "reading" /\ TypeOK
  BY InvTypeOK DEF AtLine, Reading
<1> QED
  BY <1>1, Advanced DEF Inv, ReaderOK

LEMMA InvComment == Inv /\ (Comment \/ Include) => Inv'
<1> SUFFICES ASSUME Inv, Comment \/ Include PROVE Inv'
  OBVIOUS
<1>1. DataOK' /\ RegistryOK' /\ SettingsOK'
  BY DEF Comment, Include, data, registry, settings, Inv, DataOK, RegistryOK, ActionsDisjoint, SettingsOK
<1>2. CASE Comment
  BY <1>1, <1>2, ReaderAdvance DEF Comment, Inv, ReaderOK
<1>3. CASE Include
  <2> DEFINE f == [name |-> stack[1].name, pos |-> stack[1].pos + 1, todo |-> Line.arg]
  <2>1. /\ phase = "reading" /\ stack[1] \in Frames(content) /\ stack[1].pos + 1 \in 1 .. Len(Text)
        /\ Text \in Seq(Lines)
    BY <1>3, InvTypeOK, CurrentFile, CurrentLine DEF Include, Takes, AtLine, Reading
  <2>2. Line.arg \in Seq(Names)
    BY <1>3, TakesArgument, Arguments DEF Include
  <2>3. f \in Frames(content) /\ f.name = stack[1].name /\ f.pos = stack[1].pos + 1
    <3>1. stack[1].name \in DOMAIN content /\ stack[1].pos + 1 \in Nat
      BY <2>1 DEF Frames
    <3> QED
      BY <2>2, <3>1 DEF Frames
  <2>4. f.pos <= Len(Text)
    BY <2>1, <2>3, LenProperties
  <2>5. stack' = [stack EXCEPT ![1] = f] /\ taken' \in Seq(Lines)
    <3>1. Line \in Lines /\ taken \in Seq(Lines)
      BY <1>3, TakesArgument DEF Include, Inv, ReaderOK
    <3> QED
      BY <1>3, <3>1, AppendProperties DEF Include
  <2>6. ReaderOK'
    <3> HIDE DEF f
    <3> QED
      BY <1>3, <2>1, <2>3, <2>4, <2>5, InvTypeOK, FrameReplaced DEF Include, Inv, ReaderOK
  <2> QED
    BY <1>1, <2>6 DEF Inv
<1> QED
  BY <1>2, <1>3

LEMMA InvFiles == Inv /\ (EndOfLines \/ OpenIncluded \/ RunOffTable) => Inv'
<1> SUFFICES ASSUME Inv, EndOfLines \/ OpenIncluded \/ RunOffTable, ~Fail PROVE Inv'
  BY InvFail
<1>1. DataOK' /\ RegistryOK' /\ SettingsOK' /\ phase = "reading"
  BY DEF EndOfLines, OpenIncluded, RunOffTable, Reading, AtLine, data, registry, settings,
         Inv, DataOK, RegistryOK, ActionsDisjoint, SettingsOK
<1>2. /\ stack \in Seq(Frames(content)) /\ stack # <<>> /\ Len(stack) \in Nat \ {0}
      /\ DOMAIN stack = 1 .. Len(stack) /\ stack[1] \in Frames(content)
      /\ stack[1].pos <= Len(content[stack[1].name])
      /\ \A k \in 1 .. Len(stack) : stack[k].pos <= Len(content[stack[k].name])
  <2>1. stack \in Seq(Frames(content)) /\ stack # <<>> /\ stack[1] \in Frames(content)
    BY <1>1, InvTypeOK, CurrentFile DEF Inv, ReaderOK
  <2> QED
    BY <2>1, LenProperties, EmptySeq DEF Inv, ReaderOK
<1>3. CASE EndOfLines
  <2>1. /\ Tail(stack) \in Seq(Frames(content)) /\ Len(Tail(stack)) = Len(stack) - 1
        /\ \A k \in 1 .. Len(Tail(stack)) : Tail(stack)[k] = stack[k + 1]
    BY <1>2, HeadTailProperties
  <2>2. DOMAIN Tail(stack) = 1 .. Len(stack) - 1
    BY <2>1, LenProperties
  <2>3. Len(stack) = 1 <=> Tail(stack) = <<>>
    <3>1. Tail(stack) = <<>> <=> Len(Tail(stack)) = 0
      BY <2>1, EmptySeq
    <3> HIDE DEF Frames
    <3> QED
      BY <1>2, <2>1, <3>1
  <2>4. \A k \in DOMAIN Tail(stack) : Tail(stack)[k].pos <= Len(content[Tail(stack)[k].name])
    BY <1>2, <2>1, <2>2
  <2>5. ReaderOK'
    BY <1>1, <1>2, <1>3, <2>1, <2>3, <2>4, ConfigurationAssumption DEF EndOfLines, Inv, ReaderOK
  <2> QED
    BY <1>1, <2>5 DEF Inv
<1>4. CASE RunOffTable
  <2>1. <<>> \in Seq(Frames(content)) /\ Len(<<>>) = 0 /\ DOMAIN <<>> = {}
    BY EmptySeq
  <2>2. ReaderOK'
    BY <1>4, <2>1, ConfigurationAssumption DEF RunOffTable, Inv, ReaderOK
  <2> QED
    BY <1>1, <2>2 DEF Inv
<1>5. CASE OpenIncluded
  <2> DEFINE n == Head(stack[1].todo)
             f == [stack[1] EXCEPT !.todo = Tail(@)]
             rest == [stack EXCEPT ![1] = f]
  <2>1. /\ n \in DOMAIN content /\ Len(stack) < MaxOpen
        /\ stack' = <<Frame(n)>> \o rest
        /\ UNCHANGED <<phase, readings, content, taken, section>>
        /\ stack[1].todo # <<>>
    BY <1>5 DEF OpenIncluded
  <2>2. f \in Frames(content) /\ f.pos = stack[1].pos /\ f.name = stack[1].name
    <3>1. stack[1].todo \in Seq(Names) /\ Tail(stack[1].todo) \in Seq(Names)
      BY <1>2, <2>1, HeadTailProperties DEF Frames
    <3> QED
      BY <1>2, <3>1 DEF Frames
  <2>3. Frame(n) \in Frames(content) /\ Frame(n).pos = 0 /\ Frame(n).name = n
    BY <2>1, EmptySeq DEF Frame, Frames
  <2>4. content \in Contents /\ content[n] \in Seq(Lines)
    BY <1>1, <2>1, InvTypeOK, CurrentFile, ConfigurationAssumption
  <2>5. Len(content[n]) \in Nat
    BY <2>4, LenProperties
  <2> HIDE DEF f, n
  <2>6. /\ rest \in Seq(Frames(content)) /\ Len(rest) = Len(stack)
        /\ \A k \in 1 .. Len(stack) : rest[k] = IF k = 1 THEN f ELSE stack[k]
    BY <1>2, <2>2, ExceptSeq
  <2> HIDE DEF rest
  <2>7. /\ <<Frame(n)>> \in Seq(Frames(content)) /\ Len(<<Frame(n)>>) = 1
        /\ <<Frame(n)>>[1] = Frame(n)
    BY <2>3
  <2>8. /\ stack' \in Seq(Frames(content)) /\ Len(stack') = Len(stack) + 1
        /\ \A k \in 1 .. Len(stack) + 1 : stack'[k] = IF k <= 1 THEN <<Frame(n)>>[k] ELSE rest[k - 1]
    BY <1>2, <2>1, <2>6, <2>7, ConcatProperties
  <2>9. DOMAIN stack' = 1 .. Len(stack) + 1 /\ stack' # <<>>
    BY <1>2, <2>8, LenProperties, EmptySeq
  <2>10. \A k \in 1 .. Len(stack) + 1 : stack'[k].pos <= Len(content[stack'[k].name])
    <3> TAKE k \in 1 .. Len(stack) + 1
    <3>1. CASE k = 1
      BY <1>2, <2>3, <2>5, <2>7, <2>8, <3>1
    <3>2. CASE k # 1
      <4>1. k - 1 \in 1 .. Len(stack) /\ ~(k <= 1)
        BY <1>2, <3>2
      <4>2. stack'[k] = rest[k - 1]
        BY <2>8, <4>1
      <4> QED
        BY <1>2, <2>2, <2>6, <4>1, <4>2
    <3> QED
      BY <3>1, <3>2
  <2>11. Len(stack') <= MaxOpen
    BY <1>2, <2>1, <2>8, ConfigurationAssumption
  <2>12. ReaderOK'
    BY <1>1, <2>1, <2>8, <2>9, <2>10, <2>11 DEF Inv, ReaderOK
  <2> QED
    BY <1>1, <2>12 DEF Inv
<1> QED
  BY <1>3, <1>4, <1>5

LEMMA InvDirectory == Inv /\ Directory => Inv'
<1> SUFFICES ASSUME Inv, Directory, ~Fail PROVE Inv'
  BY InvFail
<1> DEFINE i == Line.arg
<1>1. /\ Takes("directory") /\ AtLine /\ i \notin registered /\ Advance
      /\ section' = "directory" /\ at' = i
      /\ registered' = registered \cup {i}
      /\ dirs' = [dirs EXCEPT ![i] = Blank]
      /\ UNCHANGED <<phase, readings, content, ct_driver, clobbered, settings>>
  BY DEF Directory, Takes
<1>2. i \in Inodes
  BY <1>1, TakesArgument, Arguments
<1>3. ReaderOK'
  BY <1>1, ReaderAdvance DEF Sections
<1>4. RegistryOK'
  BY <1>1, <1>2, BlankSound DEF Inv, RegistryOK, ActionsDisjoint
<1>5. DataOK' /\ SettingsOK'
  BY <1>1 DEF settings, Inv, DataOK, SettingsOK
<1> QED
  BY <1>3, <1>4, <1>5 DEF Inv

LEMMA InvEndDirectory == Inv /\ EndDirectory => Inv'
<1> SUFFICES ASSUME Inv, EndDirectory PROVE Inv'
  OBVIOUS
<1>1. ReaderOK'
  BY ReaderAdvance DEF EndDirectory, Takes, Sections
<1>2. RegistryOK'
  BY RegistryClosed DEF EndDirectory
<1>3. DataOK' /\ SettingsOK'
  BY DEF EndDirectory, data, settings, Inv, DataOK, SettingsOK
<1> QED
  BY <1>1, <1>2, <1>3 DEF Inv

LEMMA InvEvent == Inv /\ Event => Inv'
<1> SUFFICES ASSUME Inv, Event, ~Fail PROVE Inv'
  BY InvFail
<1> DEFINE S == Line.arg.mask
           c == Line.arg.command
<1>1. /\ Takes("event") /\ AtLine /\ S \cap dirs[at].mask = {} /\ Advance
      /\ dirs' = [dirs EXCEPT ![at] = Joined(dirs[at], S, c)]
      /\ UNCHANGED <<phase, readings, content, section, data, registered, settings>>
  BY DEF Event, Takes
<1>2. section = "directory" /\ at \in registered /\ at \in Inodes
  BY <1>1, TakesSection DEF Inv, ReaderOK, DataOK, RegistryOK
<1>3. S \in (SUBSET Events) \ {{}} /\ c \in Commands
  BY <1>1, TakesArgument, Arguments DEF Ways
<1>4. dirs[at] \in Directories /\ Sound(dirs[at])
  BY <1>2 DEF Inv, RegistryOK, ActionsDisjoint
<1>5. Joined(dirs[at], S, c) \in Directories /\ Sound(Joined(dirs[at], S, c))
  BY <1>1, <1>3, <1>4, JoinedTable, JoinedSound
<1>6. RegistryOK'
  <2> HIDE DEF S, c
  <2> QED
    BY <1>1, <1>2, <1>5 DEF Inv, RegistryOK, ActionsDisjoint
<1>7. ReaderOK'
  BY <1>1, ReaderAdvance DEF Inv, ReaderOK
<1>8. DataOK' /\ SettingsOK'
  BY <1>1 DEF data, settings, Inv, DataOK, SettingsOK
<1> QED
  BY <1>6, <1>7, <1>8 DEF Inv

LEMMA OwnerKeeps ==
  ASSUME Inv, Owner
  PROVE  /\ dirs' \in [Inodes -> Directories]
         /\ \A i \in Inodes : /\ dirs'[i].actions = dirs[i].actions /\ dirs'[i].mask = dirs[i].mask
                              /\ i \notin registered => dirs'[i] = dirs[i]
<1>1. AtLine /\ section = "directory" /\ at \in registered /\ at \in Inodes /\ dirs \in [Inodes -> Directories]
  <2>1. section = "directory"
    BY TakesSection DEF Owner, Inv, ReaderOK
  <2> QED
    BY <2>1 DEF Owner, Takes, Inv, DataOK, RegistryOK
<1>2. CASE Takes("user") /\ dirs' = [dirs EXCEPT ![at].uid = Line.arg]
  <2>1. Line.arg \in Ids
    BY <1>2, TakesArgument, Arguments
  <2> QED
    BY <1>1, <1>2, <2>1 DEF Directories
<1>3. CASE Takes("group") /\ dirs' = [dirs EXCEPT ![at].gid = Line.arg]
  <2>1. Line.arg \in Ids
    BY <1>3, TakesArgument, Arguments
  <2> QED
    BY <1>1, <1>3, <2>1 DEF Directories
<1>4. CASE Takes("shell") /\ dirs' = [dirs EXCEPT ![at].shell = Line.arg]
  <2>1. Line.arg \in Shells
    BY <1>4, TakesArgument, Arguments
  <2> QED
    BY <1>1, <1>4, <2>1 DEF Directories
<1> QED
  BY <1>2, <1>3, <1>4 DEF Owner

LEMMA InvOwner == Inv /\ Owner => Inv'
<1> SUFFICES ASSUME Inv, Owner PROVE Inv'
  OBVIOUS
<1>1. RegistryOK'
  BY OwnerKeeps DEF Owner, Inv, RegistryOK, ActionsDisjoint, Sound
<1>2. ReaderOK'
  BY ReaderAdvance DEF Owner, Takes, Inv, ReaderOK
<1>3. DataOK' /\ SettingsOK'
  BY DEF Owner, data, settings, Inv, DataOK, SettingsOK
<1> QED
  BY <1>1, <1>2, <1>3 DEF Inv

LEMMA PutOK ==
  ASSUME Inv, NEW k, NEW v \in Values \cup Drivers, NEW flag, Put(k, v, flag), UNCHANGED cliopts
  PROVE  SettingsOK'
BY DEF Put, Inv, SettingsOK

LEMMA InvSettings ==
  Inv /\ (SettingsSection \/ EndSettings \/ Pidfile \/ Level \/ Set) => Inv'
<1> SUFFICES ASSUME Inv, SettingsSection \/ EndSettings \/ Pidfile \/ Level \/ Set, ~Fail PROVE Inv'
  BY InvFail
<1>1. CASE SettingsSection \/ EndSettings
  <2>1. AtLine /\ Advance /\ section' \in {"settings", "main"} /\ UNCHANGED <<phase, readings, content>>
    BY <1>1 DEF SettingsSection, EndSettings, Takes
  <2>2. ReaderOK'
    BY <2>1, ReaderAdvance DEF Sections
  <2>3. DataOK' /\ RegistryOK' /\ SettingsOK'
    BY <1>1, <2>1 DEF SettingsSection, EndSettings, data, registry, settings, Inv, DataOK,
         RegistryOK, ActionsDisjoint, SettingsOK
  <2> QED
    BY <2>2, <2>3 DEF Inv
<1>2. CASE Pidfile \/ Level \/ Set
  <2>1. AtLine /\ Advance /\ UNCHANGED <<phase, readings, content, section, data, registry, cliopts>>
    BY <1>2 DEF Pidfile, Level, Set, Takes
  <2>2. SettingsOK'
    <3>1. CASE Pidfile
      <4>1. Line.arg \in Values
        BY <3>1, TakesArgument, Arguments DEF Pidfile
      <4> QED
        BY <3>1, <4>1, PutOK DEF Pidfile
    <3>2. CASE Level
      <4>1. Line.arg \in Values
        BY <3>2, TakesArgument, Arguments DEF Level
      <4> QED
        BY <3>2, <4>1, PutOK DEF Level
    <3>3. CASE Set
      <4>1. Line.arg \in [name : STRING, value : Values]
        BY <3>3, TakesArgument, Arguments DEF Set
      <4> QED
        BY <3>3, <4>1, PutOK DEF Set
    <3> QED
      BY <1>2, <3>1, <3>2, <3>3
  <2>3. ReaderOK'
    BY <2>1, ReaderAdvance DEF Inv, ReaderOK
  <2>4. DataOK' /\ RegistryOK'
    BY <2>1 DEF data, registry, Inv, DataOK, RegistryOK, ActionsDisjoint
  <2> QED
    BY <2>2, <2>3, <2>4 DEF Inv
<1> QED
  BY <1>1, <1>2

LEMMA InvLogging == Inv /\ (Logging \/ EndLogging \/ Overwrite) => Inv'
<1> SUFFICES ASSUME Inv, Logging \/ EndLogging \/ Overwrite PROVE Inv'
  OBVIOUS
<1>1. CASE Logging
  <2>1. Line.arg \in Drivers
    BY <1>1, TakesArgument, Arguments DEF Logging
  <2>2. ReaderOK'
    BY <1>1, ReaderAdvance DEF Logging, Takes, Sections
  <2>3. DataOK' /\ RegistryOK' /\ SettingsOK'
    BY <1>1, <2>1 DEF Logging, registry, settings, Inv, DataOK, RegistryOK, ActionsDisjoint, SettingsOK
  <2> QED
    BY <2>2, <2>3 DEF Inv
<1>2. CASE EndLogging
  <2>1. ReaderOK'
    BY <1>2, ReaderAdvance DEF EndLogging, Takes, Sections
  <2>2. SettingsOK'
    BY <1>2, PutOK DEF EndLogging, Inv, SettingsOK
  <2>3. DataOK' /\ RegistryOK'
    BY <1>2 DEF EndLogging, data, registry, Inv, DataOK, RegistryOK, ActionsDisjoint
  <2> QED
    BY <2>1, <2>2, <2>3 DEF Inv
<1>3. CASE Overwrite
  BY <1>3 DEF Overwrite, reader, registry, settings, Inv, ReaderOK, DataOK, RegistryOK,
       ActionsDisjoint, SettingsOK
<1> QED
  BY <1>1, <1>2, <1>3

LEMMA InvStutter == Inv /\ UNCHANGED vars => Inv'
BY DEF vars, reader, data, registry, settings, Inv, ReaderOK, DataOK, RegistryOK, ActionsDisjoint, SettingsOK

LEMMA InvNext == Inv /\ [Next]_vars => Inv'
<1> SUFFICES ASSUME Inv, [Next]_vars PROVE Inv'
  OBVIOUS
<1>1. CASE Refuse \/ PrematureEnd
  BY <1>1, InvFail DEF Refuse, PrematureEnd
<1> QED
  BY <1>1, InvBegin, InvComment, InvFiles, InvDirectory, InvEvent, InvOwner, InvEndDirectory,
     InvSettings, InvLogging, InvStutter DEF Next, Step

THEOREM Invariance == Spec => []Inv
BY InvInit, InvNext, PTL DEF Spec

(* The types, and that a file is never read past its end nor more files at  *)
(* once than there are descriptors (ind_conf.c:725-824).                    *)
THEOREM TypeCorrect == Spec => []TypeOK
BY Invariance, InvTypeOK, PTL

(* Whatever the files say, and whatever error ends their reading, an event  *)
(* never leads to two commands, nor a command to two actions                *)
(* (ind_conf.c:337-364).                                                    *)
THEOREM Disjoint == Spec => []ActionsDisjoint
<1>1. Inv => ActionsDisjoint
  BY DEF Inv, RegistryOK
<1> QED
  BY <1>1, Invariance, PTL

(* 16 places are enough, although nothing counts them (ind_conf.c:360).     *)
THEOREM Enough == Spec => []PlacesEnough
<1>1. Inv => PlacesEnough
  BY SoundFits DEF Inv, RegistryOK, ActionsDisjoint, PlacesEnough
<1> QED
  BY <1>1, Invariance, PTL

-----------------------------------------------------------------------------
(* The refinement.                                                          *)
Led == [i \in Inodes |-> [e \in Events |-> Command(dirs[i], e)]]

LEMMA SameCommand ==
  ASSUME NEW d, NEW g, NEW e, g.actions = d.actions
  PROVE  Command(g, e) = Command(d, e)
<1> DEFINE F(a) == IF For(a, e) = {} THEN NoCommand ELSE a[CHOOSE n \in For(a, e) : TRUE].command
<1>1. Command(g, e) = F(g.actions) /\ Command(d, e) = F(d.actions)
  BY DEF Command, For
<1> HIDE DEF F
<1> QED
  BY <1>1

LEMMA LedKept ==
  ASSUME \A i \in Inodes : dirs'[i].actions = dirs[i].actions
  PROVE  Led' = Led
<1>1. \A i \in Inodes, e \in Events : Command(dirs'[i], e) = Command(dirs[i], e)
  BY SameCommand
<1> QED
  BY <1>1 DEF Led

LEMMA BlankCommand == [i \in Inodes |-> [e \in Events |-> Command(Blank, e)]] = Promise!Nothing
<1>1. \A e \in Events : Command(Blank, e) = NoCommand
  BY BlankSound, UndeclaredCommand DEF Blank
<1> QED
  BY <1>1 DEF Promise!Nothing

LEMMA PromiseInit == Init => Promise!Init
<1> SUFFICES ASSUME Init PROVE Led = Promise!Nothing
  BY DEF Led, Promise!Init
<1>1. \A i \in Inodes : dirs[i] = Blank
  BY DEF Init
<1> QED
  BY <1>1, BlankCommand DEF Led

LEMMA PromiseBegin == BeginReading => Promise!Forget
<1> SUFFICES ASSUME BeginReading PROVE Led' = Promise!Nothing
  BY DEF Led, Promise!Forget
<1>1. \A i \in Inodes : dirs'[i] = Blank
  BY DEF BeginReading
<1> QED
  BY <1>1, BlankCommand DEF Led

LEMMA PromiseEvent == Inv /\ Event => [Promise!Next]_(Promise!vars)
<1> SUFFICES ASSUME Inv, Event PROVE [Promise!Next]_Led
  BY DEF Led, Promise!vars
<1> DEFINE S == Line.arg.mask
           c == Line.arg.command
<1>1. CASE Fail
  <2>1. Led' = Led
    BY <1>1, ClosedOK, LedKept DEF Fail
  <2> QED
    BY <2>1
<1>2. CASE ~Fail
  <2>1. /\ Takes("event") /\ S \cap dirs[at].mask = {}
        /\ dirs' = [dirs EXCEPT ![at] = Joined(dirs[at], S, c)]
    BY <1>2 DEF Event
  <2>2. at \in Inodes /\ dirs \in [Inodes -> Directories]
    BY <2>1, TakesSection DEF Inv, ReaderOK, DataOK, RegistryOK
  <2>3. S \in (SUBSET Events) \ {{}} /\ c \in Commands
    BY <2>1, TakesArgument, Arguments DEF Ways
  <2>4. dirs[at] \in Directories /\ Sound(dirs[at])
    BY <2>2 DEF Inv, RegistryOK, ActionsDisjoint
  <2> HIDE DEF S, c
  <2>5. \A e \in Events : Command(Joined(dirs[at], S, c), e) = IF e \in S THEN c ELSE Command(dirs[at], e)
    BY <2>1, <2>3, <2>4, JoinedCommand
  <2>6. \A e \in S : e \in Events /\ Led[at][e] = NoCommand
    BY <2>1, <2>2, <2>3, <2>4, UndeclaredCommand DEF Led
  <2>7. Led' = [Led EXCEPT ![at] = [e \in Events |-> IF e \in S THEN c ELSE Led[at][e]]]
    BY <2>1, <2>2, <2>5 DEF Led
  <2>8. Promise!Declare(at, S, c)
    BY <2>6, <2>7 DEF Led, Promise!Declare
  <2> QED
    BY <2>2, <2>3, <2>8 DEF Promise!Next
<1> QED
  BY <1>1, <1>2

LEMMA PromiseKept ==
  Inv /\ (Step \/ Overwrite \/ UNCHANGED vars) /\ ~Event => Led' = Led
<1> SUFFICES ASSUME Inv, Step \/ Overwrite \/ UNCHANGED vars, ~Event PROVE Led' = Led
  OBVIOUS
<1>1. CASE Fail \/ EndDirectory
  BY <1>1, ClosedOK, LedKept DEF Fail, EndDirectory
<1>2. CASE Owner
  BY <1>2, OwnerKeeps, LedKept
<1>3. CASE Directory /\ ~Fail
  <2>1. /\ Takes("directory") /\ Line.arg \notin registered /\ dirs' = [dirs EXCEPT ![Line.arg] = Blank]
    BY <1>3 DEF Directory
  <2>2. Line.arg \in Inodes
    BY <2>1, TakesArgument, Arguments
  <2>3. dirs' = dirs
    BY <2>1, <2>2 DEF Inv, RegistryOK
  <2> QED
    BY <2>3, LedKept
<1>4. CASE ~(Fail \/ EndDirectory \/ Owner \/ Directory)
  <2>1. UNCHANGED dirs
    BY <1>4 DEF Step, Comment, Refuse, RunOffTable, EndOfLines, PrematureEnd, Include, OpenIncluded,
       SettingsSection, Pidfile, Logging, Level, Set, EndLogging, EndSettings, Overwrite,
       registry, vars
  <2> QED
    BY <2>1, LedKept
<1> QED
  BY <1>1, <1>2, <1>3, <1>4

LEMMA PromiseNext == Inv /\ [Next]_vars => [Promise!Next]_(Promise!vars)
<1> SUFFICES ASSUME Inv, [Next]_vars PROVE [Promise!Next]_(Promise!vars)
  OBVIOUS
<1>1. CASE BeginReading
  BY <1>1, PromiseBegin DEF Promise!Next
<1>2. CASE Event
  BY <1>2, PromiseEvent
<1>3. CASE ~(BeginReading \/ Event)
  BY <1>3, PromiseKept DEF Next, Led, Promise!vars
<1> QED
  BY <1>1, <1>2, <1>3

(* Any reading, of any files, keeps the promise (ind_conf.c:313-367).       *)
THEOREM KeepsPromise == Spec => PromiseSpec
<1>1. Init => Promise!Init
  BY PromiseInit
<1>2. Inv /\ [Next]_vars => [Promise!Next]_(Promise!vars)
  BY PromiseNext
<1> QED
  BY <1>1, <1>2, Invariance, PTL DEF Spec, PromiseSpec, Promise!Spec

-----------------------------------------------------------------------------
(***************************************************************************)
(* What is in force is what the lines say.  The invariant is the property,  *)
(* for the first p of the lines w; a line more then makes w longer by one.  *)
(***************************************************************************)
By(K, p) == {k \in K : k <= p}

(* A section of directory i has begun and not ended.                        *)
Open(w, i, p) ==
  \E j \in By(Says(w, "directory"), p) :
    w[j].arg = i /\ \A l \in Says(w, "end") : ~(j < l /\ l <= p)

LinesRead(w, p) ==
  /\ registered = {w[k].arg : k \in By(Says(w, "directory"), p)}
  /\ \A i \in Inodes : Open(w, i, p) <=> section = "directory" /\ at = i

Declared(w, i, e, p) == {k \in By(SaysOf(w, i, "event"), p) : e \in w[k].arg.mask}

(* What directory d, of inode i, has of the lines.                          *)
EventsFor(w, i, d, p) ==
  \A e \in Events :
    /\ \A k \in Declared(w, i, e, p) : Command(d, e) = w[k].arg.command /\ e \in d.mask
    /\ Declared(w, i, e, p) = {} => Command(d, e) = NoCommand

Field(w, i, kw, value, default, p) ==
  value = IF By(SaysOf(w, i, kw), p) = {} THEN default ELSE w[Last(By(SaysOf(w, i, kw), p))].arg

OwnersFor(w, i, d, open, p) ==
  LET default == IF open THEN Unset ELSE "root" IN
  /\ Field(w, i, "user", d.uid, default, p) /\ (d.uid = Unset => By(SaysOf(w, i, "user"), p) = {})
  /\ Field(w, i, "group", d.gid, default, p) /\ (d.gid = Unset => By(SaysOf(w, i, "group"), p) = {})
  /\ Field(w, i, "shell", d.shell, Unset, p)

RegistrySoFar(w, p) ==
  \A i \in registered :
    /\ EventsFor(w, i, dirs[i], p)
    /\ OwnersFor(w, i, dirs[i], section = "directory" /\ at = i, p)

(* What setting s is by the lines.  The driver is set when its section      *)
(* ends, from where its name was.                                           *)
SettingBy(w, s, p) ==
  IF Flag(s) \in cliopts \/ By(SaysSetting(w, s), p) = {} THEN before[s]
  ELSE Value(w, Last(By(SaysSetting(w, s), p)))

DriverNamed(w, name, p) ==
  /\ name \in Drivers
  /\ \E j \in By(Says(w, "logging"), p) :
       /\ \A k \in By(Says(w, "logging"), p) : k <= j
       /\ name = w[j].arg

SettingsSoFar(w, p) ==
  /\ \A s \in Settings :
       ~(s = "driver" /\ (clobbered \/ section = "logging")) => setting[s] = SettingBy(w, s, p)
  /\ "LOGDRV" \in cliopts => setting["driver"] = before["driver"]
  /\ section = "logging" /\ ~clobbered => DriverNamed(w, ct_driver, p)

SoFar(w, p) == LinesRead(w, p) /\ RegistrySoFar(w, p) /\ SettingsSoFar(w, p)

(* At the second hand-over of a last line nothing is claimed: that reading  *)
(* has no success.                                                          *)
ReadInv == phase = "reading" /\ ~(Reading /\ Again) => SoFar(taken, Len(taken))

(* One line more.                                                           *)
LEMMA OneMore ==
  ASSUME NEW K, K \subseteq Nat, NEW p \in Nat
  PROVE  /\ p + 1 \notin K => By(K, p + 1) = By(K, p)
         /\ p + 1 \in K => By(K, p + 1) = By(K, p) \cup {p + 1} /\ Last(By(K, p + 1)) = p + 1
<1>1. \A k \in Nat : k <= p + 1 <=> k <= p \/ k = p + 1
  OBVIOUS
<1>2. p + 1 \notin K => By(K, p + 1) = By(K, p)
  BY <1>1 DEF By
<1>3. ASSUME p + 1 \in K
      PROVE  By(K, p + 1) = By(K, p) \cup {p + 1} /\ Last(By(K, p + 1)) = p + 1
  <2> DEFINE L == By(K, p + 1)
  <2>1. L = By(K, p) \cup {p + 1}
    BY <1>1, <1>3 DEF By
  <2>2. p + 1 \in L /\ L \subseteq Nat /\ \A l \in L : l <= p + 1
    <3>1. p + 1 \in Nat /\ p + 1 <= p + 1
      OBVIOUS
    <3> QED
      BY <1>3, <3>1 DEF By
  <2> HIDE DEF L
  <2>3. \A k \in L : (\A l \in L : l <= k) => k = p + 1
    BY <2>2
  <2>4. Last(L) \in L /\ \A l \in L : l <= Last(L)
    BY <2>2 DEF Last
  <2>5. Last(L) = p + 1
    BY <2>3, <2>4
  <2> QED
    BY <2>1, <2>5 DEF L
<1> QED
  BY <1>2, <1>3

(* Which lines are about a setting.                                         *)
LEMMA SaysWhich ==
  ASSUME NEW w, NEW s
  PROVE  \A k : k \in SaysSetting(w, s) <=>
           /\ k \in DOMAIN w
           /\ \/ s = "driver" /\ w[k].kw = "logging"
              \/ s = "pidfile" /\ w[k].kw = "pidfile"
              \/ s = "level" /\ w[k].kw = "level"
              \/ /\ s \notin {"driver", "pidfile", "level"}
                 /\ w[k].kw = "set" /\ w[k].arg.name = s
<1>1. CASE s = "driver"
  BY <1>1 DEF SaysSetting, Says
<1>2. CASE s \in {"pidfile", "level"}
  BY <1>2 DEF SaysSetting, Says
<1>3. CASE s \notin {"driver", "pidfile", "level"}
  BY <1>3 DEF SaysSetting, Says
<1> QED
  BY <1>1, <1>2, <1>3

LEMMA LastIn ==
  ASSUME NEW p \in Nat, NEW K, K # {}, K \subseteq 1 .. p
  PROVE  Last(K) \in K /\ \A k \in K : k <= Last(K)
<1>1. \E k \in K : \A l \in K : l <= k
  BY Greatest
<1> QED
  BY <1>1 DEF Last

(* The lines that matter are numbers.                                       *)
LEMMA LineNumbers ==
  ASSUME NEW w, DOMAIN w \subseteq Nat
  PROVE  /\ \A kw : Says(w, kw) \subseteq Nat
         /\ \A kw, i : SaysOf(w, i, kw) \subseteq Nat
         /\ \A s : SaysSetting(w, s) \subseteq Nat
BY DEF Says, SaysOf, SaysSetting

LEMMA NextSays ==
  ASSUME NEW w, NEW p \in Nat, p + 1 \in DOMAIN w, DOMAIN w \subseteq Nat
  PROVE  /\ \A kw : p + 1 \in Says(w, kw) <=> w[p + 1].kw = kw
         /\ \A i, kw : kw # "directory" =>
              (p + 1 \in SaysOf(w, i, kw) <=> w[p + 1].kw = kw /\ Open(w, i, p))
<1>1. \A kw : p + 1 \in Says(w, kw) <=> w[p + 1].kw = kw
  BY DEF Says
<1>2. ASSUME NEW i, NEW kw, kw # "directory"
      PROVE  p + 1 \in SaysOf(w, i, kw) <=> w[p + 1].kw = kw /\ Open(w, i, p)
  <2>1. p + 1 \in SaysOf(w, i, kw) <=>
          /\ w[p + 1].kw = kw
          /\ \E j \in Says(w, "directory") : /\ w[j].arg = i /\ j < p + 1
                                          /\ \A l \in Says(w, "end") : ~(j < l /\ l < p + 1)
    BY <1>1 DEF SaysOf
  <2>2. \A j \in Nat : j < p + 1 <=> j <= p
    OBVIOUS
  <2>3. Says(w, "directory") \subseteq Nat /\ Says(w, "end") \subseteq Nat
    BY LineNumbers
  <2> QED
    BY <2>1, <2>2, <2>3 DEF Open, By
<1> QED
  BY <1>1, <1>2

LEMMA NextOpen ==
  ASSUME NEW w, NEW p \in Nat, p + 1 \in DOMAIN w, DOMAIN w \subseteq Nat, NEW i
  PROVE  Open(w, i, p + 1) <=> CASE w[p + 1].kw = "directory" -> Open(w, i, p) \/ w[p + 1].arg = i
                              [] w[p + 1].kw = "end" -> FALSE
                              [] OTHER -> Open(w, i, p)
<1>1. Says(w, "directory") \subseteq Nat /\ Says(w, "end") \subseteq Nat
  BY LineNumbers
<1>2. /\ p + 1 \in Says(w, "directory") <=> w[p + 1].kw = "directory"
      /\ p + 1 \in Says(w, "end") <=> w[p + 1].kw = "end"
  BY NextSays
<1>3. \A k \in Nat : k <= p + 1 <=> k <= p \/ k = p + 1
  OBVIOUS
<1>4. \A k \in Nat : k <= p => k < p + 1
  OBVIOUS
<1>5. CASE w[p + 1].kw = "directory"
  <2>1. \A j \in By(Says(w, "directory"), p + 1) : j = p + 1 \/ j \in By(Says(w, "directory"), p)
    BY <1>1, <1>3 DEF By
  <2>2. \A l \in Says(w, "end") : l <= p + 1 <=> l <= p
    BY <1>1, <1>2, <1>3, <1>5
  <2>3. \A l \in Says(w, "end") : ~(p + 1 < l /\ l <= p + 1)
    BY <1>1
  <2>4. p + 1 \in By(Says(w, "directory"), p + 1)
    BY <1>2, <1>5 DEF By
  <2>5. By(Says(w, "directory"), p) \subseteq By(Says(w, "directory"), p + 1)
    BY <1>1, <1>3 DEF By
  <2>6. Open(w, i, p + 1) => Open(w, i, p) \/ w[p + 1].arg = i
    BY <2>1, <2>2 DEF Open
  <2>7. Open(w, i, p) => Open(w, i, p + 1)
    BY <2>2, <2>5 DEF Open
  <2>8. w[p + 1].arg = i => Open(w, i, p + 1)
    BY <2>3, <2>4 DEF Open
  <2> QED
    BY <1>5, <2>6, <2>7, <2>8
<1>6. CASE w[p + 1].kw = "end"
  <2>1. ASSUME NEW j \in By(Says(w, "directory"), p + 1)
        PROVE  j < p + 1 /\ p + 1 \in Says(w, "end") /\ p + 1 <= p + 1
    <3>1. j # p + 1 /\ j \in Nat /\ j <= p + 1
      BY <1>1, <1>2, <1>6 DEF By
    <3> QED
      BY <1>2, <1>6, <3>1
  <2>2. ~Open(w, i, p + 1)
    BY <2>1 DEF Open
  <2> QED
    BY <1>6, <2>2
<1>7. CASE w[p + 1].kw \notin {"directory", "end"}
  <2>1. By(Says(w, "directory"), p + 1) = By(Says(w, "directory"), p)
    BY <1>1, <1>2, <1>7, OneMore
  <2>2. \A l \in Says(w, "end") : l <= p + 1 <=> l <= p
    BY <1>1, <1>2, <1>3, <1>7
  <2> QED
    BY <1>7, <2>1, <2>2 DEF Open
<1> QED
  BY <1>5, <1>6, <1>7

(* Of the state, the lines need what was in force and the command line.     *)
LEMMA SameText ==
  ASSUME UNCHANGED <<before, cliopts>>, NEW w, NEW p
  PROVE  \A s : SettingBy(w, s, p)' = SettingBy(w, s, p)
BY DEF SettingBy

(* Lines that are added change nothing of what the first ones say.          *)
LEMMA SamePrefix ==
  ASSUME NEW p \in Nat, NEW t, NEW w, DOMAIN t = 1 .. p, DOMAIN w = 1 .. p + 1,
         \A k \in 1 .. p : w[k] = t[k],
         SoFar(t, p)
  PROVE  SoFar(w, p)
<1>1. \A k \in 1 .. p : k \in 1 .. p + 1
  OBVIOUS
<1>2. /\ \A k : k \in 1 .. p + 1 /\ k <= p <=> k \in 1 .. p
      /\ \A k \in 1 .. p, l \in 1 .. p + 1 : l < k => l \in 1 .. p
      /\ \A k \in 1 .. p : k <= p
  OBVIOUS
<1>3. \A kw : By(Says(w, kw), p) = By(Says(t, kw), p) /\ By(Says(w, kw), p) = Says(t, kw)
  BY <1>1, <1>2 DEF By, Says
<1>4. \A kw : \A k : k \in Says(w, kw) /\ k <= p <=> k \in Says(t, kw)
  BY <1>3 DEF By
<1>5. \A i, kw : By(SaysOf(w, i, kw), p) = By(SaysOf(t, i, kw), p)
  <2> SUFFICES ASSUME NEW i, NEW kw, NEW k
               PROVE  k \in SaysOf(w, i, kw) /\ k <= p <=> k \in SaysOf(t, i, kw) /\ k <= p
    BY DEF By, SaysOf
  <2>1. CASE k \in 1 .. p
    <3>1. \A j : j \in Says(w, "directory") /\ j < k <=> j \in Says(t, "directory") /\ j < k
      BY <1>1, <1>2, <2>1 DEF Says
    <3>2. \A l : l \in Says(w, "end") /\ l < k <=> l \in Says(t, "end") /\ l < k
      BY <1>1, <1>2, <2>1 DEF Says
    <3>3. \A j : j \in Says(t, "directory") => w[j].arg = t[j].arg
      BY DEF Says
    <3>4. k \in Says(w, kw) <=> k \in Says(t, kw)
      BY <1>2, <1>4, <2>1
    <3> QED
      BY <3>1, <3>2, <3>3, <3>4 DEF SaysOf
  <2>2. CASE k \notin 1 .. p
    BY <1>2, <2>2 DEF SaysOf, Says
  <2> QED
    BY <2>1, <2>2
<1>6. \A s : By(SaysSetting(w, s), p) = By(SaysSetting(t, s), p)
  <2> SUFFICES ASSUME NEW s, NEW k
               PROVE  k \in SaysSetting(w, s) /\ k <= p <=> k \in SaysSetting(t, s) /\ k <= p
    BY DEF By
  <2> QED
    BY <1>1, <1>2, SaysWhich
<1>7. \A K : By(K, p) \subseteq DOMAIN w => \A k \in By(K, p) : w[k] = t[k] /\ Value(w, k) = Value(t, k)
  BY <1>2 DEF By, Value
<1>8. /\ \A kw : By(Says(w, kw), p) \subseteq DOMAIN w
      /\ \A i, kw : By(SaysOf(w, i, kw), p) \subseteq DOMAIN w
      /\ \A s : By(SaysSetting(w, s), p) \subseteq DOMAIN w
  BY SaysWhich DEF By, Says, SaysOf
<1>9. LinesRead(w, p)
  <2>1. {w[k].arg : k \in By(Says(w, "directory"), p)} = {t[k].arg : k \in By(Says(t, "directory"), p)}
    BY <1>3, <1>7, <1>8
  <2>2. \A i : Open(w, i, p) <=> Open(t, i, p)
    <3>1. \A l : l \in Says(w, "end") /\ l <= p <=> l \in Says(t, "end") /\ l <= p
      BY <1>2, <1>4 DEF Says
    <3> QED
      BY <1>3, <1>7, <1>8, <3>1 DEF Open
  <2> QED
    BY <2>1, <2>2 DEF SoFar, LinesRead
<1>10. RegistrySoFar(w, p)
  <2> SUFFICES ASSUME NEW i \in registered
               PROVE  /\ EventsFor(w, i, dirs[i], p)
                      /\ OwnersFor(w, i, dirs[i], section = "directory" /\ at = i, p)
    BY DEF RegistrySoFar
  <2>1. /\ EventsFor(t, i, dirs[i], p)
        /\ OwnersFor(t, i, dirs[i], section = "directory" /\ at = i, p)
    BY DEF SoFar, RegistrySoFar
  <2>2. \A kw : \A k \in By(SaysOf(w, i, kw), p) : w[k] = t[k]
    BY <1>7, <1>8
  <2>3. \A e : Declared(w, i, e, p) = Declared(t, i, e, p)
    BY <1>5, <2>2 DEF Declared
  <2>4. EventsFor(w, i, dirs[i], p)
    <3>1. \A e : \A k \in Declared(w, i, e, p) : w[k] = t[k]
      BY <2>2 DEF Declared
    <3> QED
      BY <2>1, <2>3, <3>1 DEF EventsFor
  <2>5. \A kw, v, default : Field(t, i, kw, v, default, p) => Field(w, i, kw, v, default, p)
    <3> SUFFICES ASSUME NEW kw, By(SaysOf(t, i, kw), p) # {}
                 PROVE  w[Last(By(SaysOf(t, i, kw), p))] = t[Last(By(SaysOf(t, i, kw), p))]
      BY <1>5 DEF Field
    <3>1. By(SaysOf(t, i, kw), p) \subseteq 1 .. p
      BY DEF By, SaysOf, Says
    <3>2. Last(By(SaysOf(t, i, kw), p)) \in 1 .. p
      BY <3>1, LastIn
    <3> QED
      BY <3>2
  <2>6. OwnersFor(w, i, dirs[i], section = "directory" /\ at = i, p)
    BY <1>5, <2>1, <2>5 DEF OwnersFor
  <2> QED
    BY <2>4, <2>6
<1>11. SettingsSoFar(w, p)
  <2>1. \A s : SettingBy(w, s, p) = SettingBy(t, s, p)
    <3> SUFFICES ASSUME NEW s, By(SaysSetting(t, s), p) # {}
                 PROVE  Value(w, Last(By(SaysSetting(t, s), p))) = Value(t, Last(By(SaysSetting(t, s), p)))
      BY <1>6 DEF SettingBy
    <3>1. By(SaysSetting(t, s), p) \subseteq 1 .. p
      BY SaysWhich DEF By
    <3>2. Last(By(SaysSetting(t, s), p)) \in 1 .. p
      BY <3>1, LastIn
    <3> QED
      BY <3>2 DEF Value
  <2>2. \A name : DriverNamed(t, name, p) => DriverNamed(w, name, p)
    BY <1>3, <1>7, <1>8 DEF DriverNamed
  <2> QED
    BY <2>1, <2>2 DEF SoFar, SettingsSoFar
<1> QED
  BY <1>9, <1>10, <1>11 DEF SoFar

(* The line that is read.                                                   *)
LEMMA LineTaken ==
  ASSUME Inv, ReadInv, AtLine, ~Again
  PROVE  \E w, p :
           /\ p \in Nat /\ p = Len(taken) /\ w = Append(taken, Line)
           /\ p + 1 \in DOMAIN w /\ DOMAIN w \subseteq Nat
           /\ Line = w[p + 1]
           /\ SoFar(w, p)
<1>1. taken \in Seq(Lines) /\ Line \in Lines
  BY InvTypeOK, CurrentLine DEF Inv, ReaderOK
<1>2. PICK w, p : p = Len(taken) /\ w = Append(taken, Line)
  OBVIOUS
<1>3. p \in Nat /\ DOMAIN taken = 1 .. p
  BY <1>1, <1>2, LenProperties
<1>4. /\ w \in Seq(Lines) /\ Len(w) = p + 1 /\ w[p + 1] = Line
      /\ \A k \in 1 .. p : w[k] = taken[k]
  BY <1>1, <1>2, AppendProperties
<1>5. DOMAIN w = 1 .. p + 1
  BY <1>4, LenProperties
<1>6. SoFar(taken, p)
  BY <1>2 DEF ReadInv, AtLine, Reading
<1>7. SoFar(w, p)
  BY <1>3, <1>4, <1>5, <1>6, SamePrefix
<1>8. p + 1 \in DOMAIN w /\ DOMAIN w \subseteq Nat
  BY <1>3, <1>5
<1> QED
  BY <1>2, <1>3, <1>4, <1>7, <1>8

(* What SoFar has to say after a step, of the text before it.               *)
NextLines(w, q) ==
  /\ registered' = {w[k].arg : k \in By(Says(w, "directory"), q)}
  /\ \A i \in Inodes : Open(w, i, q) <=> section' = "directory" /\ at' = i

NextRegistry(w, q) ==
  \A i \in registered' :
    /\ EventsFor(w, i, dirs'[i], q)
    /\ OwnersFor(w, i, dirs'[i], section' = "directory" /\ at' = i, q)

NextSettings(w, q) ==
  /\ \A s \in Settings :
       ~(s = "driver" /\ (clobbered' \/ section' = "logging")) => setting'[s] = SettingBy(w, s, q)
  /\ "LOGDRV" \in cliopts => setting'["driver"] = before["driver"]
  /\ section' = "logging" /\ ~clobbered' => DriverNamed(w, ct_driver', q)

LEMMA TextKept ==
  ASSUME UNCHANGED <<before, cliopts>>, NEW w, NEW q,
         NextLines(w, q), NextRegistry(w, q), NextSettings(w, q)
  PROVE  SoFar(w, q)'
<1>1. LinesRead(w, q)'
  BY DEF NextLines, LinesRead
<1>2. RegistrySoFar(w, q)'
  BY DEF NextRegistry, RegistrySoFar
<1>3. SettingsSoFar(w, q)'
  BY SameText DEF NextSettings, SettingsSoFar
<1> QED
  BY <1>1, <1>2, <1>3 DEF SoFar

(* The directories so far, and the lines about one of them.                 *)
Named(w, p) == {w[k].arg : k \in By(Says(w, "directory"), p)}

LEMMA NextDirectories ==
  ASSUME NEW w, NEW p \in Nat, p + 1 \in DOMAIN w, DOMAIN w \subseteq Nat
  PROVE  Named(w, p + 1) = Named(w, p)
           \cup IF w[p + 1].kw = "directory" THEN {w[p + 1].arg} ELSE {}
<1>1. Says(w, "directory") \subseteq Nat /\ (p + 1 \in Says(w, "directory") <=> w[p + 1].kw = "directory")
  BY LineNumbers, NextSays
<1>2. CASE w[p + 1].kw = "directory"
  <2>1. By(Says(w, "directory"), p + 1) = By(Says(w, "directory"), p) \cup {p + 1}
    BY <1>1, <1>2, OneMore
  <2> QED
    BY <1>2, <2>1 DEF Named
<1>3. CASE w[p + 1].kw # "directory"
  <2>1. By(Says(w, "directory"), p + 1) = By(Says(w, "directory"), p)
    BY <1>1, <1>3, OneMore
  <2> QED
    BY <1>3, <2>1 DEF Named
<1> QED
  BY <1>2, <1>3

LEMMA OtherLine ==
  ASSUME NEW w, NEW p \in Nat, p + 1 \in DOMAIN w, DOMAIN w \subseteq Nat,
         NEW i, NEW kw, kw # "directory", ~(w[p + 1].kw = kw /\ Open(w, i, p))
  PROVE  By(SaysOf(w, i, kw), p + 1) = By(SaysOf(w, i, kw), p)
BY LineNumbers, NextSays, OneMore

LEMMA OtherEvent ==
  ASSUME NEW w, NEW p \in Nat, p + 1 \in DOMAIN w, DOMAIN w \subseteq Nat,
         NEW i, ~(w[p + 1].kw = "event" /\ Open(w, i, p)), NEW d, EventsFor(w, i, d, p)
  PROVE  EventsFor(w, i, d, p + 1)
<1>1. By(SaysOf(w, i, "event"), p + 1) = By(SaysOf(w, i, "event"), p)
  BY OtherLine
<1> QED
  BY <1>1 DEF EventsFor, Declared

LEMMA OtherOwner ==
  ASSUME NEW w, NEW p \in Nat, p + 1 \in DOMAIN w, DOMAIN w \subseteq Nat,
         NEW i, ~(w[p + 1].kw \in {"user", "group", "shell"} /\ Open(w, i, p)),
         NEW d, NEW open, OwnersFor(w, i, d, open, p)
  PROVE  OwnersFor(w, i, d, open, p + 1)
<1>1. \A kw \in {"user", "group", "shell"} : By(SaysOf(w, i, kw), p + 1) = By(SaysOf(w, i, kw), p)
  BY OtherLine
<1> QED
  BY <1>1 DEF OwnersFor, Field

LEMMA OtherSetting ==
  ASSUME NEW w, NEW p \in Nat, p + 1 \in DOMAIN w, DOMAIN w \subseteq Nat,
         NEW s, p + 1 \notin SaysSetting(w, s)
  PROVE  SettingBy(w, s, p + 1) = SettingBy(w, s, p)
<1>1. By(SaysSetting(w, s), p + 1) = By(SaysSetting(w, s), p)
  BY LineNumbers, OneMore
<1> QED
  BY <1>1 DEF SettingBy

LEMMA ThisSetting ==
  ASSUME NEW w, NEW p \in Nat, p + 1 \in DOMAIN w, DOMAIN w \subseteq Nat,
         NEW s, p + 1 \in SaysSetting(w, s)
  PROVE  SettingBy(w, s, p + 1) = IF Flag(s) \in cliopts THEN before[s] ELSE Value(w, p + 1)
<1>1. By(SaysSetting(w, s), p + 1) # {} /\ Last(By(SaysSetting(w, s), p + 1)) = p + 1
  BY LineNumbers, OneMore
<1> QED
  BY <1>1 DEF SettingBy

LEMMA OtherDriver ==
  ASSUME NEW w, NEW p \in Nat, p + 1 \in DOMAIN w, DOMAIN w \subseteq Nat,
         w[p + 1].kw # "logging", NEW name, DriverNamed(w, name, p)
  PROVE  DriverNamed(w, name, p + 1)
<1>1. Says(w, "logging") \subseteq Nat
  BY LineNumbers
<1>2. p + 1 \notin Says(w, "logging")
  BY DEF Says
<1>3. By(Says(w, "logging"), p + 1) = By(Says(w, "logging"), p)
  BY <1>1, <1>2, OneMore
<1> QED
  BY <1>3 DEF DriverNamed

(* A line that is not about directories leaves the registry, one that is    *)
(* not about settings leaves these.                                         *)
LEMMA RegistryQuiet ==
  ASSUME NEW w, NEW p \in Nat, p + 1 \in DOMAIN w, DOMAIN w \subseteq Nat,
         SoFar(w, p), UNCHANGED <<registry, at>>,
         w[p + 1].kw \notin {"directory", "event", "user", "group", "shell"},
         section' = "directory" <=> section = "directory",
         w[p + 1].kw = "end" => section # "directory"
  PROVE  NextLines(w, p + 1) /\ NextRegistry(w, p + 1)
<1>1. LinesRead(w, p) /\ RegistrySoFar(w, p) /\ registered' = registered /\ dirs' = dirs /\ at' = at
  BY DEF SoFar, registry
<1>2. \A i \in Inodes : Open(w, i, p + 1) <=> section' = "directory" /\ at' = i
  <2> TAKE i \in Inodes
  <2>1. Open(w, i, p) <=> section = "directory" /\ at = i
    BY <1>1 DEF LinesRead
  <2>2. CASE w[p + 1].kw = "end"
    BY <1>1, <2>1, <2>2, NextOpen
  <2>3. CASE w[p + 1].kw # "end"
    BY <1>1, <2>1, <2>3, NextOpen
  <2> QED
    BY <2>2, <2>3
<1>3. NextLines(w, p + 1)
  <2>1. Named(w, p + 1) = Named(w, p) \cup
          IF w[p + 1].kw = "directory" THEN {w[p + 1].arg} ELSE {}
    BY NextDirectories
  <2>2. registered' = {w[k].arg : k \in By(Says(w, "directory"), p + 1)}
    BY <1>1, <2>1 DEF LinesRead, Named
  <2> QED
    BY <1>2, <2>2 DEF NextLines
<1>4. NextRegistry(w, p + 1)
  <2> SUFFICES ASSUME NEW i \in registered
               PROVE  /\ EventsFor(w, i, dirs[i], p + 1)
                      /\ OwnersFor(w, i, dirs[i], section' = "directory" /\ at' = i, p + 1)
    BY <1>1 DEF NextRegistry
  <2>1. /\ EventsFor(w, i, dirs[i], p)
        /\ OwnersFor(w, i, dirs[i], section' = "directory" /\ at' = i, p)
    BY <1>1 DEF RegistrySoFar
  <2> QED
    BY <2>1, OtherEvent, OtherOwner
<1> QED
  BY <1>3, <1>4

LEMMA SettingsQuiet ==
  ASSUME NEW w, NEW p \in Nat, p + 1 \in DOMAIN w, DOMAIN w \subseteq Nat,
         SoFar(w, p), UNCHANGED <<setting, ct_driver, clobbered>>,
         w[p + 1].kw \notin {"logging", "pidfile", "level", "set"},
         section' = "logging" <=> section = "logging"
  PROVE  NextSettings(w, p + 1)
<1>1. SettingsSoFar(w, p)
  BY DEF SoFar
<1>2. \A s : SettingBy(w, s, p + 1) = SettingBy(w, s, p)
  BY OtherSetting, SaysWhich
<1>3. DriverNamed(w, ct_driver, p) => DriverNamed(w, ct_driver, p + 1)
  BY OtherDriver
<1> QED
  BY <1>1, <1>2, <1>3 DEF NextSettings, SettingsSoFar

(* A line that is read and left behind.                                     *)
LEMMA Carried ==
  ASSUME Inv, ReadInv, ~Again, AtLine, Advance \/ taken' = Append(taken, Line),
         UNCHANGED <<before, cliopts>>,
         NEW w, NEW p, p \in Nat, p = Len(taken), w = Append(taken, Line),
         NextLines(w, p + 1), NextRegistry(w, p + 1), NextSettings(w, p + 1)
  PROVE  ReadInv'
<1>1. taken \in Seq(Lines) /\ Line \in Lines
  BY InvTypeOK, CurrentLine DEF Inv, ReaderOK
<1>2. taken' = w /\ Len(w) = p + 1
  BY <1>1, AppendProperties DEF Advance
<1>3. PICK q : q = p + 1
  OBVIOUS
<1>4. SoFar(w, q)'
  BY <1>3, TextKept
<1>5. SoFar(taken, Len(taken))'
  BY <1>2, <1>3, <1>4
<1> QED
  BY <1>5 DEF ReadInv

LEMMA ReadQuiet ==
  ASSUME Inv, ReadInv, ~Again, Comment \/ Include \/ SettingsSection \/ EndSettings
  PROVE  ReadInv'
<1>1. /\ AtLine
      /\ Advance \/ taken' = Append(taken, Line)
      /\ UNCHANGED <<phase, content, data, registry, settings>>
  BY DEF Comment, Include, SettingsSection, EndSettings, Takes
<1>2. /\ Line.kw \in {"comment", "include", "settings", "end"}
      /\ section' = "directory" <=> section = "directory"
      /\ section' = "logging" <=> section = "logging"
      /\ Line.kw = "end" => section # "directory"
  BY TakesSection DEF Comment, Include, SettingsSection, EndSettings, Takes, Inv, ReaderOK
<1>3. PICK w, p :
        /\ p \in Nat /\ p = Len(taken) /\ w = Append(taken, Line)
        /\ p + 1 \in DOMAIN w /\ DOMAIN w \subseteq Nat
        /\ Line = w[p + 1]
        /\ SoFar(w, p)
  BY <1>1, LineTaken
<1>4. UNCHANGED <<registry, at, setting, ct_driver, clobbered, before, cliopts>>
  BY <1>1 DEF data, settings
<1>5. NextLines(w, p + 1) /\ NextRegistry(w, p + 1)
  BY <1>2, <1>3, <1>4, RegistryQuiet
<1>6. NextSettings(w, p + 1)
  BY <1>2, <1>3, <1>4, SettingsQuiet
<1> QED
  BY <1>1, <1>3, <1>4, <1>5, <1>6, Carried

(* The lines of the settings.                                               *)
LEMMA ReadSetting ==
  ASSUME Inv, ReadInv, ~Again, Pidfile \/ Level \/ (Set /\ ~Fail)
  PROVE  ReadInv'
<1>1. /\ AtLine /\ Advance
      /\ UNCHANGED <<phase, content, section, data, registry, before, cliopts>>
  BY DEF Pidfile, Level, Set, Takes
<1>2. Line.kw \in {"pidfile", "level", "set"}
  BY DEF Pidfile, Level, Set, Takes
<1>3. PICK w, p :
        /\ p \in Nat /\ p = Len(taken) /\ w = Append(taken, Line)
        /\ p + 1 \in DOMAIN w /\ DOMAIN w \subseteq Nat
        /\ Line = w[p + 1]
        /\ SoFar(w, p)
  BY <1>1, LineTaken
<1>4. UNCHANGED <<registry, at, ct_driver, clobbered, before, cliopts, section>>
  BY <1>1 DEF data
<1>5. NextLines(w, p + 1) /\ NextRegistry(w, p + 1)
  BY <1>2, <1>3, <1>4, RegistryQuiet
<1>6. PICK s : /\ s \in Settings /\ s # "driver"
               /\ Put(s, Value(w, p + 1), Flag(s)) /\ Flag(s) # "LOGDRV"
               /\ \A t : p + 1 \in SaysSetting(w, t) <=> t = s
  <2>1. \A t : p + 1 \in SaysSetting(w, t) <=>
           \/ t = "driver" /\ Line.kw = "logging"
           \/ t = "pidfile" /\ Line.kw = "pidfile"
           \/ t = "level" /\ Line.kw = "level"
           \/ t \notin {"driver", "pidfile", "level"} /\ Line.kw = "set" /\ Line.arg.name = t
    <3> TAKE t
    <3>1. PICK l : l = Line /\ l = w[p + 1] /\ p + 1 \in DOMAIN w
      BY <1>3
    <3> QED
      BY <3>1, SaysWhich
  <2>2. CASE Pidfile
    <3>1. Line.kw = "pidfile" /\ Put("pidfile", Line.arg, "PIDFILE")
      BY <2>2 DEF Pidfile, Takes
    <3>2. Value(w, p + 1) = Line.arg /\ Flag("pidfile") = "PIDFILE" /\ "pidfile" \in Settings
      BY <1>3, <3>1 DEF Value, Flag, Settings
    <3>3. \A t : p + 1 \in SaysSetting(w, t) <=> t = "pidfile"
      BY <2>1, <3>1
    <3> QED
      BY <3>1, <3>2, <3>3
  <2>3. CASE Level
    <3>1. Line.kw = "level" /\ Put("level", Line.arg, "LOGLVL")
      BY <2>3 DEF Level, Takes
    <3>2. Value(w, p + 1) = Line.arg /\ Flag("level") = "LOGLVL" /\ "level" \in Settings
      BY <1>3, <3>1 DEF Value, Flag, Settings
    <3>3. \A t : p + 1 \in SaysSetting(w, t) <=> t = "level"
      BY <2>1, <3>1
    <3> QED
      BY <3>1, <3>2, <3>3
  <2>4. CASE Set /\ ~Fail
    <3> DEFINE s == Line.arg.name
    <3>1. /\ Line.kw = "set" /\ ct_driver \in Drivers /\ s \in DrvOpts[ct_driver]
          /\ Put(s, Line.arg.value, "LOGOPT")
      BY <2>4 DEF Set, Takes
    <3>2. s \in Settings /\ s \notin {"pidfile", "driver", "level"}
      BY <3>1, ConfigurationAssumption DEF Settings
    <3>3. Value(w, p + 1) = Line.arg.value /\ Flag(s) = "LOGOPT"
      BY <1>3, <3>1, <3>2 DEF Value, Flag
    <3>4. \A t : p + 1 \in SaysSetting(w, t) <=> t = s
      BY <2>1, <3>1, <3>2
    <3> QED
      BY <3>1, <3>2, <3>3, <3>4
  <2> QED
    BY <2>2, <2>3, <2>4
<1>7. NextSettings(w, p + 1)
  <2>1. SettingsSoFar(w, p)
    BY <1>3 DEF SoFar
  <2>2. ASSUME NEW t \in Settings, ~(t = "driver" /\ (clobbered \/ section = "logging"))
        PROVE  setting'[t] = SettingBy(w, t, p + 1)
    <3>1. setting[t] = SettingBy(w, t, p)
      BY <2>1, <2>2 DEF SettingsSoFar
    <3>2. CASE t = s
      <4>1. SettingBy(w, t, p + 1) = IF Flag(t) \in cliopts THEN before[t] ELSE Value(w, p + 1)
        BY <1>3, <1>6, <3>2, ThisSetting
      <4>2. CASE Flag(t) \in cliopts
        <5>1. SettingBy(w, t, p) = before[t]
          BY <4>2 DEF SettingBy
        <5> QED
          BY <1>6, <3>1, <3>2, <4>1, <4>2, <5>1 DEF Put
      <4>3. CASE Flag(t) \notin cliopts
        BY <1>6, <3>2, <4>1, <4>3 DEF Put, Inv, SettingsOK
      <4> QED
        BY <4>2, <4>3
    <3>3. CASE t # s
      <4>1. SettingBy(w, t, p + 1) = SettingBy(w, t, p)
        BY <1>3, <1>6, <3>3, OtherSetting
      <4>2. setting'[t] = setting[t]
        BY <1>6, <3>3 DEF Put, Inv, SettingsOK
      <4> QED
        BY <3>1, <4>1, <4>2
    <3> QED
      BY <3>2, <3>3
  <2>3. setting'["driver"] = setting["driver"]
    BY <1>6 DEF Put, Inv, SettingsOK, Settings
  <2>4. section = "logging" /\ ~clobbered => DriverNamed(w, ct_driver, p + 1)
    BY <1>2, <1>3, <2>1, OtherDriver DEF SettingsSoFar
  <2> QED
    BY <1>4, <2>1, <2>2, <2>3, <2>4 DEF NextSettings, SettingsSoFar
<1> QED
  BY <1>1, <1>3, <1>4, <1>5, <1>7, Carried

LEMMA ReadLogging ==
  ASSUME Inv, ReadInv, ~Again, Logging
  PROVE  ReadInv'
<1>1. /\ AtLine /\ Advance /\ Line.kw = "logging"
      /\ UNCHANGED <<phase, content, at, clobbered, registry, setting, before, cliopts>>
      /\ section = "settings" /\ section' = "logging"
      /\ ct_driver' = Line.arg /\ Line.arg \in Drivers
  <2>1. Line.arg \in Drivers
    BY TakesArgument, Arguments DEF Logging
  <2>2. section = "settings"
    BY TakesSection DEF Logging, Inv, ReaderOK
  <2> QED
    BY <2>1, <2>2 DEF Logging, Takes, settings
<1>2. PICK w, p :
        /\ p \in Nat /\ p = Len(taken) /\ w = Append(taken, Line)
        /\ p + 1 \in DOMAIN w /\ DOMAIN w \subseteq Nat
        /\ Line = w[p + 1]
        /\ SoFar(w, p)
  BY <1>1, LineTaken
<1>3. NextLines(w, p + 1) /\ NextRegistry(w, p + 1)
  BY <1>1, <1>2, RegistryQuiet
<1>4. NextSettings(w, p + 1)
  <2>1. SettingsSoFar(w, p)
    BY <1>2 DEF SoFar
  <2>2. ASSUME NEW t, t # "driver"
        PROVE  SettingBy(w, t, p + 1) = SettingBy(w, t, p)
    <3>1. w[p + 1].kw = "logging"
      BY <1>1, <1>2
    <3>2. p + 1 \notin SaysSetting(w, t)
      BY <2>2, <3>1, SaysWhich
    <3> QED
      BY <1>2, <3>2, OtherSetting
  <2>3. DriverNamed(w, ct_driver', p + 1)
    <3>1. p + 1 \in By(Says(w, "logging"), p + 1)
      <4>1. p + 1 \in Says(w, "logging")
        BY <1>1, <1>2 DEF Says
      <4>2. p + 1 <= p + 1
        BY <1>2
      <4> QED
        BY <4>1, <4>2 DEF By
    <3>2. \A k \in By(Says(w, "logging"), p + 1) : k <= p + 1
      BY DEF By
    <3> QED
      BY <1>1, <1>2, <3>1, <3>2 DEF DriverNamed
  <2> QED
    BY <1>1, <2>1, <2>2, <2>3 DEF NextSettings, SettingsSoFar
<1> QED
  BY <1>1, <1>2, <1>3, <1>4, Carried

LEMMA ReadEndLogging ==
  ASSUME Inv, ReadInv, ~Again, EndLogging
  PROVE  ReadInv'
<1>1. /\ AtLine /\ Advance /\ Line.kw = "end"
      /\ UNCHANGED <<phase, content, at, ct_driver, clobbered, registry, before, cliopts>>
      /\ section = "logging" /\ section' = "settings"
      /\ IF ct_driver \in Drivers THEN Put("driver", ct_driver, "LOGDRV") ELSE UNCHANGED setting
  BY DEF EndLogging, Takes, data
<1>2. PICK w, p :
        /\ p \in Nat /\ p = Len(taken) /\ w = Append(taken, Line)
        /\ p + 1 \in DOMAIN w /\ DOMAIN w \subseteq Nat
        /\ Line = w[p + 1]
        /\ SoFar(w, p)
  BY <1>1, LineTaken
<1>3. NextLines(w, p + 1) /\ NextRegistry(w, p + 1)
  BY <1>1, <1>2, RegistryQuiet
<1>4. NextSettings(w, p + 1)
  <2>1. SettingsSoFar(w, p)
    BY <1>2 DEF SoFar
  <2>2. ASSUME NEW t
        PROVE  SettingBy(w, t, p + 1) = SettingBy(w, t, p)
    <3>1. w[p + 1].kw = "end"
      BY <1>1, <1>2
    <3>2. p + 1 \notin SaysSetting(w, t)
      BY <3>1, SaysWhich
    <3> QED
      BY <1>2, <3>2, OtherSetting
  <2>3. \A t \in Settings : t # "driver" => setting'[t] = setting[t]
    BY <1>1 DEF Put, Inv, SettingsOK
  <2>4. "LOGDRV" \in cliopts => setting'["driver"] = setting["driver"]
    BY <1>1 DEF Put
  <2>5. ASSUME ~clobbered
        PROVE  setting'["driver"] = SettingBy(w, "driver", p)
    <3>1. DriverNamed(w, ct_driver, p)
      BY <1>1, <2>1, <2>5 DEF SettingsSoFar
    <3>2. ct_driver \in Drivers
      BY <3>1 DEF DriverNamed
    <3>3. PICK j \in By(Says(w, "logging"), p) :
            /\ \A k \in By(Says(w, "logging"), p) : k <= j
            /\ ct_driver = w[j].arg
      BY <3>1 DEF DriverNamed
    <3>4. SaysSetting(w, "driver") = Says(w, "logging") /\ Flag("driver") = "LOGDRV"
      BY DEF SaysSetting, Flag
    <3>5. Last(By(Says(w, "logging"), p)) = j
      <4> DEFINE K == By(Says(w, "logging"), p)
      <4>1. K \subseteq Nat
        BY <1>2, LineNumbers DEF By
      <4> HIDE DEF K
      <4>2. \A k \in K : (\A l \in K : l <= k) => k = j
        BY <3>3, <4>1 DEF K
      <4> QED
        BY <3>3, <4>2 DEF K, Last
    <3>6. Value(w, j) = ct_driver
      <4>1. w[j].kw = "logging"
        BY DEF By, Says
      <4> QED
        BY <3>3, <4>1 DEF Value
    <3>7. SettingBy(w, "driver", p) = IF "LOGDRV" \in cliopts THEN before["driver"] ELSE ct_driver
      BY <3>3, <3>4, <3>5, <3>6 DEF SettingBy
    <3>8. CASE "LOGDRV" \in cliopts
      BY <2>1, <2>4, <3>7, <3>8 DEF SettingsSoFar
    <3>9. CASE "LOGDRV" \notin cliopts
      BY <1>1, <3>2, <3>7, <3>9 DEF Put, Inv, SettingsOK, Settings
    <3> QED
      BY <3>8, <3>9
  <2> QED
    BY <1>1, <2>1, <2>2, <2>3, <2>4, <2>5 DEF NextSettings, SettingsSoFar
<1> QED
  BY <1>1, <1>2, <1>3, <1>4, Carried

(* The lines of the directories.                                            *)
LEMMA NothingSaid ==
  ASSUME NEW w, NEW p \in Nat, DOMAIN w \subseteq Nat, LinesRead(w, p), NEW i, i \notin registered, NEW kw
  PROVE  By(SaysOf(w, i, kw), p) = {}
<1> SUFFICES ASSUME NEW k \in By(SaysOf(w, i, kw), p) PROVE FALSE
  OBVIOUS
<1>1. k \in Nat /\ k <= p /\ k \in SaysOf(w, i, kw)
  BY LineNumbers DEF By
<1>2. PICK j \in Says(w, "directory") : w[j].arg = i /\ j < k
  BY <1>1 DEF SaysOf
<1>3. j \in Nat /\ j <= p
  BY <1>1, <1>2, LineNumbers
<1>4. i \in registered
  BY <1>2, <1>3 DEF LinesRead, By
<1> QED
  BY <1>4

LEMMA ReadDirectory ==
  ASSUME Inv, ReadInv, ~Again, Directory, ~Fail
  PROVE  ReadInv'
<1>1. PICK i : i = Line.arg
  OBVIOUS
<1>2. /\ AtLine /\ Advance /\ Line.kw = "directory" /\ i \notin registered /\ i \in Inodes
      /\ section = "main" /\ section' = "directory" /\ at' = i
      /\ registered' = registered \cup {i}
      /\ dirs' = [dirs EXCEPT ![i] = Blank]
      /\ UNCHANGED <<phase, content, ct_driver, clobbered, setting, before, cliopts>>
  <2>1. Takes("directory")
    BY DEF Directory
  <2>2. section = "main" /\ Line.arg \in Inodes
    BY <2>1, TakesSection, TakesArgument, Arguments DEF Inv, ReaderOK
  <2> QED
    BY <1>1, <2>1, <2>2 DEF Directory, Takes, settings
<1>3. PICK w, p :
        /\ p \in Nat /\ p = Len(taken) /\ w = Append(taken, Line)
        /\ p + 1 \in DOMAIN w /\ DOMAIN w \subseteq Nat
        /\ Line = w[p + 1]
        /\ SoFar(w, p)
  BY <1>2, LineTaken
<1>4. LinesRead(w, p) /\ RegistrySoFar(w, p)
  BY <1>3 DEF SoFar
<1>5. NextLines(w, p + 1)
  <2>1. registered' = {w[k].arg : k \in By(Says(w, "directory"), p + 1)}
    <3>1. w[p + 1].kw = "directory" /\ w[p + 1].arg = i
      BY <1>1, <1>2, <1>3
    <3>2. Named(w, p + 1) = Named(w, p) \cup
            IF w[p + 1].kw = "directory" THEN {w[p + 1].arg} ELSE {}
      BY <1>3, NextDirectories
    <3> QED
      BY <1>2, <1>4, <3>1, <3>2 DEF LinesRead, Named
  <2>2. ASSUME NEW j \in Inodes
        PROVE  Open(w, j, p + 1) <=> section' = "directory" /\ at' = j
    <3>1. ~Open(w, j, p)
      BY <1>2, <1>4 DEF LinesRead
    <3>2. Open(w, j, p + 1) <=> i = j
      <4>1. w[p + 1].kw = "directory" /\ w[p + 1].arg = i
        BY <1>1, <1>2, <1>3
      <4> QED
        BY <1>3, <3>1, <4>1, NextOpen
    <3> QED
      BY <1>2, <3>2
  <2> QED
    BY <2>1, <2>2 DEF NextLines
<1>6. NextRegistry(w, p + 1)
  <2>1. ASSUME NEW j \in registered
        PROVE  /\ EventsFor(w, j, dirs'[j], p + 1)
               /\ OwnersFor(w, j, dirs'[j], section' = "directory" /\ at' = j, p + 1)
    <3>1. j # i /\ dirs'[j] = dirs[j]
      BY <1>2, <2>1 DEF Inv, RegistryOK
    <3>2. EventsFor(w, j, dirs[j], p) /\ OwnersFor(w, j, dirs[j], section' = "directory" /\ at' = j, p)
      <4>1. EventsFor(w, j, dirs[j], p) /\ OwnersFor(w, j, dirs[j], section = "directory" /\ at = j, p)
        BY <1>4, <2>1 DEF RegistrySoFar
      <4>2. (section = "directory" /\ at = j) = (section' = "directory" /\ at' = j)
        BY <1>2, <3>1
      <4> QED
        BY <4>1, <4>2
    <3> QED
      BY <1>2, <1>3, <3>1, <3>2, OtherEvent, OtherOwner
  <2>2. /\ EventsFor(w, i, dirs'[i], p + 1)
        /\ OwnersFor(w, i, dirs'[i], section' = "directory" /\ at' = i, p + 1)
    <3>1. dirs'[i] = Blank
      BY <1>2 DEF Inv, RegistryOK
    <3>2. \A kw : By(SaysOf(w, i, kw), p) = {}
      BY <1>2, <1>3, <1>4, NothingSaid
    <3>3. \A e \in Events : Command(Blank, e) = NoCommand
      BY BlankSound, UndeclaredCommand DEF Blank
    <3>4. EventsFor(w, i, Blank, p)
      BY <3>2, <3>3 DEF EventsFor, Declared
    <3>5. OwnersFor(w, i, Blank, TRUE, p)
      BY <3>2 DEF OwnersFor, Field, Blank
    <3>6. EventsFor(w, i, Blank, p + 1) /\ OwnersFor(w, i, Blank, TRUE, p + 1)
      BY <1>2, <1>3, <3>4, <3>5, OtherEvent, OtherOwner
    <3>7. (section' = "directory" /\ at' = i) = TRUE
      BY <1>2
    <3> QED
      BY <3>1, <3>6, <3>7
  <2> QED
    BY <1>2, <2>1, <2>2 DEF NextRegistry
<1>7. NextSettings(w, p + 1)
  BY <1>2, <1>3, SettingsQuiet
<1> QED
  BY <1>2, <1>3, <1>5, <1>6, <1>7, Carried

(* A line of the section of a directory: what is about others stays.        *)
LEMMA ReadSection ==
  ASSUME Inv, ReadInv, ~Again, AtLine, Advance,
         section = "directory", section' \in {"directory", "main"},
         Line.kw \in {"event", "user", "group", "shell", "end"},
         section' = "main" <=> Line.kw = "end",
         UNCHANGED <<phase, content, registered, at, ct_driver, clobbered, setting, before, cliopts>>,
         \A i \in registered : i # at => dirs'[i] = dirs[i],
         NEW d, d = dirs[at], NEW g, g = dirs'[at],
         \A w : \A p \in Nat :
           /\ p + 1 \in DOMAIN w /\ DOMAIN w \subseteq Nat
           /\ Line = w[p + 1] /\ Open(w, at, p)
           /\ EventsFor(w, at, d, p) /\ OwnersFor(w, at, d, TRUE, p)
           => EventsFor(w, at, g, p + 1) /\ OwnersFor(w, at, g, section' = "directory", p + 1)
  PROVE  ReadInv'
<1>1. PICK w, p :
        /\ p \in Nat /\ p = Len(taken) /\ w = Append(taken, Line)
        /\ p + 1 \in DOMAIN w /\ DOMAIN w \subseteq Nat
        /\ Line = w[p + 1]
        /\ SoFar(w, p)
  BY LineTaken
<1>2. LinesRead(w, p) /\ RegistrySoFar(w, p) /\ at \in registered /\ registered \subseteq Inodes
  BY <1>1 DEF SoFar, Inv, DataOK, RegistryOK
<1>3. NextLines(w, p + 1)
  <2>1. registered' = {w[k].arg : k \in By(Says(w, "directory"), p + 1)}
    <3>1. w[p + 1].kw # "directory"
      BY <1>1
    <3>2. Named(w, p + 1) = Named(w, p) \cup
            IF w[p + 1].kw = "directory" THEN {w[p + 1].arg} ELSE {}
      BY <1>1, NextDirectories
    <3> QED
      BY <1>2, <3>1, <3>2 DEF LinesRead, Named
  <2>2. ASSUME NEW j \in Inodes
        PROVE  Open(w, j, p + 1) <=> section' = "directory" /\ at' = j
    <3>1. Open(w, j, p) <=> at = j
      BY <1>2 DEF LinesRead
    <3>2. CASE Line.kw = "end"
      BY <1>1, <3>2, NextOpen
    <3>3. CASE Line.kw # "end"
      BY <1>1, <3>1, <3>3, NextOpen
    <3> QED
      BY <3>2, <3>3
  <2> QED
    BY <2>1, <2>2 DEF NextLines
<1>4. NextRegistry(w, p + 1)
  <2>1. ASSUME NEW j \in registered, j # at
        PROVE  /\ EventsFor(w, j, dirs'[j], p + 1)
               /\ OwnersFor(w, j, dirs'[j], section' = "directory" /\ at' = j, p + 1)
    <3>1. ~Open(w, j, p)
      BY <1>2, <2>1 DEF LinesRead
    <3>2. EventsFor(w, j, dirs[j], p) /\ OwnersFor(w, j, dirs[j], section = "directory" /\ at = j, p)
      BY <1>2, <2>1 DEF RegistrySoFar
    <3>3. (section = "directory" /\ at = j) = (section' = "directory" /\ at' = j)
      BY <2>1
    <3>4. OwnersFor(w, j, dirs[j], section' = "directory" /\ at' = j, p)
      BY <3>2, <3>3
    <3>5. dirs'[j] = dirs[j]
      BY <2>1
    <3> QED
      BY <1>1, <3>1, <3>2, <3>4, <3>5, OtherEvent, OtherOwner
  <2>2. /\ EventsFor(w, at, dirs'[at], p + 1)
        /\ OwnersFor(w, at, dirs'[at], section' = "directory" /\ at' = at, p + 1)
    <3>1. Open(w, at, p)
      BY <1>2 DEF LinesRead
    <3>2. EventsFor(w, at, dirs[at], p) /\ OwnersFor(w, at, dirs[at], section = "directory" /\ at = at, p)
      BY <1>2 DEF RegistrySoFar
    <3>3. /\ (section = "directory" /\ at = at) = TRUE
          /\ (section' = "directory" /\ at' = at) = (section' = "directory")
      OBVIOUS
    <3>4. EventsFor(w, at, g, p + 1) /\ OwnersFor(w, at, g, section' = "directory", p + 1)
      BY <1>1, <3>1, <3>2, <3>3
    <3> QED
      BY <3>3, <3>4
  <2>3. registered' = registered
    OBVIOUS
  <2> QED
    BY <2>1, <2>2, <2>3 DEF NextRegistry
<1>5. NextSettings(w, p + 1)
  BY <1>1, SettingsQuiet
<1> QED
  BY <1>1, <1>3, <1>4, <1>5, Carried

LEMMA ReadEndDirectory ==
  ASSUME Inv, ReadInv, ~Again, EndDirectory
  PROVE  ReadInv'
<1>1. /\ AtLine /\ Advance /\ section = "directory" /\ section' = "main" /\ Line.kw = "end"
      /\ UNCHANGED <<phase, content, registered, at, ct_driver, clobbered, setting, before, cliopts>>
      /\ dirs' = [dirs EXCEPT ![at] = Defaults(dirs[at])]
      /\ at \in Inodes /\ dirs \in [Inodes -> Directories]
  BY DEF EndDirectory, Takes, data, settings, Closed, Inv, DataOK, RegistryOK
<1>2. PICK d, g : d = dirs[at] /\ g = dirs'[at]
  OBVIOUS
<1>3. d \in Directories /\ g = Defaults(d) /\ \A i \in registered : i # at => dirs'[i] = dirs[i]
  BY <1>1, <1>2 DEF Inv, RegistryOK
<1>4. ASSUME NEW w, NEW p \in Nat, p + 1 \in DOMAIN w, DOMAIN w \subseteq Nat,
             Line = w[p + 1], EventsFor(w, at, d, p), OwnersFor(w, at, d, TRUE, p)
      PROVE  EventsFor(w, at, g, p + 1) /\ OwnersFor(w, at, g, FALSE, p + 1)
  <2>1. EventsFor(w, at, g, p)
    <3>1. \A e : Command(g, e) = Command(d, e)
      BY <1>3, DefaultsSound, SameCommand
    <3> QED
      BY <1>3, <1>4, <3>1, DefaultsSound DEF EventsFor
  <2>2. OwnersFor(w, at, g, FALSE, p)
    <3>1. /\ g.uid = IF d.uid = Unset THEN "root" ELSE d.uid
          /\ g.gid = IF d.gid = Unset THEN "root" ELSE d.gid
          /\ g.shell = d.shell
      BY <1>3 DEF Defaults, Directories
    <3>2. /\ Field(w, at, "user", d.uid, Unset, p) /\ (d.uid = Unset => By(SaysOf(w, at, "user"), p) = {})
          /\ Field(w, at, "group", d.gid, Unset, p) /\ (d.gid = Unset => By(SaysOf(w, at, "group"), p) = {})
          /\ Field(w, at, "shell", d.shell, Unset, p)
      BY <1>4 DEF OwnersFor
    <3>3. Field(w, at, "user", g.uid, "root", p) /\ (g.uid = Unset => By(SaysOf(w, at, "user"), p) = {})
      BY <3>1, <3>2 DEF Field
    <3>4. Field(w, at, "group", g.gid, "root", p) /\ (g.gid = Unset => By(SaysOf(w, at, "group"), p) = {})
      BY <3>1, <3>2 DEF Field
    <3> QED
      BY <3>1, <3>2, <3>3, <3>4 DEF OwnersFor
  <2> QED
    BY <1>1, <1>4, <2>1, <2>2, OtherEvent, OtherOwner
<1>5. (section' = "directory") = FALSE
  BY <1>1
<1> QED
  BY <1>1, <1>2, <1>3, <1>4, <1>5, ReadSection

LEMMA ReadEvent ==
  ASSUME Inv, ReadInv, ~Again, Event, ~Fail
  PROVE  ReadInv'
<1>1. PICK S, c : S = Line.arg.mask /\ c = Line.arg.command
  OBVIOUS
<1>2. PICK d, g : d = dirs[at] /\ g = dirs'[at]
  OBVIOUS
<1>3. /\ AtLine /\ Advance /\ section = "directory" /\ section' = "directory" /\ Line.kw = "event"
      /\ UNCHANGED <<phase, content, registered, at, ct_driver, clobbered, setting, before, cliopts>>
      /\ dirs' = [dirs EXCEPT ![at] = Joined(d, S, c)]
      /\ S \cap d.mask = {}
      /\ S \in (SUBSET Events) \ {{}} /\ c \in Commands
      /\ at \in Inodes /\ dirs \in [Inodes -> Directories]
      /\ d \in Directories /\ Sound(d)
  <2>1. Takes("event")
    BY DEF Event
  <2>2. section = "directory" /\ Line.arg \in Ways
    BY <2>1, TakesSection, TakesArgument, Arguments DEF Inv, ReaderOK
  <2>3. at \in Inodes /\ dirs \in [Inodes -> Directories] /\ Sound(dirs[at])
    BY <2>2 DEF Inv, DataOK, RegistryOK, ActionsDisjoint
  <2>4. S \in (SUBSET Events) \ {{}} /\ c \in Commands
    BY <1>1, <2>2 DEF Ways
  <2> QED
    BY <1>1, <1>2, <2>1, <2>2, <2>3, <2>4 DEF Event, Takes, data, settings
<1>4. /\ g = Joined(d, S, c) /\ g.mask = d.mask \cup S
      /\ g.uid = d.uid /\ g.gid = d.gid /\ g.shell = d.shell
      /\ \A i \in registered : i # at => dirs'[i] = dirs[i]
  <2>1. g = Joined(d, S, c)
    BY <1>2, <1>3
  <2>2. g.mask = d.mask \cup S
    BY <1>3, <2>1, JoinedTable
  <2>3. g.uid = d.uid /\ g.gid = d.gid /\ g.shell = d.shell
    BY <1>3, <2>1 DEF Joined, Directories
  <2>4. \A i \in registered : i # at => dirs'[i] = dirs[i]
    BY <1>3 DEF Inv, RegistryOK
  <2> QED
    BY <2>1, <2>2, <2>3, <2>4
<1>5. \A e \in Events : Command(g, e) = IF e \in S THEN c ELSE Command(d, e)
  BY <1>3, <1>4, JoinedCommand
<1>6. ASSUME NEW w, NEW p \in Nat, p + 1 \in DOMAIN w, DOMAIN w \subseteq Nat,
             Line = w[p + 1], Open(w, at, p),
             EventsFor(w, at, d, p), OwnersFor(w, at, d, TRUE, p)
      PROVE  EventsFor(w, at, g, p + 1) /\ OwnersFor(w, at, g, TRUE, p + 1)
  <2>1. By(SaysOf(w, at, "event"), p + 1) = By(SaysOf(w, at, "event"), p) \cup {p + 1}
    BY <1>3, <1>6, NextSays, LineNumbers, OneMore
  <2>2. \A e : Declared(w, at, e, p + 1) = Declared(w, at, e, p) \cup (IF e \in S THEN {p + 1} ELSE {})
    BY <1>1, <1>6, <2>1 DEF Declared
  <2>3. ASSUME NEW e \in Events
        PROVE  /\ \A k \in Declared(w, at, e, p + 1) : Command(g, e) = w[k].arg.command /\ e \in g.mask
               /\ Declared(w, at, e, p + 1) = {} => Command(g, e) = NoCommand
    <3>1. /\ \A k \in Declared(w, at, e, p) : Command(d, e) = w[k].arg.command /\ e \in d.mask
          /\ Declared(w, at, e, p) = {} => Command(d, e) = NoCommand
      BY <1>6 DEF EventsFor
    <3>2. CASE e \in S
      <4>1. Declared(w, at, e, p) = {}
        BY <1>3, <3>1, <3>2
      <4>2. Declared(w, at, e, p + 1) = {p + 1}
        BY <2>2, <3>2, <4>1
      <4>3. Command(g, e) = c /\ e \in g.mask
        BY <1>4, <1>5, <3>2
      <4> QED
        BY <1>1, <1>6, <4>2, <4>3
    <3>3. CASE e \notin S
      <4>1. Declared(w, at, e, p + 1) = Declared(w, at, e, p)
        BY <2>2, <3>3
      <4>2. Command(g, e) = Command(d, e)
        BY <1>5, <3>3
      <4> QED
        BY <1>4, <3>1, <4>1, <4>2
    <3> QED
      BY <3>2, <3>3
  <2>4. OwnersFor(w, at, g, TRUE, p)
    BY <1>4, <1>6 DEF OwnersFor
  <2>5. OwnersFor(w, at, g, TRUE, p + 1)
    BY <1>3, <1>6, <2>4, OtherOwner
  <2> QED
    BY <2>3, <2>5 DEF EventsFor
<1>7. (section' = "directory") = TRUE
  BY <1>3
<1> QED
  BY <1>2, <1>3, <1>4, <1>6, <1>7, ReadSection

(* A line about the owner or the shell is the last one.                     *)
LEMMA NewField ==
  ASSUME NEW w, NEW p \in Nat, p + 1 \in DOMAIN w, DOMAIN w \subseteq Nat,
         NEW i, NEW kw, kw # "directory", w[p + 1].kw = kw, Open(w, i, p), NEW default
  PROVE  Field(w, i, kw, w[p + 1].arg, default, p + 1)
<1>1. By(SaysOf(w, i, kw), p + 1) # {} /\ Last(By(SaysOf(w, i, kw), p + 1)) = p + 1
  <2>1. SaysOf(w, i, kw) \subseteq Nat
    BY LineNumbers
  <2>2. p + 1 \in SaysOf(w, i, kw)
    BY NextSays
  <2> QED
    BY <2>1, <2>2, OneMore
<1> QED
  BY <1>1 DEF Field

LEMMA ReadOwner ==
  ASSUME Inv, ReadInv, ~Again, Owner
  PROVE  ReadInv'
<1>1. PICK d, g, a : d = dirs[at] /\ g = dirs'[at] /\ a = Line.arg
  OBVIOUS
<1>2. /\ AtLine /\ Advance /\ section = "directory" /\ section' = "directory"
      /\ Line.kw \in {"user", "group", "shell"} /\ Line.arg # Bad /\ Line \in Lines
      /\ UNCHANGED <<phase, content, registered, at, ct_driver, clobbered, setting, before, cliopts>>
      /\ at \in Inodes /\ dirs \in [Inodes -> Directories] /\ d \in Directories
  <2>1. AtLine /\ Line.kw \in {"user", "group", "shell"} /\ Takes(Line.kw)
    BY DEF Owner, Takes
  <2>2. section = "directory"
    BY <2>1, TakesSection DEF Inv, ReaderOK
  <2>3. Line.arg # Bad /\ Line \in Lines
    BY <2>1, TakesArgument
  <2> QED
    BY <1>1, <2>1, <2>2, <2>3 DEF Owner, data, settings, Inv, DataOK, RegistryOK
<1>3. \/ /\ Line.kw = "user" /\ a \in Ids
         /\ dirs' = [dirs EXCEPT ![at] = [d EXCEPT !.uid = a]]
      \/ /\ Line.kw = "group" /\ a \in Ids
         /\ dirs' = [dirs EXCEPT ![at] = [d EXCEPT !.gid = a]]
      \/ /\ Line.kw = "shell"
         /\ dirs' = [dirs EXCEPT ![at] = [d EXCEPT !.shell = a]]
  BY <1>1, <1>2, Arguments DEF Owner, Takes
<1>4. /\ \/ Line.kw = "user" /\ a \in Ids /\ g = [d EXCEPT !.uid = a]
         \/ Line.kw = "group" /\ a \in Ids /\ g = [d EXCEPT !.gid = a]
         \/ Line.kw = "shell" /\ g = [d EXCEPT !.shell = a]
      /\ \A i \in registered : i # at => dirs'[i] = dirs[i]
  BY <1>1, <1>2, <1>3 DEF Inv, RegistryOK
<1>5. /\ g.actions = d.actions /\ g.mask = d.mask
      /\ \/ /\ Line.kw = "user" /\ g.uid = a /\ a # Unset
            /\ g.gid = d.gid /\ g.shell = d.shell
         \/ /\ Line.kw = "group" /\ g.gid = a /\ a # Unset
            /\ g.uid = d.uid /\ g.shell = d.shell
         \/ /\ Line.kw = "shell" /\ g.shell = a
            /\ g.uid = d.uid /\ g.gid = d.gid
  BY <1>2, <1>4, ConfigurationAssumption DEF Directories
<1>6. ASSUME NEW w, NEW p \in Nat, p + 1 \in DOMAIN w, DOMAIN w \subseteq Nat,
             Line = w[p + 1], Open(w, at, p),
             EventsFor(w, at, d, p), OwnersFor(w, at, d, TRUE, p)
      PROVE  EventsFor(w, at, g, p + 1) /\ OwnersFor(w, at, g, TRUE, p + 1)
  <2>1. EventsFor(w, at, g, p)
    <3>1. \A e : Command(g, e) = Command(d, e)
      BY <1>5, SameCommand
    <3> QED
      BY <1>5, <1>6, <3>1 DEF EventsFor
  <2>2. EventsFor(w, at, g, p + 1)
    BY <1>2, <1>6, <2>1, OtherEvent
  <2>3. /\ Field(w, at, "user", d.uid, Unset, p) /\ (d.uid = Unset => By(SaysOf(w, at, "user"), p) = {})
        /\ Field(w, at, "group", d.gid, Unset, p) /\ (d.gid = Unset => By(SaysOf(w, at, "group"), p) = {})
        /\ Field(w, at, "shell", d.shell, Unset, p)
    BY <1>6 DEF OwnersFor
  <2>4. \A kw \in {"user", "group", "shell"} :
          Line.kw # kw => By(SaysOf(w, at, kw), p + 1) = By(SaysOf(w, at, kw), p)
    BY <1>6, OtherLine
  <2>5. \A kw \in {"user", "group", "shell"} : Line.kw = kw => Field(w, at, kw, a, Unset, p + 1)
    BY <1>1, <1>6, NewField
  <2>6. Field(w, at, "user", g.uid, Unset, p + 1) /\ (g.uid = Unset => By(SaysOf(w, at, "user"), p + 1) = {})
    BY <1>5, <2>3, <2>4, <2>5 DEF Field
  <2>7. Field(w, at, "group", g.gid, Unset, p + 1) /\ (g.gid = Unset => By(SaysOf(w, at, "group"), p + 1) = {})
    BY <1>5, <2>3, <2>4, <2>5 DEF Field
  <2>8. Field(w, at, "shell", g.shell, Unset, p + 1)
    BY <1>5, <2>3, <2>4, <2>5 DEF Field
  <2>9. OwnersFor(w, at, g, TRUE, p + 1)
    BY <2>6, <2>7, <2>8 DEF OwnersFor
  <2> QED
    BY <2>2, <2>9
<1>7. (section' = "directory") = TRUE
  BY <1>2
<1> QED
  BY <1>1, <1>2, <1>4, <1>6, <1>7, ReadSection

(* The ends: before the first line and after the last one.                  *)
LEMMA NoneYet == registered = {} /\ section = "main" /\ before = setting => SoFar(<<>>, 0)
<1> SUFFICES ASSUME registered = {}, section = "main", before = setting
             PROVE  SoFar(<<>>, 0)
  OBVIOUS
<1>1. PICK w : w = <<>> /\ DOMAIN w = {}
  BY EmptySeq
<1>2. (\A kw : By(Says(w, kw), 0) = {}) /\ \A s : By(SaysSetting(w, s), 0) = {}
  BY <1>1, SaysWhich DEF By, Says
<1>3. LinesRead(w, 0)
  BY <1>2 DEF LinesRead, Open
<1>4. RegistrySoFar(w, 0)
  BY DEF RegistrySoFar
<1>5. SettingsSoFar(w, 0)
  BY <1>2 DEF SettingsSoFar, SettingBy
<1> QED
  BY <1>1, <1>3, <1>4, <1>5 DEF SoFar

LEMMA ReadBegin == Inv /\ BeginReading => ReadInv' /\ AsWritten'
<1> SUFFICES ASSUME Inv, BeginReading, phase' = "reading" PROVE ReadInv'
  BY DEF BeginReading, Begin, AsWritten, ReadInv
<1>1. registered' = {} /\ section' = "main" /\ before' = setting' /\ taken' = <<>>
  BY DEF BeginReading, Begin, Inv, ReaderOK
<1>2. (registered = {} /\ section = "main" /\ before = setting => SoFar(<<>>, 0))'
  BY NoneYet, PTL
<1>3. SoFar(<<>>, 0)'
  BY <1>1, <1>2
<1>4. Len(taken') = 0
  BY <1>1, EmptySeq
<1>5. SoFar(taken, Len(taken))'
  BY <1>1, <1>3, <1>4
<1> QED
  BY <1>5 DEF ReadInv

InForce(w) ==
  /\ registered = {w[k].arg : k \in Says(w, "directory")}
  /\ \A i \in registered : OfSection(w, i)
  /\ OfSettings(w)

ReadOut ==
  \A w : \A q \in Nat : DOMAIN w = 1 .. q /\ SoFar(w, q) /\ section = "main" => InForce(w)

LEMMA AllRead == ReadOut
<1> SUFFICES ASSUME NEW w, NEW p \in Nat, DOMAIN w = 1 .. p, SoFar(w, p), section = "main"
             PROVE  InForce(w)
  BY DEF ReadOut
<1>1. \A K : K \subseteq DOMAIN w => By(K, p) = K
  BY DEF By
<1>2. /\ \A kw : Says(w, kw) \subseteq DOMAIN w
      /\ \A kw, i : SaysOf(w, i, kw) \subseteq DOMAIN w
      /\ \A s : SaysSetting(w, s) \subseteq DOMAIN w
  BY SaysWhich DEF Says, SaysOf
<1>3. /\ \A kw : By(Says(w, kw), p) = Says(w, kw)
      /\ \A kw, i : By(SaysOf(w, i, kw), p) = SaysOf(w, i, kw)
      /\ \A s : By(SaysSetting(w, s), p) = SaysSetting(w, s)
  BY <1>1, <1>2
<1>4. registered = {w[k].arg : k \in Says(w, "directory")}
  BY <1>3 DEF SoFar, LinesRead
<1>5. ASSUME NEW i \in registered, NEW e \in Events
      PROVE  LET K == {k \in SaysOf(w, i, "event") : e \in w[k].arg.mask} IN
             /\ \A k \in K : Command(dirs[i], e) = w[k].arg.command
             /\ K = {} => Command(dirs[i], e) = NoCommand
  <2>1. EventsFor(w, i, dirs[i], p)
    BY DEF SoFar, RegistrySoFar
  <2>2. Declared(w, i, e, p) = {k \in SaysOf(w, i, "event") : e \in w[k].arg.mask}
    BY <1>3 DEF Declared
  <2> QED
    BY <2>1, <2>2 DEF EventsFor
<1>6. ASSUME NEW i \in registered
      PROVE  OfSection(w, i)
  <2>1. OwnersFor(w, i, dirs[i], FALSE, p)
    <3>1. OwnersFor(w, i, dirs[i], section = "directory" /\ at = i, p)
      BY DEF SoFar, RegistrySoFar
    <3>2. (section = "directory" /\ at = i) = FALSE
      OBVIOUS
    <3> QED
      BY <3>1, <3>2
  <2>2. /\ Field(w, i, "user", dirs[i].uid, "root", p)
        /\ Field(w, i, "group", dirs[i].gid, "root", p)
        /\ Field(w, i, "shell", dirs[i].shell, Unset, p)
    BY <2>1 DEF OwnersFor
  <2>3. \A f \in {<<"user", dirs[i].uid>>, <<"group", dirs[i].gid>>, <<"shell", dirs[i].shell>>} :
          SaysOf(w, i, f[1]) # {} => f[2] = w[Last(SaysOf(w, i, f[1]))].arg
    BY <1>3, <2>2 DEF Field
  <2>4. SaysOf(w, i, "shell") = {} => dirs[i].shell = Unset
    BY <1>3, <2>2 DEF Field
  <2> QED
    BY <1>5, <2>3, <2>4 DEF OfSection
<1>7. OfSettings(w)
  BY <1>3 DEF SoFar, SettingsSoFar, SettingBy, OfSettings
<1> QED
  BY <1>4, <1>6, <1>7 DEF InForce

(* A step that reads nothing.  What overwrites the name of the driver says  *)
(* so.                                                                      *)
LEMMA Unmoved ==
  ASSUME UNCHANGED <<section, at, registry, settings>>,
         UNCHANGED <<ct_driver, clobbered>> \/ clobbered' = TRUE,
         NEW w, NEW p, SoFar(w, p)
  PROVE  SoFar(w, p)'
<1>1. LinesRead(w, p) /\ RegistrySoFar(w, p) /\ SettingsSoFar(w, p)
  BY DEF SoFar
<1>2. NextLines(w, p)
  BY <1>1 DEF NextLines, LinesRead, registry
<1>3. NextRegistry(w, p)
  BY <1>1 DEF NextRegistry, RegistrySoFar, registry
<1>4. NextSettings(w, p)
  BY <1>1 DEF NextSettings, SettingsSoFar, settings
<1> QED
  BY <1>2, <1>3, <1>4, TextKept DEF settings

LEMMA Stays ==
  ASSUME UNCHANGED <<taken, section, at, registry, settings>>,
         UNCHANGED <<ct_driver, clobbered>> \/ clobbered' = TRUE,
         SoFar(taken, Len(taken))
  PROVE  SoFar(taken, Len(taken))'
<1>1. PICK w, p : w = taken /\ p = Len(taken)
  OBVIOUS
<1>2. SoFar(w, p)'
  BY <1>1, Unmoved
<1> QED
  BY <1>1, <1>2

(* A text ends before its last line is handed over again, and not then.     *)
LEMMA EndNotAgain ==
  ASSUME TypeOK, Reading, AtEnd
  PROVE  /\ ~Again
         /\ stack[1].pos < Len(Text) => Text[stack[1].pos + 1].kw = "unreadable"
<1>1. /\ stack[1].name \in DOMAIN content /\ content \in Contents
      /\ Text \in Seq(Lines) /\ stack[1].pos \in Nat /\ Len(Text) \in Nat
      /\ DOMAIN Text = 1 .. Len(Text)
  BY CurrentFile, LenProperties DEF Reading, Frames
<1>2. ASSUME Again
      PROVE  FALSE
  <2>1. stack[1].pos + 1 \in DOMAIN Text /\ Text[stack[1].pos + 1].kw = "unended"
    BY <1>1, <1>2 DEF Again
  <2>2. Text[(stack[1].pos + 1) - 1].kw # "unreadable"
    BY <1>1, <2>1, ConfigurationAssumption DEF Text
  <2>3. (stack[1].pos + 1) - 1 = stack[1].pos
    BY <1>1
  <2>4. Line.kw = Text[stack[1].pos].kw
    BY <1>2 DEF Line
  <2> QED
    BY <1>2, <2>2, <2>3, <2>4 DEF AtEnd, Again
<1> QED
  BY <1>2 DEF AtEnd, Line

LEMMA AgainStays ==
  ASSUME Inv, Reading, Again, Step \/ Overwrite, phase' = "reading"
  PROVE  stack' = stack /\ content' = content
<1>1. AtLine => Line.arg = Bad
  BY InvTypeOK, CurrentLine
<1>2. \A kw : Takes(kw) => kw = "end"
  BY <1>1 DEF Takes
<1>3. ~(Include \/ Directory \/ Event \/ Owner \/ SettingsSection \/ Pidfile \/ Logging \/ Level \/ Set)
  BY <1>2 DEF Include, Directory, Event, Owner, SettingsSection, Pidfile, Logging, Level, Set
<1>4. ~(Refuse \/ RunOffTable \/ PrematureEnd)
  BY DEF Refuse, RunOffTable, PrematureEnd, Fail
<1>5. ~OpenIncluded
  BY DEF OpenIncluded, Reading
<1>6. ~EndOfLines
  BY InvTypeOK, EndNotAgain DEF EndOfLines
<1>7. CASE Overwrite
  BY <1>7 DEF Overwrite, reader
<1>8. CASE Comment \/ EndDirectory \/ EndLogging \/ EndSettings
  BY <1>8 DEF Comment, EndDirectory, EndLogging, EndSettings, Advance
<1> QED
  BY <1>3, <1>4, <1>5, <1>6, <1>7, <1>8 DEF Step

LEMMA ReadMore ==
  ASSUME Inv, ReadInv, Step \/ Overwrite, phase' = "reading"
  PROVE  ReadInv'
<1>1. phase = "reading" /\ ~Fail
  BY DEF Step, Comment, Refuse, RunOffTable, EndOfLines, PrematureEnd, Include, OpenIncluded,
     Directory, Event, Owner, EndDirectory, SettingsSection, Pidfile, Logging, Level, Set,
     EndLogging, EndSettings, Overwrite, Takes, AtLine, Reading, Fail
<1>2. CASE Reading /\ Again
  <2>1. stack' = stack /\ content' = content
    BY <1>2, AgainStays
  <2>2. (Reading /\ Again)'
    BY <1>2, <2>1 DEF Reading, Again, Text
  <2> QED
    BY <2>2 DEF ReadInv
<1>3. CASE ~(Reading /\ Again)
  <2>1. SoFar(taken, Len(taken)) /\ (AtLine => ~Again)
    BY <1>1, <1>3 DEF ReadInv, AtLine
  <2>2. ~(Refuse \/ PrematureEnd \/ RunOffTable)
    BY <1>1 DEF Refuse, PrematureEnd, RunOffTable
  <2>3. CASE Overwrite \/ EndOfLines \/ OpenIncluded
    <3>1. /\ UNCHANGED <<taken, section, at, registry, settings>>
          /\ UNCHANGED <<ct_driver, clobbered>> \/ clobbered' = TRUE
      BY <1>1, <2>3 DEF Overwrite, EndOfLines, OpenIncluded, reader, data
    <3>2. SoFar(taken, Len(taken))'
      BY <2>1, <3>1, Stays
    <3> QED
      BY <3>2 DEF ReadInv
  <2>4. CASE Comment \/ Include \/ SettingsSection \/ EndSettings
    BY <2>1, <2>4, ReadQuiet DEF Comment, Include, SettingsSection, EndSettings, Takes
  <2>5. CASE Pidfile \/ Level \/ Set
    BY <1>1, <2>1, <2>5, ReadSetting DEF Pidfile, Level, Set, Takes
  <2>6. CASE Logging \/ EndLogging
    BY <2>1, <2>6, ReadLogging, ReadEndLogging DEF Logging, EndLogging, Takes
  <2>7. CASE Directory \/ EndDirectory
    BY <1>1, <2>1, <2>7, ReadDirectory, ReadEndDirectory DEF Directory, EndDirectory, Takes
  <2>8. CASE Event \/ Owner
    BY <1>1, <2>1, <2>8, ReadEvent, ReadOwner DEF Event, Owner, Takes
  <2> QED
    BY <2>2, <2>3, <2>4, <2>5, <2>6, <2>7, <2>8 DEF Step
<1> QED
  BY <1>2, <1>3

(* A configuration in one file: the lines taken are those before the        *)
(* position.                                                                *)
MainInv ==
  phase = "reading" /\ WholeInMain =>
    /\ Len(stack) = 1 /\ stack[1].name = Main /\ stack[1].todo = <<>>
    /\ Len(taken) = stack[1].pos
    /\ \A k \in 1 .. stack[1].pos : taken[k] = content[Main][k]

LEMMA MainBegin == Inv /\ BeginReading => MainInv'
<1> SUFFICES ASSUME Inv, BeginReading, phase' = "reading" PROVE MainInv'
  BY DEF MainInv
<1>1. stack' = <<Frame(Main)>> /\ taken' = <<>>
  BY DEF BeginReading, Begin
<1>2. /\ Len(stack') = 1 /\ stack'[1].name = Main /\ stack'[1].todo = <<>> /\ stack'[1].pos = 0
      /\ Len(taken') = 0
  BY <1>1, EmptySeq DEF Frame
<1>3. 1 .. 0 = {}
  OBVIOUS
<1> QED
  BY <1>2, <1>3 DEF MainInv

LEMMA MainAdvance ==
  ASSUME Inv, MainInv, WholeInMain, AtLine, Advance, content' = content
  PROVE  MainInv'
<1>1. phase = "reading" /\ TypeOK /\ stack \in Seq(Frames(content)) /\ taken \in Seq(Lines)
  BY InvTypeOK DEF AtLine, Reading, Inv, ReaderOK
<1>2. PICK p : p = stack[1].pos
  OBVIOUS
<1>3. /\ stack[1] \in Frames(content) /\ 1 \in DOMAIN stack /\ p \in Nat
      /\ Len(stack) = 1 /\ stack[1].name = Main /\ stack[1].todo = <<>>
      /\ Len(taken) = p /\ \A k \in 1 .. p : taken[k] = content[Main][k]
  BY <1>1, <1>2, CurrentFile DEF MainInv, Frames
<1>4. CASE Again
  <2>1. stack' = stack /\ taken' = taken
    BY <1>4 DEF Advance
  <2> QED
    BY <1>2, <1>3, <2>1 DEF MainInv
<1>5. CASE ~Again
  <2> DEFINE f == [stack[1] EXCEPT !.pos = @ + 1]
  <2>1. stack' = [stack EXCEPT ![1] = f] /\ taken' = Append(taken, Line)
    BY <1>5 DEF Advance
  <2>2. f \in Frames(content) /\ f.name = Main /\ f.pos = p + 1 /\ f.todo = <<>>
    BY <1>2, <1>3 DEF Frames
  <2> HIDE DEF f
  <2>3. Len(stack') = 1 /\ stack'[1] = f
    BY <1>1, <1>3, <2>1, <2>2, ExceptSeq
  <2>4. Line \in Lines /\ Line = content[Main][p + 1]
    BY <1>1, <1>2, <1>3, <1>5, CurrentLine DEF Text
  <2>5. /\ Len(taken') = p + 1 /\ taken'[p + 1] = Line
        /\ \A k \in 1 .. p : taken'[k] = taken[k]
    BY <1>1, <1>3, <2>1, <2>4, AppendProperties
  <2>6. \A k \in 1 .. p + 1 : k \in 1 .. p \/ k = p + 1
    BY <1>3
  <2>7. \A k \in 1 .. p + 1 : taken'[k] = content[Main][k]
    BY <1>3, <2>4, <2>5, <2>6
  <2> QED
    BY <2>2, <2>3, <2>5, <2>7 DEF MainInv
<1> QED
  BY <1>4, <1>5

LEMMA MainStep ==
  ASSUME Inv, MainInv, Step \/ Overwrite
  PROVE  MainInv'
<1>1. phase = "reading" /\ content' = content
  BY DEF Step, Comment, Refuse, RunOffTable, EndOfLines, PrematureEnd, Include, OpenIncluded,
     Directory, Event, Owner, EndDirectory, SettingsSection, Pidfile, Logging, Level, Set,
     EndLogging, EndSettings, Overwrite, Takes, AtLine, Reading, Fail, reader
<1>2. WholeInMain' <=> WholeInMain
  BY <1>1 DEF WholeInMain
<1> SUFFICES ASSUME WholeInMain, phase' = "reading" PROVE MainInv'
  BY <1>2 DEF MainInv
<1>3. Len(stack) = 1 /\ stack[1].name = Main /\ stack[1].todo = <<>>
  BY <1>1 DEF MainInv
<1>4. ~(Fail \/ Refuse \/ PrematureEnd \/ RunOffTable \/ EndOfLines)
  BY <1>1, <1>3 DEF Fail, Refuse, PrematureEnd, RunOffTable, EndOfLines
<1>5. ~OpenIncluded
  BY <1>3 DEF OpenIncluded
<1>6. ~Include
  <2> SUFFICES ASSUME Include PROVE FALSE
    OBVIOUS
  <2>1. AtLine /\ Line.kw = "include" /\ Line.arg # Bad
    BY DEF Include, Takes
  <2>2. Line = content[Main][stack[1].pos + 1] /\ stack[1].pos + 1 \in DOMAIN content[Main]
    BY <1>1, <1>3, <2>1, InvTypeOK, CurrentFile, CurrentLine, LenProperties DEF Text
  <2> QED
    BY <2>1, <2>2 DEF WholeInMain, Says
<1>7. CASE Overwrite
  <2>1. UNCHANGED <<phase, content, stack, taken>>
    BY <1>7 DEF Overwrite, reader
  <2> QED
    BY <1>1, <2>1 DEF MainInv
<1>8. CASE ~Overwrite
  <2>1. AtLine /\ Advance
    BY <1>4, <1>5, <1>6, <1>8 DEF Step, Comment, Directory, Event, Owner, EndDirectory, SettingsSection,
       Pidfile, Logging, Level, Set, EndLogging, EndSettings, Takes
  <2> QED
    BY <1>1, <2>1, MainAdvance
<1> QED
  BY <1>7, <1>8

LEMMA ReadEnd ==
  ASSUME Inv, ReadInv, MainInv, EndOfLines, phase' = "ok"
  PROVE  AsWritten'
<1>1. /\ Reading /\ phase = "reading" /\ section = "main" /\ AtEnd
      /\ UNCHANGED <<content, taken, section, data, registry, settings>>
  BY DEF EndOfLines, Reading
<1>2. TypeOK /\ ~Again /\ (stack[1].pos < Len(Text) => Text[stack[1].pos + 1].kw = "unreadable")
  BY <1>1, InvTypeOK, EndNotAgain
<1>3. PICK w, p : w = taken /\ p = Len(taken)
  OBVIOUS
<1>4. p \in Nat /\ DOMAIN w = 1 .. p /\ w \in Seq(Lines)
  BY <1>3, LenProperties DEF Inv, ReaderOK
<1>5. SoFar(w, p)'
  BY <1>1, <1>2, <1>3, Unmoved DEF data, ReadInv
<1>6. ReadOut'
  BY AllRead, PTL
<1>7. InForce(w)'
  BY <1>1, <1>4, <1>5, <1>6 DEF ReadOut
<1>8. WholeInMain => taken = content[Main]
  <2> SUFFICES ASSUME WholeInMain PROVE w = content[Main]
    BY <1>3
  <2> DEFINE t == content[Main]
  <2>1. stack[1].name = Main /\ p = stack[1].pos /\ \A k \in 1 .. p : w[k] = t[k]
    BY <1>1, <1>3 DEF MainInv
  <2>2. Text = t /\ t \in Seq(Lines) /\ p \in 0 .. Len(t)
    BY <1>1, <1>2, <2>1, CurrentFile DEF Text
  <2>3. Len(t) \in Nat /\ DOMAIN t = 1 .. Len(t)
    BY <2>2, LenProperties
  <2>4. p = Len(t)
    <3>1. ASSUME p < Len(t)
          PROVE  FALSE
      <4>1. p + 1 \in DOMAIN t /\ t[p + 1].kw = "unreadable"
        BY <1>2, <1>4, <2>1, <2>2, <2>3, <3>1
      <4> QED
        BY <4>1 DEF WholeInMain, Says
    <3> QED
      BY <1>4, <2>2, <2>3, <3>1
  <2> HIDE DEF t
  <2> QED
    BY <1>3, <1>4, <2>1, <2>2, <2>4, SeqEqual DEF t
<1>9. WholeInMain' => taken' = content'[Main]
  BY <1>1, <1>8 DEF WholeInMain
<1>10. taken' = w
  BY <1>1, <1>3
<1> QED
  BY <1>7, <1>9, <1>10 DEF AsWritten, InForce

(* The invariant.                                                           *)
LEMMA AsWrittenStep ==
  ASSUME Inv, ReadInv, MainInv, AsWritten, Step \/ Overwrite
  PROVE  ReadInv' /\ MainInv' /\ AsWritten'
<1>1. phase = "reading"
  BY DEF Step, Comment, Refuse, RunOffTable, EndOfLines, PrematureEnd, Include, OpenIncluded,
     Directory, Event, Owner, EndDirectory, SettingsSection, Pidfile, Logging, Level, Set,
     EndLogging, EndSettings, Overwrite, Takes, AtLine, Reading
<1>2. ReadInv'
  BY ReadMore DEF ReadInv
<1>3. AsWritten'
  <2>1. CASE EndOfLines /\ phase' = "ok"
    BY <2>1, ReadEnd
  <2>2. CASE ~(EndOfLines /\ phase' = "ok")
    <3>1. phase' # "ok"
      BY <1>1, <2>2 DEF Step, Comment, Refuse, RunOffTable, PrematureEnd, Include, OpenIncluded,
         Directory, Event, Owner, EndDirectory, SettingsSection, Pidfile, Logging, Level, Set,
         EndLogging, EndSettings, Overwrite, Fail, reader
    <3> QED
      BY <3>1 DEF AsWritten
  <2> QED
    BY <2>1, <2>2
<1> QED
  BY <1>2, <1>3, MainStep

LEMMA AsWrittenStutter ==
  ASSUME ReadInv, MainInv, AsWritten, UNCHANGED vars
  PROVE  ReadInv' /\ MainInv' /\ AsWritten'
<1>1. UNCHANGED <<phase, content, stack, taken, section, at, ct_driver, clobbered, registry, settings>>
  BY DEF vars, reader, data
<1>2. WholeInMain' <=> WholeInMain
  BY <1>1 DEF WholeInMain
<1>3. ReadInv'
  <2>1. (Reading /\ Again)' <=> Reading /\ Again
    BY <1>1 DEF Reading, Again, Text
  <2>2. SoFar(taken, Len(taken)) => SoFar(taken, Len(taken))'
    BY <1>1, Stays
  <2> QED
    BY <1>1, <2>1, <2>2 DEF ReadInv
<1>4. MainInv'
  BY <1>1, <1>2 DEF MainInv
<1>5. AsWritten'
  <2>1. registered' = registered /\ dirs' = dirs
    BY <1>1 DEF registry
  <2>2. PICK w : w = taken
    OBVIOUS
  <2>3. \A i : OfSection(w, i)' <=> OfSection(w, i)
    BY <2>1 DEF OfSection
  <2>4. OfSettings(w)' <=> OfSettings(w)
    BY <1>1 DEF OfSettings, settings
  <2> QED
    BY <1>1, <1>2, <2>1, <2>2, <2>3, <2>4 DEF AsWritten
<1> QED
  BY <1>3, <1>4, <1>5

(* Every reading that succeeds, of any files, puts in force what its lines  *)
(* say, whatever was in force before; and its lines are all those of the    *)
(* file when it includes no others and can be read to its end               *)
(* (ind_conf.c:193-222, 282-600 and 699-839).                               *)
THEOREM InForceAsWritten == Spec => []AsWritten
<1>1. Init => ReadInv /\ MainInv /\ AsWritten
  BY DEF Init, ReadInv, MainInv, AsWritten
<1>2. Inv /\ ReadInv /\ MainInv /\ AsWritten /\ [Next]_vars => (ReadInv /\ MainInv /\ AsWritten)'
  BY ReadBegin, MainBegin, AsWrittenStep, AsWrittenStutter DEF Next
<1> QED
  BY <1>1, <1>2, Invariance, PTL DEF Spec

-----------------------------------------------------------------------------
(***************************************************************************)
(* The reader of lines: the lines of a file.  A position p of a file f is   *)
(* at the start of a line when n newlines lie before it and one of them is  *)
(* the byte before it.                                                      *)
(***************************************************************************)
AtStart(f, p, n) ==
  /\ p \in 0 .. Len(f)
  /\ p = 0 \/ f[p] = "newline"
  /\ Cardinality(NewlinesUpTo(f, p)) = n

LEMMA NewlinesFinite ==
  ASSUME NEW f \in Seq(Bytes), NEW p
  PROVE  /\ Len(f) \in Nat /\ DOMAIN f = 1 .. Len(f)
         /\ Newlines(f) \subseteq 1 .. Len(f)
         /\ IsFiniteSet(Newlines(f)) /\ HowManyLines(f) \in Nat
         /\ IsFiniteSet(NewlinesUpTo(f, p)) /\ Cardinality(NewlinesUpTo(f, p)) \in Nat
         /\ Cardinality(NewlinesUpTo(f, p)) <= HowManyLines(f)
<1>1. Len(f) \in Nat /\ DOMAIN f = 1 .. Len(f)
  BY LenProperties
<1>2. Newlines(f) \subseteq 1 .. Len(f) /\ NewlinesUpTo(f, p) \subseteq Newlines(f)
  BY <1>1 DEF Newlines, NewlinesUpTo
<1>3. IsFiniteSet(1 .. Len(f))
  BY <1>1, FS_Interval
<1>4. IsFiniteSet(Newlines(f))
  BY <1>2, <1>3, FS_Subset
<1>5. IsFiniteSet(NewlinesUpTo(f, p)) /\ Cardinality(NewlinesUpTo(f, p)) <= Cardinality(Newlines(f))
  BY <1>2, <1>4, FS_Subset
<1> QED
  BY <1>1, <1>2, <1>4, <1>5, FS_CardinalityType DEF HowManyLines

(* A line has one end.                                                      *)
LEMMA EndIs ==
  ASSUME NEW f \in Seq(Bytes), NEW e \in Newlines(f)
  PROVE  EndOfLine(f, Cardinality(NewlinesUpTo(f, e))) = e
<1>1. ASSUME NEW i \in Newlines(f), NEW j \in Newlines(f), i < j
      PROVE  Cardinality(NewlinesUpTo(f, i)) # Cardinality(NewlinesUpTo(f, j))
  <2>1. i \in Nat /\ j \in Nat
    BY NewlinesFinite
  <2>2. j \notin NewlinesUpTo(f, i)
    BY <1>1, <2>1 DEF NewlinesUpTo
  <2>3. NewlinesUpTo(f, i) \cup {j} \subseteq NewlinesUpTo(f, j)
    <3>1. Newlines(f) \subseteq Nat
      BY NewlinesFinite
    <3> QED
      BY <1>1, <2>1, <3>1 DEF NewlinesUpTo
  <2>4. /\ IsFiniteSet(NewlinesUpTo(f, i)) /\ Cardinality(NewlinesUpTo(f, i)) \in Nat
        /\ IsFiniteSet(NewlinesUpTo(f, j)) /\ Cardinality(NewlinesUpTo(f, j)) \in Nat
    BY NewlinesFinite
  <2>5. Cardinality(NewlinesUpTo(f, i) \cup {j}) = Cardinality(NewlinesUpTo(f, i)) + 1
    BY <2>2, <2>4, FS_AddElement
  <2>6. Cardinality(NewlinesUpTo(f, i) \cup {j}) <= Cardinality(NewlinesUpTo(f, j))
    BY <2>3, <2>4, FS_Subset
  <2> QED
    BY <2>4, <2>5, <2>6
<1>2. PICK n : n = Cardinality(NewlinesUpTo(f, e))
  OBVIOUS
<1>3. PICK c : c = EndOfLine(f, n)
  OBVIOUS
<1>4. c \in Newlines(f) /\ Cardinality(NewlinesUpTo(f, c)) = n
  BY <1>2, <1>3 DEF EndOfLine
<1>5. c \in Nat /\ e \in Nat
  BY <1>4, NewlinesFinite
<1>6. ~(c < e) /\ ~(e < c)
  BY <1>1, <1>2, <1>4
<1> QED
  BY <1>2, <1>3, <1>5, <1>6

(* The next line ends at the next newline.                                  *)
LEMMA NextLine ==
  ASSUME NEW f \in Seq(Bytes), NEW p, NEW n, AtStart(f, p, n),
         NEW e \in Newlines(f), p < e, \A k \in p + 1 .. e - 1 : f[k] # "newline"
  PROVE  /\ AtStart(f, e, n + 1)
         /\ EndOfLine(f, n + 1) = e /\ BeginOfLine(f, n + 1) = p + 1
         /\ n \in Nat /\ n < HowManyLines(f)
<1>1. /\ p \in 0 .. Len(f) /\ e \in 1 .. Len(f) /\ Len(f) \in Nat
      /\ Newlines(f) \subseteq 1 .. Len(f)
      /\ DOMAIN f = 1 .. Len(f)
  BY NewlinesFinite DEF AtStart
<1>2. NewlinesUpTo(f, e) = NewlinesUpTo(f, p) \cup {e}
  <2>1. ASSUME NEW k \in Newlines(f) PROVE k <= e <=> k <= p \/ k = e
    <3>1. k \in Nat /\ f[k] = "newline"
      BY <1>1 DEF Newlines
    <3>2. k > p => ~(k \in p + 1 .. e - 1)
      BY <3>1
    <3> QED
      BY <1>1, <3>1, <3>2
  <2> QED
    BY <2>1 DEF NewlinesUpTo
<1>3. e \notin NewlinesUpTo(f, p)
  BY <1>1 DEF NewlinesUpTo
<1>4. n \in Nat /\ Cardinality(NewlinesUpTo(f, p)) = n
  BY NewlinesFinite DEF AtStart
<1>5. Cardinality(NewlinesUpTo(f, e)) = n + 1
  BY <1>2, <1>3, <1>4, NewlinesFinite, FS_AddElement
<1>6. EndOfLine(f, n + 1) = e
  BY <1>5, EndIs
<1>7. BeginOfLine(f, n + 1) = p + 1
  <2>1. CASE p = 0
    <3>1. NewlinesUpTo(f, p) = {}
      BY <1>1, <2>1 DEF NewlinesUpTo
    <3>2. n = 0
      BY <1>4, <3>1, FS_EmptySet
    <3> QED
      BY <2>1, <3>2 DEF BeginOfLine
  <2>2. CASE p # 0
    <3>1. p \in Newlines(f)
      BY <1>1, <2>2 DEF AtStart, Newlines
    <3>2. EndOfLine(f, n) = p
      BY <1>4, <3>1, EndIs
    <3>3. n # 0
      <4>1. p \in NewlinesUpTo(f, p)
        BY <1>1, <3>1 DEF NewlinesUpTo
      <4> QED
        BY <1>4, <4>1, NewlinesFinite, FS_EmptySet
    <3> QED
      BY <1>4, <3>2, <3>3 DEF BeginOfLine
  <2> QED
    BY <2>1, <2>2
<1>8. AtStart(f, e, n + 1)
  BY <1>1, <1>5 DEF AtStart, Newlines
<1>9. n < HowManyLines(f)
  BY <1>4, <1>5, NewlinesFinite
<1> QED
  BY <1>4, <1>6, <1>7, <1>8, <1>9

(* Where no newline comes any more, all lines came.                         *)
LEMMA NoMoreLines ==
  ASSUME NEW f \in Seq(Bytes), NEW p, NEW n, AtStart(f, p, n),
         \A k \in p + 1 .. Len(f) : f[k] # "newline"
  PROVE  n = HowManyLines(f)
<1>1. p \in 0 .. Len(f) /\ Len(f) \in Nat /\ Newlines(f) \subseteq 1 .. Len(f)
  BY NewlinesFinite DEF AtStart
<1>2. ASSUME NEW k \in Newlines(f) PROVE k <= p
  <2>1. k \in 1 .. Len(f) /\ f[k] = "newline"
    BY <1>1 DEF Newlines
  <2>2. ~(k \in p + 1 .. Len(f))
    BY <2>1
  <2> QED
    BY <1>1, <2>1, <2>2
<1>3. NewlinesUpTo(f, p) = Newlines(f)
  BY <1>2 DEF NewlinesUpTo
<1> QED
  BY <1>3 DEF AtStart, HowManyLines

(* A line without an end in as many bytes as the buffer has is not regular. *)
LEMMA NoRegularLine ==
  ASSUME NEW f \in Seq(Bytes), NEW p, NEW n, AtStart(f, p, n),
         \A k \in p + 1 .. p + BufSize : k <= Len(f) => f[k] # "newline"
  PROVE  n = HowManyLines(f) \/ ~Regular(f, n + 1)
<1>1. p \in 0 .. Len(f) /\ Len(f) \in Nat /\ Newlines(f) \subseteq 1 .. Len(f)
  BY NewlinesFinite DEF AtStart
<1> DEFINE S == {k \in Newlines(f) : p < k}
<1>2. CASE S = {}
  <2>1. DOMAIN f = 1 .. Len(f)
    BY NewlinesFinite
  <2>2. \A k \in p + 1 .. Len(f) : f[k] # "newline"
    BY <1>1, <1>2, <2>1 DEF Newlines
  <2> QED
    BY <2>2, NoMoreLines
<1>3. CASE S # {}
  <2>1. PICK e \in S : \A k \in S : e <= k
    <3>1. S \subseteq Nat
      BY <1>1
    <3> HIDE DEF S
    <3> QED
      BY <1>3, <3>1, Least
  <2>2. e \in Newlines(f) /\ e \in 1 .. Len(f) /\ p < e /\ f[e] = "newline"
    BY <1>1, <2>1 DEF Newlines
  <2>3. \A k \in p + 1 .. e - 1 : f[k] # "newline"
    <3> SUFFICES ASSUME NEW k \in p + 1 .. e - 1, f[k] = "newline" PROVE FALSE
      OBVIOUS
    <3>1. k \in 1 .. Len(f) /\ p < k /\ ~(e <= k)
      BY <1>1, <2>2
    <3>2. k \in S
      BY <3>1, NewlinesFinite DEF Newlines
    <3> QED
      BY <2>1, <3>1, <3>2
  <2>4. EndOfLine(f, n + 1) = e /\ BeginOfLine(f, n + 1) = p + 1 /\ n \in Nat
    BY <2>2, <2>3, NextLine
  <2>5. ~(e \in p + 1 .. p + BufSize)
    BY <1>1, <2>2
  <2>6. ~(e - (p + 1) < BufSize) /\ n + 1 \in 1 .. n + 1
    BY <1>1, <2>2, <2>4, <2>5, LineReaderAssumption
  <2> QED
    BY <2>4, <2>6 DEF Regular
<1> QED
  BY <1>2, <1>3

(* What a line is without its leading blanks.                               *)
LEMMA TrimmedIs ==
  ASSUME NEW f \in Seq(Bytes), NEW n, NEW b, NEW e,
         b = BeginOfLine(f, n), e = EndOfLine(f, n), b \in Nat, e \in Nat,
         NEW i \in b .. e, f[i] # "blank", \A j \in b .. i - 1 : f[j] = "blank"
  PROVE  Trimmed(f, n) = SubSeq(f, i, e - 1)
<1> DEFINE P(k) == f[k] # "blank" /\ \A j \in b .. k - 1 : f[j] = "blank"
           first == CHOOSE k \in b .. e : P(k)
<1>1. P(i)
  OBVIOUS
<1>2. first \in b .. e /\ P(first)
  <2> HIDE DEF P
  <2> QED
    BY <1>1
<1>3. first = i
  <2> HIDE DEF first
  <2>1. i \in Nat /\ first \in Nat
    BY <1>2
  <2>2. ~(first < i)
    <3> SUFFICES ASSUME first < i PROVE FALSE
      OBVIOUS
    <3>1. first \in b .. i - 1
      BY <1>2, <2>1
    <3> QED
      BY <1>2, <3>1
  <2>3. ~(i < first)
    <3> SUFFICES ASSUME i < first PROVE FALSE
      OBVIOUS
    <3>1. i \in b .. first - 1
      BY <1>2, <2>1
    <3> QED
      BY <1>2, <3>1
  <2> QED
    BY <2>1, <2>2, <2>3
<1>4. Trimmed(f, n) = SubSeq(f, first, e - 1)
  BY DEF Trimmed
<1> QED
  BY <1>3, <1>4

-----------------------------------------------------------------------------
(***************************************************************************)
(* Strings in the buffer.                                                   *)
(***************************************************************************)
Buffers == [0 .. BufSize -> Bytes \cup {Nul, Garbage}]

LEMMA StringType ==
  ASSUME NEW b \in Buffers, NEW i \in 0 .. BufSize
  PROVE  /\ StringEnd(b, i) \in i .. BufSize
         /\ String(b, i) \in Seq(Bytes \cup {Garbage})
<1> DEFINE P(j) == /\ b[j] = Nul \/ j = BufSize
                   /\ \A k \in i .. j - 1 : b[k] # Nul
           S == {j \in i .. BufSize : b[j] = Nul \/ j = BufSize}
           end == CHOOSE j \in i .. BufSize : P(j)
<1>1. BufSize \in Nat /\ i \in Nat
  BY LineReaderAssumption
<1>2. PICK m \in S : \A k \in S : m <= k
  <2>1. S \subseteq Nat /\ BufSize \in S
    BY <1>1
  <2> HIDE DEF S
  <2> QED
    BY <2>1, Least
<1>3. m \in i .. BufSize /\ P(m)
  <2>1. m \in i .. BufSize /\ (b[m] = Nul \/ m = BufSize)
    BY <1>2
  <2>2. ASSUME NEW k \in i .. m - 1 PROVE b[k] # Nul
    <3>1. k \in i .. BufSize /\ ~(m <= k)
      BY <1>1, <2>1
    <3> QED
      BY <1>2, <3>1
  <2> QED
    BY <2>1, <2>2
<1>4. end \in i .. BufSize /\ P(end)
  <2> HIDE DEF P
  <2> QED
    BY <1>3
<1>5. StringEnd(b, i) = end
  BY DEF StringEnd
<1> HIDE DEF end
<1>6. \A k \in 1 .. end - i : b[i + k - 1] \in Bytes \cup {Garbage}
  <2> SUFFICES ASSUME NEW k \in 1 .. end - i PROVE b[i + k - 1] \in Bytes \cup {Garbage}
    OBVIOUS
  <2>1. i + k - 1 \in i .. end - 1 /\ i + k - 1 \in 0 .. BufSize
    BY <1>1, <1>4
  <2> QED
    BY <1>4, <2>1 DEF Buffers
<1>7. String(b, i) = [k \in 1 .. end - i |-> b[i + k - 1]] /\ end - i \in Nat
  BY <1>1, <1>4, <1>5 DEF String
<1>8. String(b, i) \in Seq(Bytes \cup {Garbage})
  BY <1>6, <1>7, SeqDef
<1> QED
  BY <1>4, <1>5, <1>8

LEMMA StringUpTo ==
  ASSUME NEW b \in Buffers, NEW i \in 0 .. BufSize, NEW e \in i .. BufSize,
         b[e] = Nul, \A k \in i .. e - 1 : b[k] # Nul
  PROVE  StringEnd(b, i) = e
<1> DEFINE P(j) == /\ b[j] = Nul \/ j = BufSize
                   /\ \A k \in i .. j - 1 : b[k] # Nul
           end == CHOOSE j \in i .. BufSize : P(j)
<1>1. BufSize \in Nat /\ i \in Nat /\ e \in Nat
  BY LineReaderAssumption
<1>2. P(e)
  OBVIOUS
<1>3. end \in i .. BufSize /\ P(end)
  <2> HIDE DEF P
  <2> QED
    BY <1>2
<1>4. end = e
  <2> HIDE DEF end
  <2>1. end \in Nat
    BY <1>1, <1>3
  <2>2. ~(end < e)
    <3> SUFFICES ASSUME end < e PROVE FALSE
      OBVIOUS
    <3>1. end \in i .. e - 1 /\ end # BufSize
      BY <1>1, <1>3, <2>1
    <3> QED
      BY <1>3, <3>1
  <2>3. ~(e < end)
    <3> SUFFICES ASSUME e < end PROVE FALSE
      OBVIOUS
    <3>1. e \in i .. end - 1
      BY <1>1, <1>3, <2>1
    <3> QED
      BY <1>3, <3>1
  <2> QED
    BY <1>1, <2>1, <2>2, <2>3
<1> QED
  BY <1>4 DEF StringEnd

(* strtok_r changes nothing behind the string.                              *)
LEMMA CutKeeps ==
  ASSUME NEW b \in Buffers, NEW i \in 0 .. BufSize
  PROVE  /\ Cut(b, i) \in Buffers
         /\ \A k \in 0 .. BufSize : k >= StringEnd(b, i) \/ b[k] = "newline" => Cut(b, i)[k] = b[k]
         /\ \A k \in 0 .. BufSize : Cut(b, i)[k] = "newline" => b[k] = "newline"
<1> DEFINE inword == {j \in i + 1 .. StringEnd(b, i) - 1 :
                        /\ b[j] = "blank"
                        /\ \E k \in i .. j - 1 : b[k] = "letter"}
           c == CHOOSE j \in inword : \A k \in inword : j <= k
<1>1. BufSize \in Nat /\ i \in Nat /\ StringEnd(b, i) \in i .. BufSize
  BY LineReaderAssumption, StringType
<1>2. CASE inword = {}
  BY <1>2 DEF Cut
<1>3. CASE inword # {}
  <2>1. inword \subseteq Nat
    BY <1>1
  <2>2. \E j \in inword : \A k \in inword : j <= k
    <3> HIDE DEF inword
    <3> QED
      BY <1>3, <2>1, Least
  <2>3. c \in inword
    <3> HIDE DEF inword
    <3> QED
      BY <2>2
  <2>4. Cut(b, i) = [b EXCEPT ![c] = Nul]
    BY <1>3 DEF Cut
  <2>5. c \in 0 .. BufSize /\ c < StringEnd(b, i) /\ b[c] = "blank"
    BY <1>1, <2>3
  <2> HIDE DEF c, inword
  <2> QED
    BY <1>1, <2>4, <2>5 DEF Buffers, Nul
<1> QED
  BY <1>2, <1>3

LEMMA LineStartIs ==
  ASSUME bufpos \in Nat, NEW i \in Nat, bufpos <= i
  PROVE  /\ LineStart(i) \in bufpos .. i
         /\ LineStart(i) = i \/ buffer[LineStart(i)] # "blank"
         /\ \A k \in bufpos .. LineStart(i) - 1 : buffer[k] = "blank"
<1> DEFINE P(j) == /\ j = i \/ buffer[j] # "blank"
                   /\ \A k \in bufpos .. j - 1 : buffer[k] = "blank"
           S == {j \in bufpos .. i : j = i \/ buffer[j] # "blank"}
<1>1. PICK m \in S : \A k \in S : m <= k
  <2>1. S \subseteq Nat /\ i \in S
    OBVIOUS
  <2> HIDE DEF S
  <2> QED
    BY <2>1, Least
<1>2. m \in bufpos .. i /\ P(m)
  <2>1. ASSUME NEW k \in bufpos .. m - 1 PROVE buffer[k] = "blank"
    <3>1. k \in bufpos .. i /\ ~(m <= k)
      BY <1>1
    <3> QED
      BY <1>1, <3>1
  <2> QED
    BY <1>1, <2>1
<1>3. (CHOOSE j \in bufpos .. i : P(j)) \in bufpos .. i /\ P(CHOOSE j \in bufpos .. i : P(j))
  <2> HIDE DEF P
  <2> QED
    BY <1>2
<1> QED
  BY <1>3 DEF LineStart

-----------------------------------------------------------------------------
(***************************************************************************)
(* Types and bounds.  They are inductive: a refill leaves as much as was    *)
(* not taken, and reads no more than there is room for behind it.           *)
(***************************************************************************)
LEMMA ReaderTypes ==
  ASSUME ReaderTypeOK
  PROVE  /\ file \in Seq(Bytes) /\ Len(file) \in Nat /\ DOMAIN file = 1 .. Len(file)
         /\ \A k \in 1 .. Len(file) : file[k] \in Bytes
         /\ BufSize \in Nat /\ BufSize > 0
         /\ offset \in Nat /\ offset <= Len(file)
         /\ bufpos \in Nat /\ buffre \in Nat /\ bufpos <= buffre /\ buffre <= BufSize
         /\ Used \in Nat /\ Used <= BufSize /\ bufpos + Used = buffre
         /\ Room \in Nat /\ offset + Room <= Len(file) /\ Used + Room <= BufSize
         /\ buffer \in Buffers
<1>1. file \in Seq(Bytes)
  BY LineReaderAssumption DEF ReaderTypeOK
<1>2. Len(file) \in Nat /\ DOMAIN file = 1 .. Len(file) /\ \A k \in 1 .. Len(file) : file[k] \in Bytes
  BY <1>1, LenProperties, ElementOfSeq
<1>3. /\ BufSize \in Nat /\ BufSize > 0
      /\ offset \in Nat /\ offset <= Len(file)
      /\ bufpos \in Nat /\ buffre \in Nat /\ bufpos <= buffre /\ buffre <= BufSize
  <2>1. offset \in 0 .. Len(file) /\ bufpos \in 0 .. buffre /\ buffre \in 0 .. BufSize
    BY DEF ReaderTypeOK
  <2>2. BufSize \in Nat /\ BufSize > 0
    BY LineReaderAssumption
  <2> QED
    BY <1>2, <2>1, <2>2
<1>4. Used \in Nat /\ Used <= BufSize /\ bufpos + Used = buffre
  BY <1>3 DEF Used
<1>5. Room \in Nat /\ offset + Room <= Len(file) /\ Used + Room <= BufSize
  BY <1>2, <1>3, <1>4 DEF Room
<1> QED
  BY <1>1, <1>2, <1>3, <1>4, <1>5 DEF ReaderTypeOK, Buffers

(* The line that is taken, by the newline that ends it.                     *)
LEMMA TakenLine ==
  ASSUME ReaderTypeOK, TakeLine
  PROVE  \E i \in bufpos .. buffre - 1, s \in bufpos .. buffre - 1, b \in Buffers :
           /\ NewlineAt(i)
           /\ s = LineStart(i) /\ s <= i
           /\ b = [buffer EXCEPT ![i] = Nul]
           /\ lines' = Append(lines, String(b, s))
           /\ buffer' = Cut(b, s)
           /\ bufpos' = i + 1
           /\ buffre' = buffre
<1>1. PICK i \in bufpos .. buffre - 1 :
        /\ NewlineAt(i)
        /\ lines' = Append(lines, String([buffer EXCEPT ![i] = Nul], LineStart(i)))
        /\ buffer' = Cut([buffer EXCEPT ![i] = Nul], LineStart(i))
        /\ bufpos' = i + 1
        /\ buffre' = buffre
  BY DEF TakeLine
<1>2. PICK b : b = [buffer EXCEPT ![i] = Nul]
  OBVIOUS
<1>3. PICK s : s = LineStart(i)
  OBVIOUS
<1>4. b \in Buffers
  BY <1>2, ReaderTypes DEF Buffers
<1>5. bufpos \in Nat /\ i \in Nat /\ bufpos <= i /\ buffre \in Nat
  BY <1>1, ReaderTypes
<1>6. s \in bufpos .. i
  BY <1>3, <1>5, LineStartIs
<1>7. s \in bufpos .. buffre - 1 /\ s <= i
  BY <1>5, <1>6
<1> QED
  BY <1>1, <1>2, <1>3, <1>4, <1>7

LEMMA TakeType ==
  ASSUME ReaderTypeOK, TakeLine
  PROVE  /\ buffer' \in Buffers
         /\ bufpos' \in 0 .. buffre' /\ buffre' \in 0 .. BufSize
         /\ lines' \in Seq(Seq(Bytes \cup {Garbage}))
<1>1. PICK i \in bufpos .. buffre - 1, s \in bufpos .. buffre - 1, b \in Buffers :
           /\ lines' = Append(lines, String(b, s))
           /\ buffer' = Cut(b, s)
           /\ bufpos' = i + 1
           /\ buffre' = buffre
  BY TakenLine
<1>2. s \in 0 .. BufSize /\ i + 1 \in 0 .. buffre /\ buffre \in 0 .. BufSize
  BY ReaderTypes
<1>3. String(b, s) \in Seq(Bytes \cup {Garbage})
  BY <1>2, StringType
<1>4. lines \in Seq(Seq(Bytes \cup {Garbage}))
  BY DEF ReaderTypeOK
<1>5. lines' \in Seq(Seq(Bytes \cup {Garbage}))
  BY <1>1, <1>3, <1>4, AppendTo
<1> QED
  BY <1>1, <1>2, <1>5, CutKeeps

LEMMA MovedType ==
  ASSUME ReaderTypeOK
  PROVE  Moved \in Buffers
<1>1. \A i \in 0 .. BufSize : i < Used => bufpos + i \in 0 .. BufSize
  BY ReaderTypes
<1>2. \A i \in 0 .. BufSize : (IF i < Used THEN buffer[bufpos + i] ELSE buffer[i]) \in Bytes \cup {Nul, Garbage}
  BY <1>1, ReaderTypes DEF Buffers
<1> QED
  BY <1>2 DEF Moved, Buffers

LEMMA ReaderTypeInit == ReaderInit => ReaderTypeOK
<1> SUFFICES ASSUME ReaderInit PROVE ReaderTypeOK
  OBVIOUS
<1>1. file \in Seq(Bytes) /\ Len(file) \in Nat /\ BufSize \in Nat
  BY LineReaderAssumption, LenProperties DEF ReaderInit
<1>2. lines \in Seq(Seq(Bytes \cup {Garbage}))
  BY DEF ReaderInit
<1> QED
  BY <1>1, <1>2 DEF ReaderInit, ReaderTypeOK

LEMMA ReaderTypeStep == ReaderTypeOK /\ [ReaderNext]_readerVars => ReaderTypeOK'
<1> SUFFICES ASSUME ReaderTypeOK, [ReaderNext]_readerVars PROVE ReaderTypeOK'
  OBVIOUS
<1>1. ASSUME /\ UNCHANGED file
             /\ offset' \in 0 .. Len(file)
             /\ buffer' \in Buffers
             /\ bufpos' \in 0 .. buffre' /\ buffre' \in 0 .. BufSize
             /\ lines' \in Seq(Seq(Bytes \cup {Garbage}))
             /\ step' \in {"line", "refill", "again", "end"}
             /\ status' \in {"ok", "too long", "end of file", "error"}
      PROVE  ReaderTypeOK'
  BY <1>1 DEF ReaderTypeOK, Buffers
<1> DEFINE S == Seq(Seq(Bytes \cup {Garbage}))
<1>2. /\ offset \in 0 .. Len(file) /\ buffer \in Buffers
      /\ bufpos \in 0 .. buffre /\ buffre \in 0 .. BufSize
      /\ lines \in S
      /\ step \in {"line", "refill", "again", "end"}
      /\ status \in {"ok", "too long", "end of file", "error"}
  BY DEF ReaderTypeOK, Buffers
<1>3. CASE GetOneLine
  <2>1. CASE TakeLine
    BY <1>1, <1>2, <1>3, <2>1, TakeType DEF GetOneLine
  <2>2. CASE ~TakeLine
    BY <1>1, <1>2, <1>3, <2>2 DEF GetOneLine
  <2> QED
    BY <2>1, <2>2
<1>4. CASE Refill
  <2>1. \A i \in 0 .. BufSize : (IF i < Used THEN Moved[i]
                                 ELSE IF i < Used + Room THEN file[offset + i - Used + 1]
                                 ELSE IF i = Used + Room THEN Nul ELSE Moved[i]) \in Bytes \cup {Nul, Garbage}
    <3> SUFFICES ASSUME NEW i \in 0 .. BufSize
                 PROVE  (IF i < Used THEN Moved[i]
                         ELSE IF i < Used + Room THEN file[offset + i - Used + 1]
                         ELSE IF i = Used + Room THEN Nul ELSE Moved[i]) \in Bytes \cup {Nul, Garbage}
      OBVIOUS
    <3>1. Moved[i] \in Bytes \cup {Nul, Garbage}
      BY MovedType DEF Buffers
    <3>2. ~(i < Used) /\ i < Used + Room => offset + i - Used + 1 \in 1 .. Len(file)
      BY ReaderTypes
    <3>3. ~(i < Used) /\ i < Used + Room => file[offset + i - Used + 1] \in Bytes
      BY <3>2, ReaderTypes
    <3> QED
      BY <3>1, <3>3
  <2>2. buffer' \in Buffers
    BY <1>4, <2>1 DEF Refill, Buffers
  <2>3. offset + Room \in 0 .. Len(file) /\ Used + Room \in 0 .. BufSize /\ 0 \in 0 .. Used + Room
    BY ReaderTypes
  <2> QED
    BY <1>1, <1>2, <1>4, <2>2, <2>3 DEF Refill
<1>5. CASE GetAgain
  <2>1. CASE TakeLine
    BY <1>1, <1>2, <1>5, <2>1, TakeType DEF GetAgain
  <2>2. CASE ~TakeLine
    BY <1>1, <1>2, <1>5, <2>2 DEF GetAgain
  <2> QED
    BY <2>1, <2>2
<1>6. CASE LeftOver
  <2>1. 0 \in 0 .. BufSize /\ Used \in 0 .. BufSize /\ 0 \in 0 .. Used
    BY ReaderTypes
  <2>2. String(Moved, 0) \in Seq(Bytes \cup {Garbage}) /\ Cut(Moved, 0) \in Buffers
    BY <2>1, MovedType, StringType, CutKeeps
  <2>3. Append(lines, String(Moved, 0)) \in S
    BY <1>2, <2>2, AppendTo
  <2> QED
    BY <1>1, <1>2, <1>6, <2>1, <2>2, <2>3 DEF LeftOver
<1>7. CASE EndOfFile
  <2>1. 0 \in 0 .. BufSize /\ 0 \in 0 .. 0
    BY ReaderTypes
  <2>2. buffer' \in Buffers /\ bufpos' \in 0 .. buffre' /\ buffre' \in 0 .. BufSize
    BY <1>2, <1>7, <2>1 DEF EndOfFile
  <2>3. UNCHANGED <<file, offset, lines>> /\ step' = "end" /\ status' = "end of file"
    BY <1>7 DEF EndOfFile
  <2> QED
    BY <1>1, <1>2, <2>2, <2>3
<1>8. CASE ReadFails
  <2>1. Used \in 0 .. BufSize /\ 0 \in 0 .. Used
    BY ReaderTypes
  <2>2. buffer' \in Buffers /\ bufpos' \in 0 .. buffre' /\ buffre' \in 0 .. BufSize
    BY <1>8, <2>1, MovedType DEF ReadFails
  <2>3. UNCHANGED <<file, offset, lines>> /\ step' = "end" /\ status' = "error"
    BY <1>8 DEF ReadFails
  <2> QED
    BY <1>1, <1>2, <2>2, <2>3
<1>9. CASE UNCHANGED readerVars
  BY <1>1, <1>2, <1>9 DEF readerVars
<1> QED
  BY <1>3, <1>4, <1>5, <1>6, <1>7, <1>8, <1>9 DEF ReaderNext

(* Nothing is read or written outside the buffer.                           *)
THEOREM ReaderTypeCorrect == ReaderSpec => []ReaderTypeOK
  BY ReaderTypeInit, ReaderTypeStep, PTL DEF ReaderSpec

-----------------------------------------------------------------------------
(***************************************************************************)
(* Regular lines.  As long as the lines are regular, the reader is at the   *)
(* start of the line that comes after those handed over, and the buffer     *)
(* holds the bytes of the file from there on.  From a line on that is not   *)
(* regular it may hand over whatever it likes.                              *)
(***************************************************************************)
Synced ==
  /\ AtStart(file, offset - Used, Len(lines))
  /\ \A k \in 0 .. Used - 1 : buffer[bufpos + k] = file[offset - Used + k + 1]
  /\ \A n \in 1 .. Len(lines) : lines[n] = Trimmed(file, n)
  /\ step = "refill" => NoNewline
  /\ step = "again" => Used = BufSize \/ offset = Len(file)
  /\ step = "end" => status = "error"

Lost ==
  \E n \in 0 .. Len(lines) :
    /\ \A m \in 1 .. n : lines[m] = Trimmed(file, m)
    /\ n = HowManyLines(file) \/ ~Regular(file, n + 1)

LinesInv == ReaderTypeOK /\ (Synced \/ Lost)

(* The bytes of the buffer, by their indices.                               *)
LEMMA InBuffer ==
  ASSUME ReaderTypeOK, Synced, NEW p, p = offset - Used
  PROVE  /\ p \in Nat /\ p + Used = offset
         /\ \A j \in bufpos .. buffre - 1 :
              /\ j - bufpos + p + 1 \in p + 1 .. offset
              /\ j - bufpos + p + 1 \in 1 .. Len(file)
              /\ j \in 0 .. BufSize
              /\ buffer[j] = file[j - bufpos + p + 1]
         /\ \A k \in p + 1 .. offset : /\ k - p - 1 + bufpos \in bufpos .. buffre - 1
                                       /\ file[k] = buffer[k - p - 1 + bufpos]
<1>1. /\ offset \in Nat /\ Used \in Nat /\ offset <= Len(file) /\ Len(file) \in Nat
      /\ bufpos \in Nat /\ buffre \in Nat /\ bufpos + Used = buffre /\ buffre <= BufSize
      /\ BufSize \in Nat
  BY ReaderTypes
<1>2. p \in 0 .. Len(file)
  BY DEF Synced, AtStart
<1>3. p \in Nat /\ p + Used = offset
  BY <1>1, <1>2
<1>4. ASSUME NEW k \in 0 .. Used - 1
      PROVE  buffer[bufpos + k] = file[p + k + 1]
  BY DEF Synced
<1>5. ASSUME NEW j \in bufpos .. buffre - 1
      PROVE  /\ j - bufpos + p + 1 \in p + 1 .. offset
             /\ j - bufpos + p + 1 \in 1 .. Len(file)
             /\ j \in 0 .. BufSize
             /\ buffer[j] = file[j - bufpos + p + 1]
  <2>1. j - bufpos \in 0 .. Used - 1 /\ bufpos + (j - bufpos) = j
    BY <1>1
  <2>2. p + (j - bufpos) + 1 = j - bufpos + p + 1
    BY <1>1, <1>3
  <2>3. buffer[j] = file[j - bufpos + p + 1]
    BY <1>4, <2>1, <2>2
  <2> QED
    BY <1>1, <1>3, <2>3
<1>6. ASSUME NEW k \in p + 1 .. offset
      PROVE  /\ k - p - 1 + bufpos \in bufpos .. buffre - 1
             /\ file[k] = buffer[k - p - 1 + bufpos]
  <2>1. k - p - 1 \in 0 .. Used - 1 /\ p + (k - p - 1) + 1 = k /\ bufpos + (k - p - 1) = k - p - 1 + bufpos
    BY <1>1, <1>3
  <2>2. k - p - 1 + bufpos \in bufpos .. buffre - 1
    BY <1>1, <2>1
  <2> QED
    BY <1>4, <2>1, <2>2
<1> QED
  BY <1>3, <1>5, <1>6

(* A string that is a part of the file.                                     *)
LEMMA StringIs ==
  ASSUME NEW b \in Buffers, NEW s \in 0 .. BufSize, NEW i \in s .. BufSize,
         StringEnd(b, s) = i,
         NEW f \in Seq(Bytes), NEW m \in 1 .. Len(f), NEW e \in 1 .. Len(f), e - m = i - s,
         \A j \in s .. i - 1 : b[j] = f[j - s + m]
  PROVE  String(b, s) = SubSeq(f, m, e - 1)
<1>1. s \in Nat /\ i \in Nat /\ m \in Nat /\ e \in Nat /\ Len(f) \in Nat /\ DOMAIN f = 1 .. Len(f)
  BY LineReaderAssumption, LenProperties
<1>2. PICK t : t = SubSeq(f, m, e - 1)
  OBVIOUS
<1>3. \A k \in m .. e - 1 : f[k] \in Bytes
  BY <1>1, ElementOfSeq
<1>4. /\ t \in Seq(Bytes) /\ Len(t) = IF m <= e - 1 THEN e - 1 - m + 1 ELSE 0
      /\ \A k \in 1 .. e - 1 - m + 1 : t[k] = f[m + k - 1]
  BY <1>1, <1>2, <1>3, SubSeqProperties
<1>5. Len(t) = i - s /\ \A k \in 1 .. i - s : t[k] = f[m + k - 1]
  <2>1. e - 1 - m + 1 = i - s /\ (m <= e - 1 <=> i - s # 0) /\ i - s \in Nat
    BY <1>1
  <2> QED
    BY <1>4, <2>1
<1>6. t = [k \in 1 .. i - s |-> t[k]]
  BY <1>4, <1>5, LenProperties
<1>7. \A k \in 1 .. i - s : b[s + k - 1] = t[k]
  <2> SUFFICES ASSUME NEW k \in 1 .. i - s PROVE b[s + k - 1] = t[k]
    OBVIOUS
  <2>1. s + k - 1 \in s .. i - 1 /\ (s + k - 1) - s + m = m + k - 1
    BY <1>1
  <2> QED
    BY <1>5, <2>1
<1>8. String(b, s) = [k \in 1 .. i - s |-> b[s + k - 1]]
  BY DEF String
<1> QED
  BY <1>2, <1>6, <1>7, <1>8

(* A line that is taken is the next one of the file.                        *)
LEMMA TakeSynced ==
  ASSUME ReaderTypeOK, Synced, TakeLine, UNCHANGED <<file, offset>>, step' = "line"
  PROVE  Synced'
<1>1. PICK i \in bufpos .. buffre - 1, s \in bufpos .. buffre - 1, b \in Buffers :
        /\ NewlineAt(i)
        /\ s = LineStart(i) /\ s <= i
        /\ b = [buffer EXCEPT ![i] = Nul]
        /\ lines' = Append(lines, String(b, s))
        /\ buffer' = Cut(b, s)
        /\ bufpos' = i + 1
        /\ buffre' = buffre
  BY TakenLine
<1>2. PICK p : p = offset - Used
  OBVIOUS
<1>3. PICK n : n = Len(lines)
  OBVIOUS
<1>4. PICK e, m : e = i - bufpos + p + 1 /\ m = s - bufpos + p + 1
  OBVIOUS
<1>5. /\ file \in Seq(Bytes) /\ Len(file) \in Nat /\ DOMAIN file = 1 .. Len(file)
      /\ \A k \in 1 .. Len(file) : file[k] \in Bytes
      /\ offset \in Nat /\ Used \in Nat /\ bufpos \in Nat /\ buffre \in Nat /\ bufpos + Used = buffre
      /\ BufSize \in Nat /\ buffre <= BufSize
      /\ buffer \in Buffers
  BY ReaderTypes
<1>6. /\ p \in Nat /\ p + Used = offset
      /\ \A j \in bufpos .. buffre - 1 :
              /\ j - bufpos + p + 1 \in p + 1 .. offset
              /\ j - bufpos + p + 1 \in 1 .. Len(file)
              /\ j \in 0 .. BufSize
              /\ buffer[j] = file[j - bufpos + p + 1]
      /\ \A k \in p + 1 .. offset : /\ k - p - 1 + bufpos \in bufpos .. buffre - 1
                                    /\ file[k] = buffer[k - p - 1 + bufpos]
  BY <1>2, InBuffer
<1>7. i \in Nat /\ s \in Nat /\ e \in 1 .. Len(file) /\ m \in 1 .. Len(file) /\ p < e /\ m \in p + 1 .. e
  <2>1. /\ i - bufpos + p + 1 \in p + 1 .. offset /\ i - bufpos + p + 1 \in 1 .. Len(file)
        /\ s - bufpos + p + 1 \in p + 1 .. offset /\ s - bufpos + p + 1 \in 1 .. Len(file)
    BY <1>6
  <2>2. i \in Nat /\ s \in Nat /\ s <= i
    BY <1>1, <1>5
  <2> QED
    BY <1>4, <1>5, <1>6, <2>1, <2>2
<1>21. e = i - bufpos + p + 1 /\ m = s - bufpos + p + 1 /\ s <= i /\ i < buffre /\ bufpos <= s
  BY <1>1, <1>4, <1>5
<1>8. buffer[i] = "newline" /\ \A k \in bufpos .. i - 1 : buffer[k] # "newline"
  BY <1>1 DEF NewlineAt
<1>9. e \in Newlines(file) /\ \A k \in p + 1 .. e - 1 : file[k] # "newline"
  <2>1. file[e] = "newline"
    BY <1>1, <1>4, <1>6, <1>8
  <2>2. ASSUME NEW k \in p + 1 .. e - 1 PROVE file[k] # "newline"
    <3>1. k \in p + 1 .. offset
      BY <1>1, <1>4, <1>5, <1>6, <1>7
    <3>2. k - p - 1 + bufpos \in bufpos .. i - 1
      BY <1>1, <1>4, <1>5, <1>6, <1>7
    <3> QED
      BY <1>6, <1>8, <3>1, <3>2
  <2> QED
    BY <1>5, <1>7, <2>1, <2>2 DEF Newlines
<1>10. AtStart(file, p, n)
  BY <1>2, <1>3 DEF Synced
<1>11. /\ AtStart(file, e, n + 1)
       /\ EndOfLine(file, n + 1) = e /\ BeginOfLine(file, n + 1) = p + 1
  BY <1>5, <1>7, <1>9, <1>10, NextLine
<1>12. /\ s = i \/ buffer[s] # "blank"
       /\ \A k \in bufpos .. s - 1 : buffer[k] = "blank"
  BY <1>1, <1>5, <1>7, LineStartIs
<1>22. p \in Nat /\ s \in Nat /\ bufpos \in Nat /\ e \in Nat /\ m \in Nat /\ m \in p + 1 .. e
  BY <1>5, <1>6, <1>7
<1>13. Trimmed(file, n + 1) = SubSeq(file, m, e - 1)
  <2>1. file[m] # "blank"
    <3>1. file[m] = buffer[s]
      BY <1>1, <1>4, <1>6
    <3> QED
      BY <1>8, <1>12, <3>1
  <2>2. ASSUME NEW k \in p + 1 .. m - 1 PROVE file[k] = "blank"
    <3>1. k \in p + 1 .. offset
      <4>1. m \in p + 1 .. offset /\ offset \in Nat
        <5>1. m = s - bufpos + p + 1 /\ s \in bufpos .. buffre - 1
          BY <1>1, <1>4
        <5> QED
          BY <1>5, <1>6, <5>1
      <4> QED
        BY <1>22, <4>1
    <3>2. k - p - 1 + bufpos \in bufpos .. s - 1
      BY <1>21, <1>22
    <3> QED
      BY <1>6, <1>12, <3>1, <3>2
  <2>3. p + 1 \in Nat /\ e \in Nat /\ m \in p + 1 .. e
    BY <1>22
  <2> QED
    BY <1>5, <1>11, <2>1, <2>2, <2>3, TrimmedIs
<1>14. s \in 0 .. BufSize /\ i \in s .. BufSize /\ e - m = i - s
  <2>1. i \in Nat /\ s \in Nat /\ BufSize \in Nat /\ buffre \in Nat /\ bufpos \in Nat /\ p \in Nat
    BY <1>5, <1>6, <1>7
  <2>2. buffre <= BufSize /\ s <= i /\ i < buffre
    BY <1>5, <1>21
  <2>3. s \in 0 .. BufSize /\ i \in s .. BufSize
    BY <2>1, <2>2
  <2>4. e = i - bufpos + p + 1 /\ m = s - bufpos + p + 1
    BY <1>21
  <2>5. e - m = i - s
    BY <2>1, <2>4
  <2> QED
    BY <2>3, <2>5
<1>15. \A j \in s .. i - 1 : b[j] = file[j - s + m] /\ b[j] \in Bytes
  <2> SUFFICES ASSUME NEW j \in s .. i - 1 PROVE b[j] = file[j - s + m] /\ b[j] \in Bytes
    OBVIOUS
  <2>1. j \in bufpos .. buffre - 1 /\ j # i /\ j - bufpos + p + 1 = j - s + m
    BY <1>5, <1>6, <1>7, <1>21
  <2>2. b[j] = buffer[j] /\ j - s + m \in 1 .. Len(file)
    BY <1>1, <1>5, <1>6, <2>1 DEF Buffers
  <2> QED
    BY <1>5, <1>6, <2>1, <2>2
<1>16. StringEnd(b, s) = i
  <2>1. b[i] = Nul
    BY <1>1, <1>5, <1>14 DEF Buffers
  <2>2. \A j \in s .. i - 1 : b[j] # Nul
    BY <1>15 DEF Bytes, Nul
  <2> QED
    BY <1>14, <2>1, <2>2, StringUpTo
<1>17. String(b, s) = Trimmed(file, n + 1)
  BY <1>5, <1>7, <1>13, <1>14, <1>15, <1>16, StringIs
<1>18. /\ Len(lines') = n + 1 /\ n \in Nat
       /\ \A k \in 1 .. n + 1 : lines'[k] = Trimmed(file, k)
  <2>1. lines \in Seq(Seq(Bytes \cup {Garbage}))
    BY DEF ReaderTypeOK
  <2>2. String(b, s) \in Seq(Bytes \cup {Garbage})
    BY <1>14, StringType
  <2>3. /\ Len(lines') = n + 1 /\ n \in Nat /\ DOMAIN lines = 1 .. n
        /\ lines'[n + 1] = String(b, s)
        /\ \A k \in 1 .. n : lines'[k] = lines[k]
    BY <1>1, <1>3, <2>1, <2>2, AppendTo, LenProperties
  <2>4. \A k \in 1 .. n : lines[k] = Trimmed(file, k)
    BY <1>3 DEF Synced
  <2>5. \A k \in 1 .. n + 1 : k \in 1 .. n \/ k = n + 1
    BY <2>3
  <2> QED
    BY <1>17, <2>3, <2>4, <2>5
<1>19. Used' = buffre - (i + 1) /\ offset' - Used' = e
  <2>1. Used' = buffre - (i + 1)
    BY <1>1 DEF Used
  <2> QED
    BY <1>1, <1>4, <1>5, <1>6, <1>7, <2>1
<1>20. \A k \in 0 .. Used' - 1 : buffer'[bufpos' + k] = file[e + k + 1]
  <2> SUFFICES ASSUME NEW k \in 0 .. Used' - 1 PROVE buffer'[bufpos' + k] = file[e + k + 1]
    OBVIOUS
  <2>1. PICK x : x = i + 1 + k
    OBVIOUS
  <2>2. x \in bufpos .. buffre - 1 /\ x \in 0 .. BufSize /\ x >= i /\ x # i /\ bufpos' + k = x
    BY <1>1, <1>5, <1>7, <1>19, <2>1
  <2>3. Cut(b, s)[x] = b[x]
    BY <1>14, <1>16, <2>2, CutKeeps
  <2>4. b[x] = buffer[x]
    BY <1>1, <1>5, <2>2 DEF Buffers
  <2>5. x - bufpos + p + 1 = e + k + 1
    BY <1>5, <1>6, <1>7, <1>19, <1>21, <2>1
  <2> QED
    BY <1>1, <1>6, <2>2, <2>3, <2>4, <2>5
<1> QED
  BY <1>11, <1>18, <1>19, <1>20 DEF Synced

(* From the first line on that is not regular nothing is said any more.     *)
LEMMA StaysLost ==
  ASSUME ReaderTypeOK, Lost, UNCHANGED file,
         lines' = lines \/ \E x \in Seq(Bytes \cup {Garbage}) : lines' = Append(lines, x)
  PROVE  Lost'
<1>1. PICK n \in 0 .. Len(lines) :
        /\ \A m \in 1 .. n : lines[m] = Trimmed(file, m)
        /\ n = HowManyLines(file) \/ ~Regular(file, n + 1)
  BY DEF Lost
<1>2. lines \in Seq(Seq(Bytes \cup {Garbage}))
  BY DEF ReaderTypeOK
<1>3. Len(lines) \in Nat /\ DOMAIN lines = 1 .. Len(lines)
  BY <1>2, LenProperties
<1>4. /\ Len(lines') \in {Len(lines), Len(lines) + 1}
      /\ \A m \in 1 .. Len(lines) : lines'[m] = lines[m]
  <2>1. ASSUME lines' = lines
        PROVE  /\ Len(lines') \in {Len(lines), Len(lines) + 1}
               /\ \A m \in 1 .. Len(lines) : lines'[m] = lines[m]
    <3>1. Len(lines') = Len(lines)
      BY <2>1
    <3>2. \A m \in 1 .. Len(lines) : lines'[m] = lines[m]
      BY <2>1
    <3> QED
      BY <3>1, <3>2
  <2>2. ASSUME NEW x \in Seq(Bytes \cup {Garbage}), lines' = Append(lines, x)
        PROVE  /\ Len(lines') \in {Len(lines), Len(lines) + 1}
               /\ \A m \in 1 .. Len(lines) : lines'[m] = lines[m]
    <3>1. /\ Len(Append(lines, x)) = Len(lines) + 1
          /\ \A m \in DOMAIN lines : Append(lines, x)[m] = lines[m]
      BY <1>2, AppendTo
    <3>2. Len(lines') = Len(lines) + 1
      BY <2>2, <3>1
    <3>3. \A m \in 1 .. Len(lines) : lines'[m] = lines[m]
      BY <1>3, <2>2, <3>1
    <3> QED
      BY <3>2, <3>3
  <2>3. ASSUME \E x \in Seq(Bytes \cup {Garbage}) : lines' = Append(lines, x)
        PROVE  /\ Len(lines') \in {Len(lines), Len(lines) + 1}
               /\ \A m \in 1 .. Len(lines) : lines'[m] = lines[m]
    <3>1. PICK x \in Seq(Bytes \cup {Garbage}) : lines' = Append(lines, x)
      BY <2>3
    <3> QED
      BY <2>2, <3>1
  <2> QED
    BY <2>1, <2>3
<1>5. n \in 0 .. Len(lines') /\ \A m \in 1 .. n : m \in 1 .. Len(lines)
  BY <1>3, <1>4
<1>6. \A m \in 1 .. n : lines'[m] = Trimmed(file, m)
  BY <1>1, <1>4, <1>5
<1> QED
  BY <1>1, <1>5, <1>6 DEF Lost

(* No newline in a full buffer, or in all that is left of the file: the     *)
(* next line is not regular, or there is none.                              *)
LEMMA NoLine ==
  ASSUME ReaderTypeOK, Synced, NoNewline, Used = BufSize \/ offset = Len(file)
  PROVE  Lost
<1>1. PICK p : p = offset - Used
  OBVIOUS
<1>2. PICK n : n = Len(lines)
  OBVIOUS
<1>3. /\ p \in Nat /\ p + Used = offset
      /\ \A k \in p + 1 .. offset : /\ k - p - 1 + bufpos \in bufpos .. buffre - 1
                                    /\ file[k] = buffer[k - p - 1 + bufpos]
  BY <1>1, InBuffer
<1>4. \A k \in p + 1 .. offset : file[k] # "newline"
  BY <1>3 DEF NoNewline
<1>5. \A k \in p + 1 .. p + BufSize : k <= Len(file) => file[k] # "newline"
  <2>1. offset \in Nat /\ Len(file) \in Nat /\ BufSize \in Nat /\ Used \in Nat
    BY ReaderTypes
  <2>2. \A k \in p + 1 .. p + BufSize : k <= Len(file) => k \in p + 1 .. offset
    BY <1>3, <2>1
  <2> QED
    BY <1>4, <2>2
<1>6. AtStart(file, p, n) /\ \A m \in 1 .. n : lines[m] = Trimmed(file, m)
  BY <1>1, <1>2 DEF Synced
<1>7. file \in Seq(Bytes)
  BY ReaderTypes
<1>8. n = HowManyLines(file) \/ ~Regular(file, n + 1)
  BY <1>5, <1>6, <1>7, NoRegularLine
<1>9. n \in 0 .. Len(lines)
  <2>1. lines \in Seq(Seq(Bytes \cup {Garbage}))
    BY DEF ReaderTypeOK
  <2> QED
    BY <1>2, <2>1, LenProperties
<1> QED
  BY <1>6, <1>8, <1>9 DEF Lost

(* What is read comes behind what was left.                                 *)
LEMMA RefillSynced ==
  ASSUME ReaderTypeOK, Synced, Refill
  PROVE  Synced'
<1>1. PICK p : p = offset - Used
  OBVIOUS
<1>2. /\ Len(file) \in Nat
      /\ BufSize \in Nat /\ offset \in Nat /\ Used \in Nat /\ Room \in Nat
      /\ bufpos \in Nat /\ buffre \in Nat /\ bufpos + Used = buffre /\ buffre <= BufSize
      /\ Used + Room <= BufSize
  BY ReaderTypes
<1>3. /\ buffer' = [i \in 0 .. BufSize |->
                      IF i < Used THEN Moved[i]
                      ELSE IF i < Used + Room THEN file[offset + i - Used + 1]
                      ELSE IF i = Used + Room THEN Nul ELSE Moved[i]]
      /\ bufpos' = 0 /\ buffre' = Used + Room /\ offset' = offset + Room
      /\ step' = "again"
      /\ UNCHANGED <<file, lines, status>>
  BY DEF Refill
<1>4. p \in Nat /\ p + Used = offset
  BY <1>1, InBuffer
<1>5. Used' = Used + Room /\ offset' - Used' = p
  <2>1. Used' = (Used + Room) - 0
    BY <1>3 DEF Used
  <2>2. p \in Nat /\ Used \in Nat /\ Room \in Nat /\ offset = p + Used /\ offset' = offset + Room
    BY <1>2, <1>3, <1>4
  <2>3. Used' = Used + Room
    BY <2>1, <2>2
  <2>4. offset' = p + Used + Room
    BY <2>2
  <2>5. offset' - Used' = (p + Used + Room) - (Used + Room)
    BY <2>3, <2>4
  <2>6. \A a, b, c \in Nat : (a + b + c) - (b + c) = a
    OBVIOUS
  <2>7. offset' - Used' = p
    BY <2>2, <2>5, <2>6
  <2> QED
    BY <2>3, <2>7
<1>6. AtStart(file, p, Len(lines)) /\ \A n \in 1 .. Len(lines) : lines[n] = Trimmed(file, n)
  BY <1>1 DEF Synced
<1>7. Used' = BufSize \/ offset' = Len(file')
  BY <1>2, <1>3, <1>5 DEF Room
<1>8. ASSUME NEW k \in 0 .. Used' - 1
      PROVE  buffer'[bufpos' + k] = file[p + k + 1]
  <2>1. k \in 0 .. BufSize /\ k \in Nat /\ bufpos' + k = k /\ k < Used + Room
    BY <1>2, <1>3, <1>5
  <2>2. CASE k < Used
    <3>1. buffer'[k] = buffer[bufpos + k]
      BY <1>3, <2>1, <2>2 DEF Moved
    <3>2. k \in 0 .. Used - 1
      BY <1>2, <2>1, <2>2
    <3> QED
      BY <1>1, <2>1, <3>1, <3>2 DEF Synced
  <2>3. CASE ~(k < Used)
    <3>1. buffer'[k] = file[offset + k - Used + 1]
      BY <1>3, <2>1, <2>3
    <3>2. offset + k - Used + 1 = p + k + 1
      BY <1>2, <1>4, <2>1
    <3> QED
      BY <2>1, <3>1, <3>2
  <2> QED
    BY <2>2, <2>3
<1> QED
  BY <1>3, <1>5, <1>6, <1>7, <1>8 DEF Synced

LEMMA LinesInit == ReaderInit => LinesInv
<1> SUFFICES ASSUME ReaderInit PROVE LinesInv
  OBVIOUS
<1>1. ReaderTypeOK
  BY ReaderTypeInit
<1>2. offset = 0 /\ Used = 0 /\ Len(lines) = 0 /\ step = "line"
  BY DEF ReaderInit, Used
<1>3. AtStart(file, 0, 0)
  <2>1. file \in Seq(Bytes) /\ Len(file) \in Nat
    BY <1>1, ReaderTypes
  <2>2. Newlines(file) \subseteq 1 .. Len(file)
    BY <2>1, NewlinesFinite
  <2>3. NewlinesUpTo(file, 0) = {}
    BY <2>1, <2>2 DEF NewlinesUpTo
  <2>4. Cardinality(NewlinesUpTo(file, 0)) = 0
    BY <2>3, FS_EmptySet
  <2>5. 0 \in 0 .. Len(file)
    BY <2>1
  <2> QED
    BY <2>4, <2>5 DEF AtStart
<1> QED
  BY <1>1, <1>2, <1>3 DEF LinesInv, Synced

LEMMA LinesStep == LinesInv /\ [ReaderNext]_readerVars => LinesInv'
<1> SUFFICES ASSUME LinesInv, [ReaderNext]_readerVars PROVE LinesInv'
  OBVIOUS
<1>1. ReaderTypeOK /\ ReaderTypeOK'
  BY ReaderTypeStep DEF LinesInv
<1>2. UNCHANGED file
  BY DEF ReaderNext, GetOneLine, Refill, GetAgain, LeftOver, EndOfFile, ReadFails, readerVars
<1>3. lines' = lines \/ \E x \in Seq(Bytes \cup {Garbage}) : lines' = Append(lines, x)
  <2>1. CASE TakeLine
    <3>1. PICK s \in bufpos .. buffre - 1, b \in Buffers : lines' = Append(lines, String(b, s))
      BY <1>1, <2>1, TakenLine
    <3>2. s \in 0 .. BufSize
      BY <1>1, ReaderTypes
    <3> QED
      BY <3>1, <3>2, StringType
  <2>2. CASE LeftOver
    <3>1. 0 \in 0 .. BufSize
      BY <1>1, ReaderTypes
    <3>2. String(Moved, 0) \in Seq(Bytes \cup {Garbage})
      BY <1>1, <3>1, MovedType, StringType
    <3> QED
      BY <2>2, <3>2 DEF LeftOver
  <2> QED
    BY <2>1, <2>2 DEF ReaderNext, GetOneLine, Refill, GetAgain, EndOfFile, ReadFails, readerVars
<1>4. CASE Lost
  BY <1>1, <1>2, <1>3, <1>4, StaysLost DEF LinesInv
<1>5. CASE Synced
  <2>1. CASE GetOneLine
    <3>1. CASE TakeLine /\ UNCHANGED step
      BY <1>1, <1>5, <2>1, <3>1, TakeSynced DEF GetOneLine, LinesInv
    <3>2. CASE NoNewline /\ step' = "refill" /\ UNCHANGED <<lines, buffer, bufpos, buffre>>
      <4>1. UNCHANGED <<file, offset, lines, buffer, bufpos, buffre>> /\ step' = "refill"
        BY <2>1, <3>2 DEF GetOneLine
      <4>2. NoNewline' /\ Used' = Used
        BY <3>2, <4>1 DEF NoNewline, Used
      <4> QED
        BY <1>1, <1>5, <4>1, <4>2 DEF LinesInv, Synced
    <3> QED
      BY <2>1, <3>1, <3>2 DEF GetOneLine
  <2>2. CASE Refill
    BY <1>1, <1>5, <2>2, RefillSynced DEF LinesInv
  <2>3. CASE GetAgain
    <3>1. CASE TakeLine /\ step' = "line"
      BY <1>1, <1>5, <2>3, <3>1, TakeSynced DEF GetAgain, LinesInv
    <3>2. CASE NoNewline
      <4>1. Used = BufSize \/ offset = Len(file)
        BY <1>5, <2>3 DEF GetAgain, Synced
      <4>2. Lost
        BY <1>1, <1>5, <3>2, <4>1, NoLine
      <4> QED
        BY <1>1, <1>2, <1>3, <4>2, StaysLost DEF LinesInv
    <3> QED
      BY <2>3, <3>1, <3>2 DEF GetAgain
  <2>4. CASE LeftOver \/ EndOfFile
    <3>1. step = "refill" /\ Room = 0
      BY <2>4 DEF LeftOver, EndOfFile
    <3>2. Used = BufSize \/ offset = Len(file)
      <4>1. /\ Len(file) \in Nat /\ BufSize \in Nat /\ offset \in Nat /\ Used \in Nat
            /\ offset <= Len(file) /\ Used <= BufSize
        BY <1>1, ReaderTypes
      <4> QED
        BY <3>1, <4>1 DEF Room
    <3>3. Lost
      BY <1>1, <1>5, <3>1, <3>2, NoLine DEF Synced
    <3> QED
      BY <1>1, <1>2, <1>3, <3>3, StaysLost DEF LinesInv
  <2>5. CASE ReadFails
    <3>1. /\ UNCHANGED <<file, offset, lines>> /\ step' = "end" /\ status' = "error"
          /\ buffer' = Moved /\ bufpos' = 0 /\ buffre' = Used
      BY <2>5 DEF ReadFails
    <3>2. Used \in Nat /\ Used <= BufSize /\ BufSize \in Nat
      BY <1>1, ReaderTypes
    <3>3. Used' = Used
      <4>1. Used' = Used - 0
        BY <3>1 DEF Used
      <4> QED
        BY <3>2, <4>1
    <3>4. ASSUME NEW k \in 0 .. Used - 1
          PROVE  buffer'[bufpos' + k] = file[offset - Used + k + 1]
      <4>1. k \in 0 .. BufSize /\ k < Used /\ bufpos' + k = k
        BY <3>1, <3>2
      <4>2. buffer'[k] = buffer[bufpos + k]
        BY <3>1, <4>1 DEF Moved
      <4> QED
        BY <1>5, <4>1, <4>2 DEF Synced
    <3> QED
      BY <1>1, <1>5, <3>1, <3>3, <3>4 DEF LinesInv, Synced
  <2>6. CASE UNCHANGED readerVars
    <3>1. UNCHANGED <<file, offset, buffer, bufpos, buffre, lines, step, status>>
      BY <2>6 DEF readerVars
    <3>2. Used' = Used /\ (NoNewline' <=> NoNewline)
      BY <3>1 DEF Used, NoNewline
    <3> QED
      BY <1>1, <1>5, <3>1, <3>2 DEF LinesInv, Synced
  <2> QED
    BY <2>1, <2>2, <2>3, <2>4, <2>5, <2>6 DEF ReaderNext
<1> QED
  BY <1>4, <1>5 DEF LinesInv

(* Every regular line of any file is handed over as it is in the file, once *)
(* and in its place, wherever the end of the buffer cuts it, and none is    *)
(* missing when the reader stops by itself.                                 *)
THEOREM ReaderLinesRead == ReaderSpec => []RegularLinesRead
<1>1. LinesInv => RegularLinesRead
  <2> SUFFICES ASSUME LinesInv, NEW n \in 1 .. HowManyLines(file), Regular(file, n)
               PROVE  /\ n <= Len(lines) => lines[n] = Trimmed(file, n)
                      /\ step = "end" /\ status # "error" => n <= Len(lines)
    BY DEF RegularLinesRead
  <2>1. ReaderTypeOK /\ Len(lines) \in Nat /\ HowManyLines(file) \in Nat
    <3>1. lines \in Seq(Seq(Bytes \cup {Garbage})) /\ file \in Seq(Bytes)
      BY ReaderTypes DEF LinesInv, ReaderTypeOK
    <3> QED
      BY <3>1, LenProperties, NewlinesFinite DEF LinesInv
  <2>2. CASE Synced
    <3>1. n <= Len(lines) => n \in 1 .. Len(lines)
      BY <2>1
    <3> QED
      BY <2>2, <3>1 DEF Synced
  <2>3. CASE Lost
    <3>1. PICK l \in 0 .. Len(lines) :
            /\ \A m \in 1 .. l : lines[m] = Trimmed(file, m)
            /\ l = HowManyLines(file) \/ ~Regular(file, l + 1)
      BY <2>3 DEF Lost
    <3>2. n <= l
      <4> SUFFICES ASSUME ~(n <= l) PROVE FALSE
        OBVIOUS
      <4>1. l # HowManyLines(file)
        BY <2>1, <3>1
      <4>2. \A m \in 1 .. l + 1 : m \in 1 .. n
        BY <2>1, <3>1
      <4> QED
        BY <3>1, <4>1, <4>2 DEF Regular
    <3>3. n \in 1 .. l /\ n <= Len(lines)
      BY <2>1, <3>1, <3>2
    <3> QED
      BY <3>1, <3>3
  <2> QED
    BY <2>2, <2>3 DEF LinesInv
<1>2. ReaderSpec => []LinesInv
  BY LinesInit, LinesStep, PTL DEF ReaderSpec
<1> QED
  BY <1>1, <1>2, PTL
=============================================================================
