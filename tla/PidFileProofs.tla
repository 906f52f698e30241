---------------------------- MODULE PidFileProofs ----------------------------
(***************************************************************************)
(* What is proved about PidFile, for every set of pids, however many        *)
(* daemons are started, and whether the configured file is main's or not.   *)
(***************************************************************************)
EXTENDS PidFile, TLAPS

(* Two names never lead to one inode.                                       *)
Distinct == \A f, g \in Files : f # g /\ name[f] = name[g] => name[f] = 0

(* A daemon that the file of main names has opened no older one, reads its  *)
(* own pid there, or cannot read it, and never makes that file anew.        *)
ReadsItself(q) ==
  File(q) = Default /\ Named(Default) = q =>
    /\ step[q] = "scan" => fd[q] = name[Default]
    /\ step[q] = "check" => seen[q] \in {q, NoPid}
NeverRemakes(q) ==
  step[q] \in {"unlink", "open"} /\ File(q) = Default => Named(Default) # q

(* Nothing is in an inode before it is made.                                *)
Unmade == \A i \in Inodes : i > inodes => content[i] = Nobody

Inv ==
  /\ TypeOK
  /\ Distinct
  /\ Unmade
  /\ \A q \in Pids : ReadsItself(q) /\ NeverRemakes(q)

-----------------------------------------------------------------------------
(* Types.                                                                   *)
LEMMA TypeInit == Init => TypeOK
BY PidFileAssumption DEF Init, TypeOK, Files, Inodes, Gone

(* Who may be in served and in stranger when p does a step.                 *)
LEMMA Memberships ==
  ASSUME TypeOK, NEW p \in Pids, NEW st, step' = [step EXCEPT ![p] = st],
         stranger' = stranger, p \in stranger => st \in Gone,
         \/ st \notin Gone /\ served' \subseteq served \cup {p}
         \/ served' \subseteq served \ {p}
  PROVE  /\ stranger' \subseteq {q \in Pids : step'[q] \in Gone}
         /\ served' \subseteq {q \in Pids : step'[q] \notin Gone}
<1>1. \A q \in Pids : step'[q] = IF q = p THEN st ELSE step[q]
  BY DEF TypeOK
<1>2. \A q \in stranger' : q \in Pids /\ step'[q] \in Gone
  BY <1>1 DEF TypeOK
<1>3. \A q \in served' : q \in Pids /\ step'[q] \notin Gone
  BY <1>1 DEF TypeOK
<1> QED
  BY <1>2, <1>3

(* Who has a file open when p does a step.                                  *)
LEMMA Opened ==
  ASSUME TypeOK, NEW p \in Pids, NEW st \in {"scan", "write"}, step' = [step EXCEPT ![p] = st],
         NEW i, fd' = [fd EXCEPT ![p] = i], i # 0
  PROVE  \A r \in Pids : step'[r] \in {"scan", "write"} <=> fd'[r] # 0
BY DEF TypeOK

LEMMA Closed ==
  ASSUME TypeOK, NEW p \in Pids, NEW st, step' = [step EXCEPT ![p] = st],
         fd' = [fd EXCEPT ![p] = 0], st \notin {"scan", "write"}
  PROVE  \A r \in Pids : step'[r] \in {"scan", "write"} <=> fd'[r] # 0
BY DEF TypeOK

LEMMA StillClosed ==
  ASSUME TypeOK, NEW p \in Pids, NEW st, step' = [step EXCEPT ![p] = st], fd' = fd,
         st \notin {"scan", "write"}, step[p] \notin {"scan", "write"}
  PROVE  \A r \in Pids : step'[r] \in {"scan", "write"} <=> fd'[r] # 0
BY DEF TypeOK

(* The actions that read a file.                                            *)
LEMMA TypeReading ==
  ASSUME TypeOK, NEW p \in Pids, OpenToRead(p) \/ Scan(p) \/ CannotRead(p)
  PROVE  TypeOK'
<1>1. File(p) \in Files /\ name[File(p)] \in 0 .. inodes /\ 0 \in 0 .. inodes
  BY PidFileAssumption DEF TypeOK, File, Files
<1>2. PICK st \in {"scan", "check"} : step' = [step EXCEPT ![p] = st]
  BY DEF OpenToRead, Scan, CannotRead, Goto
<1>3. step[p] \notin Gone /\ p \notin stranger /\ step' \in [Pids -> Gone \cup {"read", "scan", "check", "unlink", "open", "write", "up"}]
  BY <1>2 DEF TypeOK, OpenToRead, Scan, CannotRead, Gone
<1>4. /\ stranger' \subseteq {q \in Pids : step'[q] \in Gone}
      /\ served' \subseteq {q \in Pids : step'[q] \notin Gone}
  BY <1>2, <1>3, Memberships DEF OpenToRead, Scan, CannotRead, kernel, Gone
<1>5. UNCHANGED <<name, content, inodes, turn, pidfile, starts>> /\ fresh' \in Pids \cup {Nobody}
  BY DEF TypeOK, OpenToRead, Scan, CannotRead, kernel
<1>6. /\ fd' \in [Pids -> 0 .. inodes]
      /\ seen' \in [Pids -> Pids \cup {Nobody, NoPid}]
      /\ \A r \in Pids : step'[r] \in {"scan", "write"} <=> fd'[r] # 0
  <2>1. CASE OpenToRead(p) /\ name[File(p)] = 0
    <3>1. step' = [step EXCEPT ![p] = "check"] /\ fd' = fd /\ step[p] = "read"
      BY <2>1 DEF OpenToRead, Goto
    <3> QED
      BY <2>1, <3>1, StillClosed DEF TypeOK, OpenToRead
  <2>2. CASE OpenToRead(p) /\ name[File(p)] # 0
    <3>1. step' = [step EXCEPT ![p] = "scan"] /\ fd' = [fd EXCEPT ![p] = name[File(p)]] /\ seen' = seen
      BY <2>2 DEF OpenToRead, Goto
    <3>2. \A r \in Pids : step'[r] \in {"scan", "write"} <=> fd'[r] # 0
      BY <2>2, <3>1, Opened
    <3> QED
      BY <1>1, <3>1, <3>2 DEF TypeOK
  <2>3. CASE Scan(p)
    <3>1. step' = [step EXCEPT ![p] = "check"] /\ fd' = [fd EXCEPT ![p] = 0]
      BY <2>3 DEF Scan, Goto
    <3>2. \A r \in Pids : step'[r] \in {"scan", "write"} <=> fd'[r] # 0
      BY ONLY <3>1, TypeOK, Closed
    <3>3. content[fd[p]] \in Pids \cup {Nobody, Junk}
      BY <2>3, PidFileAssumption DEF TypeOK, Scan, Inodes
    <3>4. seen' \in [Pids -> Pids \cup {Nobody, NoPid}]
      BY <2>3, <3>3 DEF TypeOK, Scan
    <3> QED
      BY <1>1, <3>1, <3>2, <3>4 DEF TypeOK
  <2>4. CASE CannotRead(p)
    <3>1. step' = [step EXCEPT ![p] = "check"] /\ fd' = fd /\ step[p] = "read"
      BY <2>4 DEF CannotRead, Goto
    <3> QED
      BY <2>4, <3>1, StillClosed DEF TypeOK, CannotRead
  <2> QED
    BY <2>1, <2>2, <2>3, <2>4
<1> QED
  BY <1>3, <1>4, <1>5, <1>6 DEF TypeOK

(* The actions that leave the files alone.                                  *)
LEMMA TypeQuiet ==
  ASSUME TypeOK, NEW p \in Pids,
         Start(p) \/ Reload(p) \/ Check(p) \/ Ends(p) \/ Stranger(p)
  PROVE  TypeOK'
<1>2. ASSUME Start(p) \/ Reload(p) PROVE TypeOK'
  <2>1. Begin(p) /\ p \notin stranger /\ fresh' \in Pids \cup {Nobody}
    BY <1>2 DEF TypeOK, Start, Reload, Alive, Gone
  <2>2. /\ stranger' \subseteq {q \in Pids : step'[q] \in Gone}
        /\ served' \subseteq {q \in Pids : step'[q] \notin Gone}
    BY <2>1, Memberships DEF Begin, Goto, kernel, Gone
  <2>3. /\ step' = [step EXCEPT ![p] = "read"] /\ fd' = fd
        /\ step[p] \in Gone \cup {"up"}
    BY <1>2, <2>1 DEF Start, Reload, Begin, Goto, Alive, TypeOK
  <2>4. \A r \in Pids : step'[r] \in {"scan", "write"} <=> fd'[r] # 0
    <3>1. step[p] \notin {"scan", "write"}
      BY <2>3 DEF Gone
    <3> QED
      BY <2>3, <3>1 DEF TypeOK
  <2> QED
    BY <2>1, <2>2, <2>4, PidFileAssumption DEF TypeOK, Begin, Goto, kernel, Gone, Files, Inodes
<1>5. CASE Check(p)
  <2>1. PICK st \in {"refused", "unlink", "read", "up"} :
          /\ step' = [step EXCEPT ![p] = st]
          /\ \/ st # "refused" /\ served' \subseteq served \cup {p}
             \/ served' \subseteq served \ {p}
          /\ turn' \in [Pids -> {1, 2}]
    BY <1>5 DEF TypeOK, Check, Passed, Goto
  <2>2. p \notin stranger
    BY <1>5 DEF TypeOK, Check, Gone
  <2>3. /\ stranger' \subseteq {q \in Pids : step'[q] \in Gone}
        /\ served' \subseteq {q \in Pids : step'[q] \notin Gone}
    BY <1>5, <2>1, <2>2, Memberships DEF Check, kernel, Gone
  <2>4. \A r \in Pids : step'[r] \in {"scan", "write"} <=> fd'[r] # 0
    <3>1. fd' = fd /\ step[p] = "check"
      BY <1>5 DEF Check
    <3> QED
      BY <2>1, <3>1, StillClosed
  <2> QED
    BY <1>5, <2>1, <2>3, <2>4 DEF TypeOK, Check, kernel, Gone, Files, Inodes
<1>6. CASE Ends(p)
  <2>1. \A r \in Pids : step'[r] \in {"scan", "write"} <=> fd'[r] # 0
    BY <1>6, Closed DEF Ends, Goto
  <2> QED
    BY <1>6, <2>1 DEF TypeOK, Ends, Goto, kernel, Gone, Files, Inodes
<1>7. CASE Stranger(p)
  BY <1>7 DEF TypeOK, Stranger, Gone, Files, Inodes
<1> QED
  BY <1>2, <1>5, <1>6, <1>7

(* The actions that make a file.                                            *)
LEMMA TypeMaking ==
  ASSUME TypeOK, NEW p \in Pids, Unlink(p) \/ Open(p) \/ Write(p)
  PROVE  TypeOK'
<1>1. File(p) \in Files /\ p \notin stranger
  BY DEF TypeOK, File, Files, Unlink, Open, Write, Gone
<1>2. PICK st \in {"open", "write", "read", "up"} :
        /\ step' = [step EXCEPT ![p] = st]
        /\ served' \subseteq served \cup {p}
        /\ turn' \in [Pids -> {1, 2}]
  BY DEF TypeOK, Unlink, Open, Write, Passed, Goto
<1>3. /\ stranger' \subseteq {q \in Pids : step'[q] \in Gone}
      /\ served' \subseteq {q \in Pids : step'[q] \notin Gone}
  BY <1>1, <1>2, Memberships DEF Unlink, Open, Write, Gone
<1>4. /\ step' \in [Pids -> Gone \cup {"read", "scan", "check", "unlink", "open", "write", "up"}]
      /\ pidfile' \in [Pids -> Files]
      /\ UNCHANGED <<stranger, seen, fresh, starts>>
  BY <1>1, <1>2 DEF TypeOK, Unlink, Open, Write
<1>6. \A r \in Pids : step'[r] \in {"scan", "write"} <=> fd'[r] # 0
  <2>1. CASE Unlink(p)
    BY <2>1, StillClosed DEF Unlink, Goto
  <2>2. CASE Open(p)
    <3>1. PICK i : fd' = [fd EXCEPT ![p] = i] /\ i # 0
      BY <1>1, <2>2, PidFileAssumption DEF TypeOK, Open
    <3> QED
      BY <2>2, <3>1, Opened, "write" \in {"scan", "write"} DEF Open, Goto
  <2>3. CASE Write(p)
    <3>1. PICK to \in {"read", "up"} : step' = [step EXCEPT ![p] = to]
      BY <2>3 DEF Write, Passed, Goto
    <3> QED
      BY <2>3, <3>1, Closed DEF Write
  <2> QED
    BY <2>1, <2>2, <2>3
<1>5. /\ name' \in [Files -> 0 .. inodes']
      /\ content' \in [Inodes -> Pids \cup {Nobody, Junk}]
      /\ inodes' \in 0 .. MaxInodes
      /\ fd' \in [Pids -> 0 .. inodes']
  <2>1. CASE Unlink(p)
    BY <1>1, <2>1, PidFileAssumption DEF TypeOK, Unlink, Inodes
  <2>2. CASE Open(p) /\ name[File(p)] # 0
    <3>1. name[File(p)] \in 0 .. inodes
      BY <1>1 DEF TypeOK
    <3> QED
      BY <1>1, <2>2, <3>1, PidFileAssumption DEF TypeOK, Open, Inodes
  <2>3. CASE Open(p) /\ name[File(p)] = 0
    <3>1. /\ inodes' = inodes + 1 /\ inodes < MaxInodes
          /\ fd' = [fd EXCEPT ![p] = inodes + 1]
          /\ name' = [name EXCEPT ![File(p)] = inodes + 1]
          /\ UNCHANGED content
      BY <2>3 DEF Open
    <3>2. inodes \in Nat /\ MaxInodes \in Nat
      BY PidFileAssumption DEF TypeOK
    <3>3. inodes + 1 \in 0 .. inodes + 1 /\ \A n \in 0 .. inodes : n \in 0 .. inodes + 1
      BY <3>2
    <3>4. name' \in [Files -> 0 .. inodes + 1] /\ fd' \in [Pids -> 0 .. inodes + 1]
      BY <1>1, <3>1, <3>3 DEF TypeOK
    <3> QED
      BY <3>1, <3>2, <3>4 DEF TypeOK
  <2>4. CASE Write(p)
    <3>1. /\ content' = [content EXCEPT ![fd[p]] = p]
          /\ fd' = [fd EXCEPT ![p] = 0]
          /\ UNCHANGED <<name, inodes>>
      BY <2>4 DEF Write
    <3>2. content' \in [Inodes -> Pids \cup {Nobody, Junk}]
      BY <3>1 DEF TypeOK
    <3>3. 0 \in 0 .. inodes
      BY PidFileAssumption DEF TypeOK
    <3> QED
      BY <3>1, <3>2, <3>3 DEF TypeOK
  <2> QED
    BY <2>1, <2>2, <2>3, <2>4
<1> QED
  BY <1>2, <1>3, <1>4, <1>5, <1>6 DEF TypeOK

LEMMA TypeStep == TypeOK /\ [Next]_vars => TypeOK'
<1> SUFFICES ASSUME TypeOK, [Next]_vars PROVE TypeOK'
  OBVIOUS
<1>1. CASE UNCHANGED vars
  BY <1>1 DEF vars, TypeOK
<1>2. ASSUME NEW p \in Pids, Daemon(p) \/ Stranger(p) PROVE TypeOK'
  BY <1>2, TypeReading, TypeQuiet, TypeMaking DEF Daemon
<1> QED
  BY <1>1, <1>2 DEF Next

(* Every variable has its type, whatever daemons and other processes do     *)
(* with the pids and the files (ind_pidf.c:129-240).                        *)
THEOREM TypeCorrect == Spec => []TypeOK
<1> QED
  BY TypeInit, TypeStep, PTL DEF Spec
-----------------------------------------------------------------------------
(* The invariant.                                                           *)
LEMMA InvInit == Init => Inv
<1> SUFFICES ASSUME Init PROVE Inv
  OBVIOUS
<1>1. TypeOK
  BY TypeInit
<1>2. Distinct
  BY DEF Init, Distinct
<1>3. Unmade
  BY PidFileAssumption DEF Init, Unmade, Inodes
<1>4. \A q \in Pids : step[q] = "off"
  BY DEF Init
<1> QED
  BY <1>1, <1>2, <1>3, <1>4 DEF Inv, ReadsItself, NeverRemakes

(* A step of one daemon changes nothing of what another one remembers.      *)
LEMMA Others ==
  ASSUME TypeOK, NEW p \in Pids, Daemon(p) \/ Stranger(p), NEW r \in Pids, r # p
  PROVE  /\ step'[r] = step[r]
         /\ turn'[r] = turn[r]
         /\ seen'[r] = seen[r]
         /\ fd'[r] = fd[r]
         /\ File(r)' = File(r)
         /\ r \in served' <=> r \in served
<1>1. CASE Start(p) \/ Reload(p)
  BY <1>1 DEF TypeOK, Start, Reload, Begin, Goto, File
<1>2. CASE OpenToRead(p) \/ Scan(p) \/ CannotRead(p)
  BY <1>2 DEF TypeOK, OpenToRead, Scan, CannotRead, Goto, File
<1>3. CASE Check(p)
  BY <1>3 DEF TypeOK, Check, Passed, Goto, File
<1>4. CASE Unlink(p) \/ Open(p)
  BY <1>4 DEF TypeOK, Unlink, Open, Goto, File
<1>5. CASE Write(p)
  BY <1>5 DEF TypeOK, Write, Passed, Goto, File
<1>6. CASE Ends(p) \/ Stranger(p)
  BY <1>6 DEF TypeOK, Ends, Stranger, Goto, File
<1> QED
  BY <1>1, <1>2, <1>3, <1>4, <1>5, <1>6 DEF Daemon

(* Nobody but q writes the pid of q.                                        *)
LEMMA NamedByItself ==
  ASSUME TypeOK, Unmade, NEW p \in Pids, Daemon(p) \/ Stranger(p), NEW q \in Pids,
         Named(Default)' = q, ~(p = q /\ Write(p))
  PROVE  Named(Default) = q /\ name'[Default] = name[Default]
<1>1. q # Nobody /\ Default \in Files /\ File(p) \in Files /\ name[Default] \in 0 .. inodes
  BY PidFileAssumption DEF TypeOK, Files, File
<1>2. CASE UNCHANGED <<name, content>>
  BY <1>2 DEF Named
<1>3. CASE Unlink(p)
  BY <1>1, <1>3 DEF TypeOK, Unlink, Named
<1>4. CASE Open(p) /\ name[File(p)] # 0
  <2>1. name[File(p)] \in Inodes /\ (name[Default] = 0 \/ name[Default] \in Inodes)
    BY <1>1, <1>4, PidFileAssumption DEF TypeOK, Inodes
  <2> QED
    BY <1>1, <1>4, <2>1 DEF TypeOK, Open, Named
<1>5. CASE Open(p) /\ name[File(p)] = 0
  <2>1. inodes + 1 \in Inodes /\ inodes + 1 > inodes /\ inodes + 1 # 0
    BY <1>5, PidFileAssumption DEF TypeOK, Open, Inodes
  <2>2. content[inodes + 1] = Nobody
    BY <2>1 DEF Unmade
  <2> QED
    BY <1>1, <1>5, <2>1, <2>2 DEF TypeOK, Open, Named
<1>6. CASE Write(p)
  <2>1. p # q /\ name' = name /\ content' = [content EXCEPT ![fd[p]] = p]
    BY <1>6 DEF Write
  <2>2. name[Default] = 0 \/ name[Default] \in Inodes
    BY <1>1, PidFileAssumption DEF TypeOK, Inodes
  <2> QED
    BY <1>1, <2>1, <2>2 DEF TypeOK, Named
<1> QED
  BY <1>2, <1>3, <1>4, <1>5, <1>6
     DEF Daemon, Start, Reload, Begin, OpenToRead, Scan, CannotRead, Check, Ends, Stranger, kernel

LEMMA DistinctStep ==
  ASSUME TypeOK, Distinct, Unmade, NEW p \in Pids, Daemon(p) \/ Stranger(p)
  PROVE  Distinct' /\ Unmade'
<1>1. File(p) \in Files /\ \A f \in Files : name[f] \in 0 .. inodes
  BY DEF TypeOK, File, Files
<1>2. inodes \in Nat /\ fd[p] \in 0 .. inodes
  BY PidFileAssumption DEF TypeOK
<1>3. CASE UNCHANGED <<name, content, inodes>>
  BY <1>3 DEF Distinct, Unmade
<1>4. CASE Unlink(p)
  BY <1>1, <1>4 DEF TypeOK, Unlink, Distinct, Unmade
<1>5. CASE Open(p) /\ name[File(p)] # 0
  BY <1>1, <1>5 DEF TypeOK, Open, Distinct, Unmade
<1>6. CASE Open(p) /\ name[File(p)] = 0
  <2>1. /\ inodes' = inodes + 1 /\ content' = content
        /\ \A f \in Files : name'[f] = IF f = File(p) THEN inodes + 1 ELSE name[f]
    BY <1>6 DEF TypeOK, Open
  <2>2. Distinct'
    BY <1>1, <1>2, <2>1 DEF Distinct
  <2>3. Unmade'
    BY <1>2, <2>1 DEF Unmade, Inodes
  <2> QED
    BY <2>2, <2>3
<1>7. CASE Write(p)
  <2>1. name' = name /\ inodes' = inodes /\ content' = [content EXCEPT ![fd[p]] = p]
    BY <1>7 DEF Write
  <2>2. \A i \in Inodes : i > inodes => content'[i] = content[i]
    BY <1>2, <2>1 DEF TypeOK, Inodes
  <2> QED
    BY <2>1, <2>2 DEF Distinct, Unmade
<1> QED
  BY <1>3, <1>4, <1>5, <1>6, <1>7
     DEF Daemon, Start, Reload, Begin, OpenToRead, Scan, CannotRead, Check, Ends, Stranger, kernel

LEMMA ReadingsStep ==
  ASSUME Inv, NEW p \in Pids, Daemon(p) \/ Stranger(p), NEW q \in Pids
  PROVE  ReadsItself(q)' /\ NeverRemakes(q)'
<1>1. TypeOK /\ Unmade /\ ReadsItself(q) /\ NeverRemakes(q)
  BY DEF Inv
<1>2. {q, NoPid} \cap {Nobody, Junk} = {} /\ Default \in Files /\ File(q) \in Files
  BY <1>1, PidFileAssumption DEF Files, File, TypeOK, NoPid, Nobody, Junk
<1>3. CASE q # p
  BY <1>1, <1>3, Others, NamedByItself DEF ReadsItself, NeverRemakes
<1>4. ASSUME q = p, step'[q] \notin {"scan", "check", "unlink", "open"}
      PROVE  ReadsItself(q)' /\ NeverRemakes(q)'
  BY <1>4 DEF ReadsItself, NeverRemakes
<1>5. CASE q = p /\ (Start(p) \/ Reload(p) \/ Open(p) \/ Write(p) \/ Ends(p) \/ Stranger(p))
  <2>1. step'[q] \notin {"scan", "check", "unlink", "open"}
    BY <1>1, <1>5 DEF TypeOK, Start, Reload, Begin, Open, Write, Passed, Ends, Stranger, Goto, Gone
  <2> QED
    BY <1>4, <1>5, <2>1
<1>6. CASE q = p /\ (OpenToRead(p) \/ Scan(p) \/ CannotRead(p))
  <2>1. /\ step'[q] \in {"scan", "check"} /\ File(q)' = File(q)
        /\ Named(Default)' = Named(Default) /\ name'[Default] = name[Default]
    BY <1>1, <1>6 DEF TypeOK, OpenToRead, Scan, CannotRead, Goto, kernel, File, Named
  <2>2. ASSUME File(q) = Default, Named(Default) = q
        PROVE  /\ step'[q] = "scan" => fd'[q] = name'[Default]
               /\ step'[q] = "check" => seen'[q] \in {q, NoPid}
    <3>1. name[Default] # 0
      BY <1>2, <2>2 DEF Named
    <3>2. CASE OpenToRead(p)
      BY <1>1, <1>6, <2>1, <2>2, <3>1, <3>2 DEF TypeOK, OpenToRead, Goto
    <3>3. CASE Scan(p)
      <4>1. content[fd[q]] = q
        BY <1>1, <1>6, <2>2, <3>1, <3>3 DEF ReadsItself, Scan, Named
      <4> QED
        BY <1>1, <1>2, <1>6, <3>3, <4>1 DEF TypeOK, Scan, Goto
    <3>4. CASE CannotRead(p)
      BY <1>1, <1>6, <3>4 DEF TypeOK, CannotRead, Goto
    <3> QED
      BY <1>6, <3>2, <3>3, <3>4
  <2> QED
    BY <2>1, <2>2 DEF ReadsItself, NeverRemakes
<1>7. CASE q = p /\ Check(p)
  <2>1. CASE step'[q] = "unlink"
    <3>1. seen[q] = Nobody /\ File(q)' = File(q) /\ Named(Default)' = Named(Default)
      BY <1>1, <1>7, <2>1 DEF TypeOK, Check, Passed, Goto, kernel, File, Named
    <3> QED
      BY <1>1, <1>2, <1>7, <2>1, <3>1 DEF ReadsItself, NeverRemakes, Check
  <2>2. CASE step'[q] # "unlink"
    <3>1. step'[q] \notin {"scan", "check", "unlink", "open"}
      BY <1>1, <1>7, <2>2 DEF TypeOK, Check, Passed, Goto
    <3> QED
      BY <1>4, <1>7, <3>1
  <2> QED
    BY <2>1, <2>2
<1>8. CASE q = p /\ Unlink(p)
  <2>1. step'[q] = "open" /\ File(q)' = File(q) /\ name' = [name EXCEPT ![File(q)] = 0]
    BY <1>1, <1>8 DEF TypeOK, Unlink, Goto, File
  <2>2. File(q) = Default => Named(Default)' = Nobody
    BY <1>1, <1>2, <2>1 DEF TypeOK, Named
  <2> QED
    BY <1>2, <2>1, <2>2 DEF ReadsItself, NeverRemakes
<1> QED
  BY <1>3, <1>5, <1>6, <1>7, <1>8 DEF Daemon

LEMMA InvStep == Inv /\ [Next]_vars => Inv'
<1> SUFFICES ASSUME Inv, [Next]_vars PROVE Inv'
  OBVIOUS
<1>1. TypeOK'
  BY TypeStep DEF Inv
<1>2. CASE UNCHANGED vars
  BY <1>1, <1>2 DEF vars, Inv, Distinct, Unmade, ReadsItself, NeverRemakes, File, Named
<1>3. ASSUME NEW p \in Pids, Daemon(p) \/ Stranger(p) PROVE Inv'
  BY <1>1, <1>3, DistinctStep, ReadingsStep DEF Inv
<1> QED
  BY <1>2, <1>3 DEF Next

-----------------------------------------------------------------------------
(* A daemon that does nothing stays foreseen while the file stays.          *)
LEMMA StaysForeseen ==
  ASSUME TypeOK, NEW p \in Pids, Daemon(p) \/ Stranger(p), NEW r \in Pids, r # p, NEW q,
         r \notin served, Foreseen(r, q), name'[Default] = name[Default]
  PROVE  r \notin served' /\ Foreseen(r, q)'
<1>1. /\ step'[r] = step[r] /\ turn'[r] = turn[r] /\ seen'[r] = seen[r] /\ fd'[r] = fd[r]
      /\ r \in served' <=> r \in served
  BY Others
<1> QED
  BY <1>1 DEF Foreseen

(* What another daemon can do while q is guarded: start, read, be refused   *)
(* and end.                                                                 *)
LEMMA OthersKeptOut ==
  ASSUME Inv, NEW q \in Pids, Guarded(q), NEW p \in Pids, p # q,
         Daemon(p) \/ Stranger(p), ~CannotRead(p)
  PROVE  Guarded(q)'
<1>1. TypeOK /\ q # Nobody /\ q # Junk
  BY PidFileAssumption DEF Inv
<1>2. /\ q \in served /\ Named(Default) = q /\ p \notin served
      /\ Foreseen(p, q)
  BY DEF Guarded
<1>3. q \in served' /\ name[Default] # 0
  BY <1>1, <1>2, Others DEF Named
<1>4. ASSUME UNCHANGED <<name, content>>, p \notin served', Foreseen(p, q)'
      PROVE  Guarded(q)'
  <2>1. Named(Default)' = q
    BY <1>2, <1>4 DEF Named
  <2>2. \A r \in Pids \ {q} : r \notin served' /\ Foreseen(r, q)'
    <3> SUFFICES ASSUME NEW r \in Pids \ {q}, r # p
                 PROVE  r \notin served' /\ Foreseen(r, q)'
      BY <1>4
    <3>1. r \notin served /\ Foreseen(r, q)
      BY DEF Guarded
    <3> QED
      BY <1>1, <1>4, <3>1, StaysForeseen
  <2> QED
    BY <1>3, <2>1, <2>2 DEF Guarded
<1>5. ASSUME step[p] \notin Gone
      PROVE  File(p) = Default
  BY <1>2, <1>5 DEF Foreseen, File
<1>6. CASE Start(p)
  <2>1. step'[p] = "read" /\ turn'[p] = 1 /\ UNCHANGED <<name, content, served>>
    BY <1>1, <1>6 DEF TypeOK, Start, Begin, Goto, kernel
  <2> QED
    BY <1>2, <1>4, <2>1 DEF Foreseen
<1>7. CASE OpenToRead(p)
  <2>1. /\ step'[p] = "scan" /\ turn'[p] = turn[p] /\ fd'[p] = name[Default]
        /\ UNCHANGED <<name, content, served>>
    BY <1>1, <1>3, <1>5, <1>7 DEF TypeOK, OpenToRead, Goto, kernel, Gone
  <2>2. turn[p] = 1
    BY <1>2, <1>7 DEF Foreseen, OpenToRead, Gone
  <2> QED
    BY <1>2, <1>4, <2>1, <2>2 DEF Foreseen
<1>8. CASE Scan(p)
  <2>1. turn[p] = 1 /\ content[fd[p]] = q
    BY <1>2, <1>3, <1>8 DEF Foreseen, Scan, Gone, Named
  <2>2. /\ step'[p] = "check" /\ turn'[p] = turn[p] /\ seen'[p] = q
        /\ UNCHANGED <<name, content, served>>
    BY <1>1, <1>8, <2>1 DEF TypeOK, Scan, Goto, kernel
  <2> QED
    BY <1>2, <1>4, <2>1, <2>2 DEF Foreseen
<1>9. CASE Check(p)
  <2>1. q \in Alive \ {p} /\ seen[p] = q
    BY <1>2, <1>9 DEF Alive, Inv, TypeOK, Foreseen, Check, Gone
  <2>2. step'[p] = "refused" /\ p \notin served'
    BY <1>1, <1>2, <1>9, <2>1 DEF TypeOK, Check, Goto, Gone
  <2> QED
    BY <1>4, <1>9, <2>2 DEF Check, kernel, Gone, Foreseen
<1>10. CASE Ends(p)
  <2>1. step'[p] = "off" /\ p \notin served' /\ UNCHANGED <<name, content>>
    BY <1>1, <1>2, <1>10 DEF TypeOK, Ends, Goto, kernel
  <2> QED
    BY <1>4, <2>1 DEF Foreseen, Gone
<1>11. CASE Stranger(p)
  BY <1>2, <1>4, <1>11 DEF Stranger, Foreseen
<1>12. ~Reload(p) /\ ~Unlink(p) /\ ~Open(p) /\ ~Write(p)
  BY <1>2 DEF Reload, Unlink, Open, Write, Gone, Foreseen
<1> QED
  BY <1>6, <1>7, <1>8, <1>9, <1>10, <1>11, <1>12 DEF Daemon

(* What q itself can do: reload, and pass both checks, unless the second    *)
(* one is of another file.                                                  *)
LEMMA ItselfLetIn ==
  ASSUME Inv, NEW q \in Pids, Guarded(q), Daemon(q) \/ Stranger(q)
  PROVE  \/ Guarded(q)'
         \/ step'[q] = "off"
         \/ step'[q] = "refused" /\ Configured # Default
<1>1. /\ TypeOK /\ Distinct /\ ReadsItself(q) /\ NeverRemakes(q)
      /\ q \notin {Nobody, NoPid, Junk}
      /\ Default \in Files /\ File(q) \in Files
  BY PidFileAssumption DEF Inv, TypeOK, Files, File
<1>2. q \in served /\ Named(Default) = q /\ step[q] \notin Gone
  BY <1>1 DEF Guarded, TypeOK
<1>3. ASSUME q \in served', Named(Default)' = q PROVE Guarded(q)'
  <2>1. name'[Default] = name[Default]
    <3>1. CASE Write(q)
      BY <3>1 DEF Write
    <3>2. CASE ~Write(q)
      BY <1>3, <3>2, NamedByItself DEF Inv
    <3> QED
      BY <3>1, <3>2
  <2>2. \A r \in Pids \ {q} : r \notin served' /\ Foreseen(r, q)'
    BY <1>1, <2>1, StaysForeseen DEF Guarded
  <2> QED
    BY <1>3, <2>2 DEF Guarded
<1>4. name[Default] # 0 /\ content[name[Default]] = q /\ name[Default] \in Inodes
  BY <1>1, <1>2, PidFileAssumption DEF TypeOK, Named, Inodes
<1>5. CASE Reload(q) \/ OpenToRead(q) \/ Scan(q) \/ CannotRead(q)
  BY <1>2, <1>3, <1>5 DEF Reload, Begin, OpenToRead, Scan, CannotRead, kernel, Named
<1>6. CASE Check(q)
  <2>1. Named(Default)' = q
    BY <1>2, <1>6 DEF Check, kernel, Named
  <2>2. CASE seen[q] \in Alive \ {q}
    <3>1. seen[q] \notin {q, NoPid}
      BY <2>2, PidFileAssumption DEF Alive, Inv, TypeOK
    <3>2. File(q) # Default
      BY <1>1, <1>2, <1>6, <3>1 DEF ReadsItself, Check
    <3>3. step'[q] = "refused" /\ Configured # Default
      BY <1>1, <1>6, <2>2, <3>2, PidFileAssumption DEF TypeOK, Check, Passed, Goto, Files, Alive
    <3> QED
      BY <3>3
  <2>3. CASE seen[q] \notin Alive \ {q}
    BY <1>2, <1>3, <1>6, <2>1, <2>3 DEF Check, Passed
  <2> QED
    BY <2>2, <2>3
<1>7. CASE Unlink(q)
  <2>1. File(q) # Default
    BY <1>1, <1>2, <1>7 DEF NeverRemakes, Unlink
  <2> QED
    BY <1>1, <1>2, <1>3, <1>7, <2>1 DEF TypeOK, Unlink, Named
<1>8. CASE Open(q)
  <2>1. File(q) # Default
    BY <1>1, <1>2, <1>8 DEF NeverRemakes, Open
  <2>2. name[File(q)] # name[Default]
    BY <1>1, <1>4, <2>1 DEF Distinct
  <2>3. Named(Default)' = q /\ served' = served
    BY <1>1, <1>4, <1>8, <2>1, <2>2 DEF TypeOK, Open, Named
  <2> QED
    BY <1>2, <1>3, <2>3
<1>9. CASE Write(q)
  <2>1. Named(Default)' = q
    BY <1>1, <1>4, <1>9 DEF TypeOK, Write, Named
  <2> QED
    BY <1>2, <1>3, <1>9, <2>1 DEF Write, Passed
<1>10. CASE Ends(q)
  BY <1>1, <1>10 DEF TypeOK, Ends, Goto
<1>11. ~Start(q) /\ ~Stranger(q)
  BY <1>2 DEF Start, Stranger, Alive
<1> QED
  BY <1>5, <1>6, <1>7, <1>8, <1>9, <1>10, <1>11 DEF Daemon

LEMMA GuardedStep ==
  ASSUME Inv, [Next]_vars, NEW q \in Pids, Guarded(q)
  PROVE  \/ Guarded(q)'
         \/ step'[q] = "off"
         \/ step'[q] = "refused" /\ Configured # Default
         \/ \E p \in Pids \ {q} : CannotRead(p)
<1>1. CASE UNCHANGED vars
  BY <1>1 DEF vars, Guarded, Named, Foreseen
<1>2. CASE \E p \in Pids \ {q} : Daemon(p) \/ Stranger(p)
  BY <1>2, OthersKeptOut
<1>3. CASE Daemon(q) \/ Stranger(q)
  BY <1>3, ItselfLetIn
<1> QED
  BY <1>1, <1>2, <1>3 DEF Next

(* Once a daemon runs alone and is named in main's pid file, and none that  *)
(* starts has opened an older file or read another pid, it stays so until   *)
(* it ends, is refused by another file of its own configuration, or another *)
(* daemon cannot open the file (ind_pidf.c:136-188, ind_main.c:489-507,     *)
(* ind_engi.c:57-75).                                                       *)
THEOREM GuardedForEver == Spec => StaysGuarded
<1>1. Spec => []Inv
  BY InvInit, InvStep, PTL DEF Spec
<1>2. Inv /\ [Next]_vars =>
        [\A q \in Pids : Guarded(q) =>
           \/ Guarded(q)'
           \/ step'[q] = "off"
           \/ step'[q] = "refused" /\ Configured # Default
           \/ \E p \in Pids \ {q} : CannotRead(p)]_vars
  BY GuardedStep
<1> QED
  BY <1>1, <1>2, PTL DEF Spec, StaysGuarded
-----------------------------------------------------------------------------
(* A daemon that starts alone, with no file: it is alone until it gets to   *)
(* its loop, and passes through these stages.                               *)
Stage(q) ==
  \/ turn[q] = 1 /\ step[q] = "read" /\ name[Default] = 0
  \/ turn[q] = 1 /\ step[q] = "check" /\ seen[q] = Nobody
  \/ turn[q] = 1 /\ step[q] \in {"unlink", "open"}
  \/ turn[q] = 1 /\ step[q] = "write" /\ fd[q] = name[Default] /\ fd[q] # 0
  \/ turn[q] = 2 /\ step[q] = "read" /\ pidfile[q] = Default /\ Named(Default) = q
  \/ turn[q] = 2 /\ step[q] = "scan" /\ fd[q] = name[Default] /\ Named(Default) = q
  \/ turn[q] = 2 /\ step[q] = "check" /\ seen[q] = q /\ Named(Default) = q

Starting(q) == fresh = q /\ q \notin served /\ step[q] \notin Gone
Alone(q) == \A p \in Pids \ {q} : step[p] \in Gone

FreshInv == TypeOK /\ \A q \in Pids : Starting(q) => Alone(q) /\ Stage(q)

LEMMA FreshInit == Init => FreshInv
<1> SUFFICES ASSUME Init PROVE FreshInv
  OBVIOUS
<1>1. \A q \in Pids : step[q] = "off"
  BY DEF Init
<1> QED
  BY <1>1, TypeInit DEF FreshInv, Starting, Gone

(* What happens to a daemon that is starting, by its own steps.             *)
LEMMA StageStep ==
  ASSUME FreshInv, NEW q \in Pids, Starting(q), Daemon(q) \/ Stranger(q), Starting(q)'
  PROVE  Stage(q)'
<1>1. /\ TypeOK /\ Stage(q) /\ step[q] \notin Gone /\ q \notin {Nobody, NoPid, Junk}
      /\ Default \in Files /\ 0 \notin Inodes /\ fresh' = q /\ q \notin served'
  BY PidFileAssumption DEF FreshInv, Starting, Files, Inodes
<1>2. CASE OpenToRead(q)
  <2>1. turn'[q] = turn[q] /\ name'[Default] = name[Default] /\ Named(Default)' = Named(Default)
    BY <1>1, <1>2 DEF OpenToRead, kernel, Named
  <2>2. CASE turn[q] = 1
    <3>1. name[File(q)] = 0
      BY <1>1, <1>2, <2>2 DEF Stage, File, OpenToRead
    <3>2. step'[q] = "check" /\ seen'[q] = Nobody
      BY <1>1, <1>2, <3>1 DEF TypeOK, OpenToRead, Goto
    <3> QED
      BY <2>1, <2>2, <3>2 DEF Stage
  <2>3. CASE turn[q] = 2
    <3>1. File(q) = Default /\ Named(Default) = q /\ name[Default] # 0
      BY <1>1, <1>2, <2>3 DEF Stage, File, OpenToRead, Named
    <3>2. step'[q] = "scan" /\ fd'[q] = name[Default]
      BY <1>1, <1>2, <3>1 DEF TypeOK, OpenToRead, Goto
    <3> QED
      BY <2>1, <2>3, <3>1, <3>2 DEF Stage
  <2> QED
    BY <1>1, <2>2, <2>3 DEF TypeOK
<1>9. CASE Scan(q)
  <2>1. /\ turn[q] = 2 /\ fd[q] = name[Default] /\ Named(Default) = q
        /\ turn'[q] = turn[q] /\ Named(Default)' = Named(Default)
    BY <1>1, <1>9 DEF Stage, Scan, kernel, Named
  <2>2. content[fd[q]] = q
    BY <1>1, <2>1 DEF Named
  <2>3. step'[q] = "check" /\ seen'[q] = q
    BY <1>1, <1>9, <2>2 DEF TypeOK, Scan, Goto
  <2> QED
    BY <2>1, <2>3 DEF Stage
<1>3. CASE Check(q)
  <2>1. CASE turn[q] = 1
    <3>1. seen[q] = Nobody
      BY <1>1, <1>3, <2>1 DEF Stage, Check
    <3>2. seen[q] \notin Alive
      BY <3>1, PidFileAssumption DEF Alive, FreshInv, TypeOK
    <3>3. step'[q] = "unlink" /\ turn'[q] = 1
      BY <1>1, <1>3, <2>1, <3>1, <3>2 DEF TypeOK, Check, Goto
    <3> QED
      BY <3>3 DEF Stage
  <2>2. CASE turn[q] = 2
    <3>1. seen[q] = q
      BY <1>1, <1>3, <2>2 DEF Stage, Check
    <3>2. q \in served'
      BY <1>1, <1>3, <2>2, <3>1 DEF Check, Passed
    <3> QED
      BY <1>1, <3>2
  <2> QED
    BY <1>1, <2>1, <2>2 DEF TypeOK
<1>4. CASE Unlink(q)
  BY <1>1, <1>4 DEF TypeOK, Unlink, Goto, Stage
<1>5. CASE Open(q)
  <2>1. turn[q] = 1 /\ File(q) = Default
    BY <1>1, <1>5 DEF Stage, Open, File
  <2>2. step'[q] = "write" /\ turn'[q] = 1
    BY <1>1, <1>5, <2>1 DEF TypeOK, Open, Goto
  <2>3. fd'[q] = name'[Default] /\ fd'[q] # 0
    BY <1>1, <1>5, <2>1, PidFileAssumption DEF TypeOK, Open
  <2> QED
    BY <2>2, <2>3 DEF Stage
<1>6. CASE Write(q)
  <2>1. turn[q] = 1 /\ fd[q] = name[Default] /\ fd[q] # 0 /\ fd[q] \in Inodes
    BY <1>1, <1>6, PidFileAssumption DEF TypeOK, Stage, Write, Inodes
  <2>2. Named(Default)' = q
    BY <1>1, <1>6, <2>1 DEF TypeOK, Write, Named
  <2>3. step'[q] = "read" /\ turn'[q] = 2 /\ pidfile'[q] = Default
    BY <1>1, <1>6, <2>1 DEF TypeOK, Write, Passed, Goto, File
  <2> QED
    BY <2>2, <2>3 DEF Stage
<1>7. ~Start(q) /\ ~Reload(q) /\ ~Stranger(q)
  BY <1>1 DEF Start, Alive, Reload, Stage, Stranger
<1>8. ~CannotRead(q) /\ ~Ends(q)
  <2>1. CannotRead(q) => fresh' = Nobody
    BY <1>1 DEF CannotRead, Starting
  <2>2. Ends(q) => step'[q] \in Gone
    BY <1>1 DEF TypeOK, Ends, Goto, Gone
  <2> QED
    BY <1>1, <2>1, <2>2 DEF Starting
<1> QED
  BY <1>2, <1>3, <1>4, <1>5, <1>6, <1>7, <1>8, <1>9 DEF Daemon

LEMMA FreshStep == FreshInv /\ [Next]_vars => FreshInv'
<1> SUFFICES ASSUME FreshInv, [Next]_vars PROVE FreshInv'
  OBVIOUS
<1>1. TypeOK /\ TypeOK'
  BY TypeStep DEF FreshInv
<1>2. CASE UNCHANGED vars
  BY <1>1, <1>2 DEF vars, FreshInv, Starting, Alone, Stage, Named
<1>3. ASSUME NEW p \in Pids, Daemon(p) \/ Stranger(p), NEW q \in Pids, Starting(q)'
      PROVE  Alone(q)' /\ Stage(q)'
  <2>1. q # Nobody
    BY PidFileAssumption
  <2>2. CASE Start(p)
    <3>1. CASE name[Default] = 0 /\ (\A r \in Pids : step[r] \in Gone)
      <4>1. fresh' = p /\ p = q
        BY <1>3, <2>2, <3>1 DEF Start, Starting
      <4>2. /\ \A r \in Pids \ {q} : step'[r] = step[r]
            /\ turn'[q] = 1 /\ step'[q] = "read" /\ name'[Default] = 0
        BY <1>1, <2>2, <3>1, <4>1 DEF TypeOK, Start, Begin, Goto, kernel
      <4> QED
        BY <3>1, <4>2 DEF Alone, Stage
    <3>2. CASE ~(name[Default] = 0 /\ (\A r \in Pids : step[r] \in Gone))
      <4>1. fresh' = (IF fresh \in served THEN fresh ELSE Nobody) /\ served' = served
        BY <2>2, <3>2 DEF Start, Begin
      <4>2. fresh' = q /\ q \notin served'
        BY <1>3 DEF Starting
      <4> QED
        BY <2>1, <4>1, <4>2
    <3> QED
      BY <3>1, <3>2
  <2>3. CASE ~Start(p) /\ p = q
    <3>1. fresh' = q => fresh = q
      BY <1>3, <2>1, <2>3
         DEF Daemon, Reload, OpenToRead, Scan, CannotRead, Check, Unlink, Open, Write, Ends, Stranger
    <3>2. q \notin served' /\ step'[q] \notin Gone /\ fresh' = q
      BY <1>3 DEF Starting
    <3>3. step[q] \notin Gone
      BY <1>3, <2>3, <3>2
         DEF Daemon, Reload, OpenToRead, Scan, CannotRead, Check, Unlink, Open, Write, Ends, Stranger, Gone
    <3>4. q \notin served
      BY <1>1, <1>3, <2>3, <3>2
         DEF TypeOK, Daemon, Reload, Begin, OpenToRead, Scan, CannotRead, Check, Passed, Goto, Unlink, Open, Write, Ends, Stranger, Gone
    <3>5. Starting(q)
      BY <3>1, <3>2, <3>3, <3>4 DEF Starting
    <3>6. Stage(q)'
      BY <1>3, <2>3, <3>5, StageStep
    <3>7. \A r \in Pids \ {q} : step[r] \in Gone /\ step'[r] = step[r]
      BY <1>1, <1>3, <2>3, <3>5, Others DEF FreshInv, Alone
    <3> QED
      BY <3>6, <3>7 DEF Alone
  <2>4. CASE ~Start(p) /\ p # q
    <3>1. /\ step'[q] = step[q] /\ turn'[q] = turn[q] /\ seen'[q] = seen[q] /\ fd'[q] = fd[q]
          /\ q \in served' <=> q \in served
      BY <1>1, <1>3, <2>4, Others
    <3>2. fresh' = q => fresh = q
      BY <1>3, <2>1, <2>4
         DEF Daemon, Reload, OpenToRead, Scan, CannotRead, Check, Unlink, Open, Write, Ends, Stranger
    <3>3. Starting(q)
      BY <1>3, <3>1, <3>2 DEF Starting
    <3>4. Alone(q) /\ Stage(q)
      BY <3>3 DEF FreshInv
    <3>5. Stranger(p)
      BY <1>3, <2>4, <3>4
         DEF Alone, Daemon, Reload, OpenToRead, Scan, CannotRead, Check, Unlink, Open, Write, Ends, Gone
    <3> QED
      BY <3>4, <3>5 DEF Stranger, Alone, Stage, Named
  <2> QED
    BY <2>2, <2>3, <2>4
<1> QED
  BY <1>1, <1>2, <1>3 DEF FreshInv, Next

(* A daemon that gets to its loop after a start like this is guarded.       *)
LEMMA FreshServed ==
  ASSUME FreshInv, [Next]_vars, NEW q \in Pids, fresh = q, q \notin served, q \in served'
  PROVE  Guarded(q)'
<1>1. TypeOK /\ q # Nobody
  BY PidFileAssumption DEF FreshInv
<1>2. PICK p \in Pids : Daemon(p) \/ Stranger(p)
  BY DEF Next, vars
<1>3. p = q
  BY <1>1, <1>2, Others
<1>4. Check(q) \/ Write(q)
  BY <1>2, <1>3 DEF Daemon, Start, Reload, Begin, OpenToRead, Scan, CannotRead, Unlink, Open, Ends, Stranger
<1>5. turn[q] # 1 /\ step[q] \notin Gone
  BY <1>4 DEF Check, Write, Passed, Gone
<1>6. Alone(q) /\ Stage(q)
  BY <1>5 DEF FreshInv, Starting
<1>7. Check(q) /\ Named(Default) = q
  BY <1>4, <1>5, <1>6 DEF Stage, Write
<1>8. Named(Default)' = q
  BY <1>7 DEF Check, kernel, Named
<1>9. \A r \in Pids \ {q} : r \notin served /\ step'[r] \in Gone /\ r \notin served'
  BY <1>1, <1>2, <1>3, <1>6, Others DEF Alone, TypeOK
<1> QED
  BY <1>8, <1>9 DEF Guarded, Foreseen

(* A daemon that starts alone, finds no pid file and can open files gets to *)
(* its loop named in that file, and guarded (ind_pidf.c:184-231).           *)
THEOREM FreshGuarded == Spec => FreshStartGuarded
<1>1. Spec => []FreshInv
  BY FreshInit, FreshStep, PTL DEF Spec
<1>2. FreshInv /\ [Next]_vars =>
        [\A q \in Pids : fresh = q /\ q \notin served /\ q \in served' => Guarded(q)']_vars
  BY FreshServed
<1> QED
  BY <1>1, <1>2, PTL DEF Spec, FreshStartGuarded
=============================================================================
