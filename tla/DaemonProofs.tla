----------------------------- MODULE DaemonProofs -----------------------------
(***************************************************************************)
(* What is proved about Daemon, for every number of descriptors and every   *)
(* configuration file.                                                      *)
(***************************************************************************)
EXTENDS Daemon, SequenceLemmas, TLAPS

-----------------------------------------------------------------------------
(***************************************************************************)
(* What the log does to the record of a process.                            *)
(***************************************************************************)
LEMMA DescriptorNumbers == Descriptors \subseteq Nat \ {0} /\ None \notin Descriptors
  BY LoggingAssumption DEF Descriptors, Low, None

LEMMA LowestProperties ==
  ASSUME NEW p, Available(p) # {}
  PROVE  /\ Lowest(p) \in Available(p)
         /\ Lowest(p) \in Descriptors
         /\ p.fds[Lowest(p)] = "free"
         /\ \A m \in Available(p) : Lowest(p) <= m
<1>1. Available(p) \subseteq Nat
  BY DescriptorNumbers DEF Available
<1>2. PICK m \in Available(p) : \A k \in Available(p) : m <= k
  BY <1>1, Least
<1>3. Lowest(p) \in Available(p) /\ \A k \in Available(p) : Lowest(p) <= k
  BY <1>2 DEF Lowest
<1> QED
  BY <1>3 DEF Available

(* A descriptor closed, or opened as something.                             *)
LEMMA SetKind ==
  ASSUME NEW p \in Processes, NEW n \in Descriptors, NEW kind \in Kinds
  PROVE  LET q == [p EXCEPT !.fds[n] = kind] IN
         /\ q \in Processes
         /\ q.fds[n] = kind
         /\ \A m \in Descriptors \ {n} : q.fds[m] = p.fds[m]
         /\ q.file = p.file /\ q.slog = p.slog /\ q.target = p.target /\ q.driver = p.driver
         /\ q.filename = p.filename /\ q.stayopen = p.stayopen /\ q.level = p.level
         /\ q.evt = p.evt /\ q.sig = p.sig
  BY DEF Processes

LEMMA CloseType ==
  ASSUME NEW p \in Processes, NEW n \in Descriptors \cup {None}
  PROVE  LET q == Close(p, n) IN
         /\ q \in Processes
         /\ n # None => q.fds[n] = "free"
         /\ \A m \in Descriptors \ {n} : q.fds[m] = p.fds[m]
         /\ q.file = p.file /\ q.slog = p.slog /\ q.target = p.target /\ q.driver = p.driver
         /\ q.filename = p.filename /\ q.stayopen = p.stayopen /\ q.level = p.level
         /\ q.evt = p.evt /\ q.sig = p.sig
<1>1. CASE n = None
  BY <1>1 DEF Close
<1>2. CASE n # None
  <2>1. n \in Descriptors /\ "free" \in Kinds /\ Close(p, n) = [p EXCEPT !.fds[n] = "free"]
    BY <1>2 DEF Close, Kinds
  <2> QED
    BY <2>1, SetKind
<1> QED
  BY <1>1, <1>2

(* The settings and the descriptors of the loop, which no message changes.  *)
Settings(p) == <<p.driver, p.filename, p.stayopen, p.level, p.evt, p.sig>>

(* The log has its descriptors, and no descriptor is the log's but these.   *)
LogRight(p) ==
  \A n \in Descriptors :
    /\ p.fds[n] = "file" <=> p.file = n
    /\ p.fds[n] = "syslog" <=> p.slog = n

(* What belongs to others stays theirs, and they get nothing more; what is  *)
(* free may become the log's, and back, ...                                 *)
Logs == {"free", "file", "syslog"}
Untouched(p, q) ==
  \A n \in Descriptors : q.fds[n] = p.fds[n] \/ (p.fds[n] \in Logs /\ q.fds[n] \in Logs)

(* ... or the log only closes.                                              *)
Closes(p, q) ==
  \A n \in Descriptors : q.fds[n] = p.fds[n] \/ (p.fds[n] \in Logs /\ q.fds[n] = "free")

LEMMA OpenFile ==
  ASSUME NEW p \in Processes
  PROVE  LET q == DoOpen(p) IN
         /\ q \in Processes
         /\ Settings(q) = Settings(p)
         /\ q.slog = p.slog
         /\ LogRight(p) => LogRight(q) /\ Untouched(p, q)
         /\ p.file = None => \/ q = p
                             \/ /\ q.file \in Descriptors
                                /\ p.fds[q.file] = "free" /\ q.fds[q.file] = "file"
                                /\ \A m \in Descriptors \ {q.file} : q.fds[m] = p.fds[m]
<1> DEFINE n == Lowest(p)
           q == [p EXCEPT !.file = n, !.fds[n] = "file", !.target = p.filename]
<1>1. CASE p.file # None \/ Available(p) = {}
  BY <1>1 DEF DoOpen, Untouched
<1>2. CASE ~(p.file # None \/ Available(p) = {})
  <2>1. DoOpen(p) = q
    BY <1>2 DEF DoOpen
  <2>2. n \in Descriptors /\ p.fds[n] = "free" /\ "file" \in Kinds /\ n # None
    BY <1>2, LowestProperties, DescriptorNumbers DEF Kinds
  <2> HIDE DEF n
  <2>3. /\ q \in Processes
        /\ Settings(q) = Settings(p)
        /\ q.slog = p.slog /\ q.file = n
        /\ q.fds[n] = "file"
        /\ \A m \in Descriptors \ {n} : q.fds[m] = p.fds[m]
    BY <2>2 DEF Processes, Settings
  <2> HIDE DEF q
  <2>4. LogRight(p) => LogRight(q) /\ Untouched(p, q)
    BY <1>2, <2>2, <2>3, DescriptorNumbers DEF LogRight, Untouched, Logs
  <2> QED
    BY <2>1, <2>2, <2>3, <2>4
<1> QED
  BY <1>1, <1>2

LEMMA CloseFile ==
  ASSUME NEW p \in Processes
  PROVE  LET q == FileClose(p) IN
         /\ q \in Processes
         /\ Settings(q) = Settings(p)
         /\ q.slog = p.slog /\ q.file = None
         /\ p.file # None => q.fds[p.file] = "free"
         /\ \A m \in Descriptors \ {p.file} : q.fds[m] = p.fds[m]
         /\ LogRight(p) => LogRight(q) /\ Closes(p, q)
<1> DEFINE r == Close(p, p.file)
           q == [r EXCEPT !.file = None]
<1>1. p.file \in Descriptors \cup {None}
  BY DEF Processes
<1>2. /\ r \in Processes
      /\ p.file # None => r.fds[p.file] = "free"
      /\ \A m \in Descriptors \ {p.file} : r.fds[m] = p.fds[m]
      /\ Settings(r) = Settings(p) /\ r.slog = p.slog
  BY <1>1, CloseType DEF Settings
<1> HIDE DEF r
<1>3. /\ q \in Processes
      /\ q.fds = r.fds /\ q.slog = r.slog /\ q.file = None
      /\ Settings(q) = Settings(r)
  BY <1>2 DEF Processes, Settings
<1>4. FileClose(p) = q
  BY DEF FileClose, r
<1> HIDE DEF q
<1>5. LogRight(p) => LogRight(q) /\ Closes(p, q)
  BY <1>1, <1>2, <1>3, DescriptorNumbers DEF LogRight, Closes, Logs
<1> QED
  BY <1>2, <1>3, <1>4, <1>5

LEMMA CloseSlog ==
  ASSUME NEW p \in Processes
  PROVE  LET q == SlogClose(p) IN
         /\ q \in Processes
         /\ Settings(q) = Settings(p)
         /\ q.file = p.file
         /\ LogRight(p) => LogRight(q) /\ Closes(p, q)
<1> DEFINE r == Close(p, p.slog)
           q == [r EXCEPT !.slog = None]
<1>1. p.slog \in Descriptors \cup {None}
  BY DEF Processes
<1>2. /\ r \in Processes
      /\ p.slog # None => r.fds[p.slog] = "free"
      /\ \A m \in Descriptors \ {p.slog} : r.fds[m] = p.fds[m]
      /\ Settings(r) = Settings(p) /\ r.file = p.file
  BY <1>1, CloseType DEF Settings
<1> HIDE DEF r
<1>3. /\ q \in Processes
      /\ q.fds = r.fds /\ q.file = r.file /\ q.slog = None
      /\ Settings(q) = Settings(r)
  BY <1>2 DEF Processes, Settings
<1>4. SlogClose(p) = q
  BY DEF SlogClose, r
<1> HIDE DEF q
<1>5. LogRight(p) => LogRight(q) /\ Closes(p, q)
  BY <1>1, <1>2, <1>3, DescriptorNumbers DEF LogRight, Closes, Logs
<1> QED
  BY <1>2, <1>3, <1>4, <1>5

LEMMA UntouchedTwice ==
  ASSUME NEW p, NEW q, NEW r, Untouched(p, q), Untouched(q, r) \/ Closes(q, r)
  PROVE  Untouched(p, r)
  BY DEF Untouched, Closes, Logs

(* A message of the file driver.                                            *)
LEMMA FileMessage ==
  ASSUME NEW p \in Processes
  PROVE  LET q == FileLog(p) IN
         /\ q \in Processes
         /\ Settings(q) = Settings(p)
         /\ q.slog = p.slog
         /\ LogRight(p) => LogRight(q) /\ Untouched(p, q)
         /\ ~p.stayopen => q.file = None
         /\ ~p.stayopen /\ p.file = None => \A n \in Descriptors : q.fds[n] = p.fds[n]
<1> DEFINE r == DoOpen(p)
           q == DoClose(r)
<1>1. /\ r \in Processes
      /\ Settings(r) = Settings(p)
      /\ r.slog = p.slog
      /\ LogRight(p) => LogRight(r) /\ Untouched(p, r)
      /\ p.file = None => \/ r = p
                          \/ /\ r.file \in Descriptors
                             /\ p.fds[r.file] = "free" /\ r.fds[r.file] = "file"
                             /\ \A m \in Descriptors \ {r.file} : r.fds[m] = p.fds[m]
  BY OpenFile
<1>2. FileLog(p) = q /\ r.stayopen = p.stayopen
  BY <1>1 DEF FileLog, Settings
<1> HIDE DEF r
<1>3. CASE p.stayopen
  <2>1. q = r
    BY <1>2, <1>3 DEF DoClose
  <2> QED
    BY <1>1, <1>2, <1>3, <2>1
<1>4. CASE ~p.stayopen
  <2>1. q = FileClose(r)
    BY <1>2, <1>4 DEF DoClose
  <2>2. /\ q \in Processes
        /\ Settings(q) = Settings(r)
        /\ q.slog = r.slog /\ q.file = None
        /\ r.file # None => q.fds[r.file] = "free"
        /\ \A m \in Descriptors \ {r.file} : q.fds[m] = r.fds[m]
        /\ LogRight(r) => LogRight(q) /\ Closes(r, q)
    BY <1>1, <2>1, CloseFile
  <2> HIDE DEF q
  <2>3. LogRight(p) => LogRight(q) /\ Untouched(p, q)
    BY <1>1, <2>2, UntouchedTwice
  <2>4. p.file = None => \A n \in Descriptors : q.fds[n] = p.fds[n]
    BY <1>1, <2>2, DescriptorNumbers
  <2> QED
    BY <1>1, <1>2, <1>4, <2>2, <2>3, <2>4
<1> QED
  BY <1>3, <1>4

(* One to syslog.                                                           *)
LEMMA SlogMessage ==
  ASSUME NEW p \in Processes
  PROVE  LET q == SlogLog(p) IN
         /\ q \in Processes
         /\ Settings(q) = Settings(p)
         /\ q.file = p.file
         /\ LogRight(p) => LogRight(q) /\ Untouched(p, q)
<1> DEFINE r == Close(p, p.slog)
           n == Lowest(r)
<1>1. p.slog \in Descriptors \cup {None}
  BY DEF Processes
<1>2. /\ r \in Processes
      /\ Settings(r) = Settings(p) /\ r.file = p.file /\ r.slog = p.slog
      /\ p.slog = None => r = p
  BY <1>1, CloseType DEF Settings, Close
<1>3. CASE p.slog # None /\ p.fds[p.slog] = "syslog"
  <2>1. SlogLog(p) = p
    BY <1>3 DEF SlogLog
  <2> QED
    BY <2>1 DEF Untouched
<1>4. ASSUME ~(p.slog # None /\ p.fds[p.slog] = "syslog"), LogRight(p)
      PROVE  p.slog = None /\ r = p
  BY <1>1, <1>2, <1>4 DEF LogRight
<1>5. CASE ~(p.slog # None /\ p.fds[p.slog] = "syslog") /\ Available(r) = {}
  <2> DEFINE q == [r EXCEPT !.slog = None]
  <2>1. SlogLog(p) = q
    BY <1>5 DEF SlogLog
  <2> HIDE DEF r
  <2>2. q \in Processes /\ Settings(q) = Settings(r) /\ q.file = r.file /\ q.fds = r.fds /\ q.slog = None
    BY <1>2 DEF Processes, Settings
  <2> HIDE DEF q
  <2>3. LogRight(p) => LogRight(q) /\ Untouched(p, q)
    BY <1>4, <1>5, <2>2 DEF LogRight, Untouched
  <2> QED
    BY <1>2, <2>1, <2>2, <2>3
<1>6. CASE ~(p.slog # None /\ p.fds[p.slog] = "syslog") /\ Available(r) # {}
  <2> DEFINE q == [r EXCEPT !.slog = n, !.fds[n] = "syslog"]
  <2>1. SlogLog(p) = q
    BY <1>6 DEF SlogLog
  <2>2. n \in Descriptors /\ r.fds[n] = "free" /\ "syslog" \in Kinds /\ n # None
    BY <1>6, LowestProperties, DescriptorNumbers DEF Kinds
  <2> HIDE DEF n, r
  <2>3. /\ q \in Processes /\ Settings(q) = Settings(r) /\ q.file = r.file
        /\ q.slog = n /\ q.fds[n] = "syslog"
        /\ \A m \in Descriptors \ {n} : q.fds[m] = r.fds[m]
    BY <1>2, <2>2 DEF Processes, Settings
  <2> HIDE DEF q
  <2>4. LogRight(p) => LogRight(q) /\ Untouched(p, q)
    <3> SUFFICES ASSUME LogRight(p) PROVE LogRight(q) /\ Untouched(p, q)
      OBVIOUS
    <3>1. p.slog = None /\ r = p
      BY <1>4, <1>6
    <3> QED
      BY <2>2, <2>3, <3>1, DescriptorNumbers DEF LogRight, Untouched, Logs
  <2> QED
    BY <1>2, <2>1, <2>3, <2>4
<1> QED
  BY <1>3, <1>5, <1>6

(* A message, whatever the driver.                                          *)
LEMMA Message ==
  ASSUME NEW p \in Processes, NEW level
  PROVE  LET q == Said(p, level) IN
         /\ q \in Processes
         /\ Settings(q) = Settings(p)
         /\ LogRight(p) => LogRight(q) /\ Untouched(p, q)
         /\ ~p.stayopen /\ p.file = None => q.file = None
<1>1. CASE Said(p, level) = p
  BY <1>1 DEF Untouched
<1>2. CASE Said(p, level) = FileLog(p)
  BY <1>2, FileMessage
<1>3. CASE Said(p, level) = SlogLog(p)
  BY <1>3, SlogMessage
<1> QED
  BY <1>1, <1>2, <1>3 DEF Said

(* One that keeps no descriptor.                                            *)
LEMMA DiscreetMessage ==
  ASSUME NEW p \in Processes, NEW level, ~p.stayopen, p.file = None, p.driver # "syslog"
  PROVE  LET q == Said(p, level) IN
         /\ q.slog = p.slog
         /\ \A n \in Descriptors : q.fds[n] = p.fds[n]
<1>1. CASE Said(p, level) = p
  BY <1>1
<1>2. CASE Said(p, level) = FileLog(p)
  BY <1>2, FileMessage
<1> QED
  BY <1>1, <1>2 DEF Said, Processes, Drivers

(* Another driver.                                                          *)
LEMMA DriverSet ==
  ASSUME NEW p \in Processes, NEW d \in Drivers
  PROVE  LET q == SetDriver(p, d) IN
         /\ q \in Processes
         /\ q.driver = d /\ q.filename = p.filename /\ q.stayopen = p.stayopen
         /\ q.level = p.level /\ q.evt = p.evt /\ q.sig = p.sig
         /\ ~p.stayopen /\ p.file = None /\ LogRight(p) =>
              LogRight(q) /\ Closes(p, q) /\ q.file = None
<1> DEFINE a == IF d = "file" THEN FileLog(p) ELSE p
           b == IF a.driver = "file" THEN FileClose(a) ELSE IF a.driver = "syslog" THEN SlogClose(a) ELSE a
           q == [b EXCEPT !.driver = d]
<1>1. /\ a \in Processes
      /\ Settings(a) = Settings(p)
      /\ ~p.stayopen /\ p.file = None /\ LogRight(p) =>
           LogRight(a) /\ a.file = None /\ \A n \in Descriptors : a.fds[n] = p.fds[n]
  BY FileMessage
<1>2. SetDriver(p, d) = q
  BY DEF SetDriver
<1> HIDE DEF a
<1>3. /\ b \in Processes
      /\ Settings(b) = Settings(a)
      /\ a.file = None => b.file = None
      /\ LogRight(a) => LogRight(b) /\ Closes(a, b)
  <2>1. CASE b = a
    BY <1>1, <2>1 DEF Closes
  <2>2. CASE b = FileClose(a)
    <3> HIDE DEF b
    <3> QED
      BY <1>1, <2>2, CloseFile
  <2>3. CASE b = SlogClose(a)
    <3> HIDE DEF b
    <3> QED
      BY <1>1, <2>3, CloseSlog
  <2> QED
    BY <2>1, <2>2, <2>3
<1> HIDE DEF b
<1>4. /\ q \in Processes
      /\ q.fds = b.fds /\ q.file = b.file /\ q.slog = b.slog
      /\ q.driver = d /\ q.filename = b.filename /\ q.stayopen = b.stayopen
      /\ q.level = b.level /\ q.evt = b.evt /\ q.sig = b.sig
  BY <1>3 DEF Processes
<1> HIDE DEF q
<1>5. ASSUME ~p.stayopen, p.file = None, LogRight(p)
      PROVE  LogRight(q) /\ Closes(p, q) /\ q.file = None
  <2>1. LogRight(b) /\ Closes(a, b) /\ b.file = None /\ \A n \in Descriptors : a.fds[n] = p.fds[n]
    BY <1>1, <1>3, <1>5
  <2> QED
    BY <1>4, <2>1 DEF LogRight, Closes
<1> QED
  BY <1>1, <1>2, <1>3, <1>4, <1>5 DEF Settings

-----------------------------------------------------------------------------
(***************************************************************************)
(* The invariant.                                                           *)
(***************************************************************************)
LoopHeld(p) ==
  /\ p.evt \in Descriptors /\ p.sig \in Descriptors /\ p.evt < p.sig
  /\ \A n \in Descriptors :
       /\ p.fds[n] = "inotify" <=> n = p.evt
       /\ p.fds[n] = "signals" <=> n = p.sig

NoLoop(p) == \A n \in Descriptors : p.fds[n] \notin {"inotify", "signals"}

(* Neither is held; the number of the signals is kept, and is free, and so  *)
(* is a lower one: that of the inotify instance.                            *)
LoopLeft(p) ==
  /\ NoLoop(p)
  /\ p.evt = None
  /\ p.sig # None => /\ p.fds[p.sig] = "free"
                     /\ \E n \in Descriptors : n < p.sig /\ p.fds[n] = "free"

(* The inotify instance has the lowest number that was free.                *)
HalfHeld(p) ==
  /\ p.evt \in Descriptors
  /\ \A n \in Descriptors :
       /\ p.fds[n] = "inotify" <=> n = p.evt
       /\ p.fds[n] # "signals"
       /\ n < p.evt => p.fds[n] # "free"
  /\ p.sig # None => p.fds[p.sig] = "free"

PhaseInv ==
  /\ phase = "start" => /\ NoLoop(proc) /\ proc.evt = None /\ proc.sig = None
                        /\ proc.file = None /\ ~proc.stayopen
  /\ phase = "initialise" => \/ NoLoop(proc) /\ proc.evt = None /\ proc.sig = None
                             \/ LoopHeld(proc)
  /\ phase \in {"read", "name", "events"} => LoopLeft(proc)
  /\ phase = "signals" => HalfHeld(proc)
  /\ phase = "serve" => LoopHeld(proc)

(* The settings of a process that follows a discreet configuration.         *)
SettingsRight(p) ==
  /\ given = "none" => ~p.stayopen /\ p.file = None
  /\ given = "default" => p.driver = "default"
  /\ given \in {"file", "syslog"} \/ p.driver = "syslog" => p.level < Debug

Follows(p, c) ==
  given = "none" /\ c.driver # "none" =>
    p.driver = c.driver /\ (p.driver = "file" => p.filename = c.filename)

SettingsInv ==
  /\ SettingsRight(proc)
  /\ phase \in {"name", "events", "signals", "serve"} => Follows(proc, inforce)

DaemonInv ==
  /\ Discreet
  /\ TypeOK
  /\ LogRight(proc)
  /\ \A n \in Descriptors : proc.fds[n] # "conf"
  /\ zombies \subseteq Commands
  /\ PhaseInv
  /\ SettingsInv

-----------------------------------------------------------------------------
(***************************************************************************)
(* The type invariant, for any configurations.                              *)
(***************************************************************************)
LEMMA AppliedType ==
  ASSUME NEW p \in Processes, NEW c \in Configurations
  PROVE  LET q == Applied(p, c) IN
         /\ q \in Processes
         /\ q.evt = p.evt /\ q.sig = p.sig
         /\ c.driver = "none" => q = p
         /\ c.driver # "none" =>
              \E r \in Processes :
                /\ r.fds = p.fds /\ r.file = p.file /\ r.slog = p.slog /\ r.driver = p.driver
                /\ r.level = c.level /\ r.evt = p.evt /\ r.sig = p.sig
                /\ r.stayopen = IF c.driver = "file" THEN c.stayopen ELSE p.stayopen
                /\ c.driver = "file" => r.filename = c.filename
                /\ q = IF given # "none" THEN r ELSE SetDriver(r, c.driver)
<1> DEFINE a == IF c.driver = "file"
                THEN [p EXCEPT !.filename = c.filename, !.stayopen = c.stayopen] ELSE p
           r == [a EXCEPT !.level = c.level]
           q == Applied(p, c)
<1>1. CASE c.driver = "none"
  BY <1>1 DEF Applied
<1>2. CASE c.driver # "none"
  <2>1. q = IF given # "none" THEN r ELSE SetDriver(r, c.driver)
    BY <1>2 DEF Applied
  <2>2. /\ a \in Processes
        /\ a.fds = p.fds /\ a.file = p.file /\ a.slog = p.slog /\ a.driver = p.driver
        /\ a.evt = p.evt /\ a.sig = p.sig
        /\ a.stayopen = IF c.driver = "file" THEN c.stayopen ELSE p.stayopen
        /\ c.driver = "file" => a.filename = c.filename
    BY DEF Processes, Configurations
  <2> HIDE DEF a, q
  <2>3. /\ r \in Processes
        /\ r.fds = p.fds /\ r.file = p.file /\ r.slog = p.slog /\ r.driver = p.driver
        /\ r.level = c.level /\ r.evt = p.evt /\ r.sig = p.sig
        /\ r.stayopen = IF c.driver = "file" THEN c.stayopen ELSE p.stayopen
        /\ c.driver = "file" => r.filename = c.filename
    BY <2>2 DEF Processes, Configurations
  <2> HIDE DEF r
  <2>4. q \in Processes /\ q.evt = p.evt /\ q.sig = p.sig
    <3>1. c.driver \in Drivers
      BY <1>2 DEF Configurations
    <3>2. SetDriver(r, c.driver) \in Processes /\ SetDriver(r, c.driver).evt = r.evt /\ SetDriver(r, c.driver).sig = r.sig
      BY <2>3, <3>1, DriverSet
    <3> QED
      BY <2>1, <2>3, <3>2
  <2> QED
    BY <1>2, <2>1, <2>3, <2>4 DEF q
<1> QED
  BY <1>1, <1>2

LEMMA TypeInit == Init => TypeOK
<1> SUFFICES ASSUME Init PROVE TypeOK
  OBVIOUS
<1>1. Fresh \in Processes
  BY LoggingAssumption DEF Fresh, Processes, Kinds, Drivers, Error, Notice, Debug
<1>2. 0 \in 0 .. MaxQueue /\ 0 \in 0 .. MaxEdits /\ 0 \in 0 .. MaxAsks /\ 0 \in 0 .. 0
  BY DaemonAssumption
<1> QED
  BY <1>1, <1>2 DEF Init, TypeOK, Phases

(* What a step does to the process.                                         *)
LEMMA ProcessType == TypeOK /\ [Next]_vars => proc' \in Processes
<1> SUFFICES ASSUME TypeOK, [Next]_vars PROVE proc' \in Processes
  OBVIOUS
<1>1. /\ proc \in Processes
      /\ proc.evt \in Descriptors \cup {None} /\ proc.sig \in Descriptors \cup {None}
      /\ given \in Given /\ disk \in Configurations
  BY DaemonAssumption DEF TypeOK, Processes
<1>2. CASE UNCHANGED proc
  BY <1>1, <1>2
<1>3. CASE Start
  <2>1. (IF given = "none" THEN "default" ELSE given) \in Drivers
    BY <1>1, DaemonAssumption DEF Drivers
  <2> QED
    BY <1>1, <1>3, <2>1, DriverSet DEF Start
<1>4. CASE Initialise
  <2> DEFINE a == IF blocked THEN Said(proc, Notice) ELSE proc
             b == Close(a, a.sig)
             c == Close(b, b.evt)
  <2>1. a \in Processes
    BY <1>1, Message
  <2> HIDE DEF a
  <2>2. b \in Processes
    BY <2>1, CloseType DEF Processes
  <2> HIDE DEF b
  <2>3. c \in Processes
    BY <2>2, CloseType DEF Processes
  <2>4. proc' = [c EXCEPT !.evt = None]
    BY <1>4 DEF Initialise, SignalTerminate, EventsTerminate, a, b
  <2> HIDE DEF c
  <2> QED
    BY <2>3, <2>4 DEF Processes
<1>5. CASE ReadConfiguration
  <2> DEFINE n == Lowest(proc)
             a == [proc EXCEPT !.fds[n] = "conf"]
             b == Applied(a, disk)
  <2>1. CASE Available(proc) = {} \/ ~disk.valid
    BY <1>2, <1>5, <2>1 DEF ReadConfiguration, Exit
  <2>2. CASE ~(Available(proc) = {} \/ ~disk.valid)
    <3>1. n \in Descriptors /\ "conf" \in Kinds
      BY <2>2, LowestProperties DEF Kinds
    <3>2. proc' = Close(b, n)
      BY <1>5, <2>2 DEF ReadConfiguration
    <3> HIDE DEF n
    <3>3. a \in Processes
      BY <1>1, <3>1, SetKind
    <3> HIDE DEF a
    <3>4. b \in Processes
      BY <1>1, <3>3, AppliedType
    <3> HIDE DEF b
    <3> QED
      BY <3>1, <3>2, <3>4, CloseType
  <2> QED
    BY <2>1, <2>2
<1>6. CASE NamePid
  BY <1>1, <1>6, Message DEF NamePid, Exit
<1>7. CASE EventsInit
  <2> DEFINE p == Close(proc, proc.evt)
             n == Lowest(p)
             q == [p EXCEPT !.fds[n] = "inotify", !.evt = n]
  <2>1. CASE Available(p) = {}
    BY <1>2, <1>7, <2>1 DEF EventsInit, Exit
  <2>2. CASE Available(p) # {}
    <3>1. n \in Descriptors /\ "inotify" \in Kinds
      BY <2>2, LowestProperties DEF Kinds
    <3>2. proc' = IF inforce.unwatchable THEN Said(q, Error) ELSE q
      BY <1>7, <2>2 DEF EventsInit
    <3>3. p \in Processes
      BY <1>1, CloseType
    <3> HIDE DEF n, p
    <3>4. q \in Processes
      BY <3>1, <3>3 DEF Processes
    <3> HIDE DEF q
    <3> QED
      BY <3>2, <3>4, Message
  <2> QED
    BY <2>1, <2>2
<1>8. CASE SignalInit
  <2> DEFINE p == Close(proc, proc.sig)
             n == Lowest(p)
             q == [p EXCEPT !.fds[n] = "signals", !.sig = n]
  <2>1. CASE Available(p) = {}
    BY <1>2, <1>8, <2>1 DEF SignalInit, Exit
  <2>2. CASE Available(p) # {}
    <3>1. n \in Descriptors /\ "signals" \in Kinds
      BY <2>2, LowestProperties DEF Kinds
    <3>2. proc' = q
      BY <1>8, <2>2 DEF SignalInit
    <3>3. p \in Processes
      BY <1>1, CloseType
    <3> HIDE DEF n, p
    <3> QED
      BY <3>1, <3>2, <3>3 DEF Processes
  <2> QED
    BY <2>1, <2>2
<1>9. CASE Poll
  BY <1>1, <1>9, Message DEF Poll
<1>10. CASE ReadEvents
  <2>1. CASE proc' = Said(proc, Debug)
    BY <1>1, <2>1, Message
  <2>2. CASE Available(proc) # {} /\ proc' = Said([proc EXCEPT !.fds[Lowest(proc)] = "pipe"], Notice)
    <3>1. Lowest(proc) \in Descriptors /\ "pipe" \in Kinds
      BY <2>2, LowestProperties DEF Kinds
    <3>2. [proc EXCEPT !.fds[Lowest(proc)] = "pipe"] \in Processes
      BY <1>1, <3>1, SetKind
    <3> QED
      BY <2>2, <3>2, Message
  <2> QED
    BY <1>10, <2>1, <2>2 DEF ReadEvents
<1>11. CASE EventsDone
  BY <1>1, <1>11, Message DEF EventsDone
<1>12. CASE Terminate
  BY <1>2, <1>12 DEF Terminate, Exit
<1>13. CASE Reload
  BY <1>1, <1>13, Message DEF Reload
<1>14. ASSUME NEW n \in Descriptors, Wait(n)
       PROVE  proc' \in Processes
  <2>1. Close(proc, n) \in Processes
    BY <1>1, CloseType
  <2> QED
    BY <1>14, <2>1, Message DEF Wait
<1>15. CASE ChildSignal \/ WaitedAll \/ SignalsDone
  BY <1>2, <1>15 DEF ChildSignal, WaitedAll, SignalsDone
<1>16. CASE Environment
  BY <1>2, <1>16 DEF Environment, EventArrives, Edit, CommandEnds, Ask, daemon
<1>17. CASE UNCHANGED vars
  BY <1>2, <1>17 DEF vars, daemon
<1> QED
  BY <1>3, <1>4, <1>5, <1>6, <1>7, <1>8, <1>9, <1>10, <1>11, <1>12, <1>13, <1>14, <1>15, <1>16,
     <1>17 DEF Next, Step

LEMMA ExitType == TypeOK /\ Exit => TypeOK'
  BY DEF Exit, TypeOK, Phases, signals, config, outside

LEMMA TypeStep == TypeOK /\ [Next]_vars => TypeOK'
<1> SUFFICES ASSUME TypeOK, [Next]_vars PROVE TypeOK'
  OBVIOUS
<1>1. proc' \in Processes
  BY ProcessType
<1>2. /\ MaxEdits \in Nat /\ MaxAsks \in Nat /\ MaxQueue \in Nat
      /\ queue \in 0 .. MaxQueue /\ 0 \in 0 .. MaxQueue
      /\ edits \in 0 .. MaxEdits /\ version \in 0 .. edits /\ asked \in 0 .. edits
      /\ asks \in 0 .. MaxAsks
  BY DaemonAssumption DEF TypeOK
<1>3. CASE Start
  BY <1>1, <1>3 DEF Start, TypeOK, Phases, signals, config, outside
<1>4. CASE Initialise
  BY <1>1, <1>2, <1>4 DEF Initialise, TypeOK, Phases, signals, config
<1>5. CASE ReadConfiguration
  <2>1. CASE Exit
    BY <2>1, ExitType
  <2>2. CASE ~Exit
    <3>1. /\ phase = "read" /\ inforce' = disk /\ version' = edits /\ phase' = "name"
          /\ UNCHANGED <<ready, signals, outside, named, given>>
      BY <1>5, <2>2 DEF ReadConfiguration
    <3>2. edits \in 0 .. edits
      BY <1>2
    <3> QED
      BY <1>1, <1>2, <3>1, <3>2 DEF TypeOK, Phases, signals, outside
  <2> QED
    BY <2>1, <2>2
<1>6. CASE NamePid
  <2>1. CASE Exit
    BY <2>1, ExitType
  <2>2. CASE ~Exit
    <3>1. /\ phase = "name" /\ named' = TRUE /\ phase' = "events"
          /\ UNCHANGED <<ready, signals, config, outside, given>>
      BY <1>6, <2>2 DEF NamePid
    <3> QED
      BY <1>1, <3>1 DEF TypeOK, Phases, signals, config, outside
  <2> QED
    BY <2>1, <2>2
<1>7. CASE EventsInit
  <2>1. CASE Exit
    BY <2>1, ExitType
  <2>2. CASE ~Exit
    <3>1. /\ phase = "events" /\ phase' = "signals"
          /\ UNCHANGED <<ready, signals, config, outside, named, given>>
      BY <1>7, <2>2 DEF EventsInit
    <3> QED
      BY <1>1, <3>1 DEF TypeOK, Phases, signals, config, outside
  <2> QED
    BY <2>1, <2>2
<1>8. CASE SignalInit
  <2>1. CASE Exit
    BY <2>1, ExitType
  <2>2. CASE ~Exit
    <3>1. /\ phase = "signals" /\ blocked' = TRUE /\ queue' \in {queue, 0} /\ ready' = {}
          /\ phase' = "serve"
          /\ UNCHANGED <<pending, asked, asks, config, zombies, disk, edits, named, given>>
      BY <1>8, <2>2 DEF SignalInit
    <3> QED
      BY <1>1, <1>2, <3>1 DEF TypeOK, Phases, config
  <2> QED
    BY <2>1, <2>2
<1>9. CASE Poll
  <2>1. ready' \in SUBSET {"events", "signals", "children"} /\ phase = "serve" /\ phase' = phase
    BY <1>9 DEF Poll
  <2> QED
    BY <1>1, <1>9, <2>1 DEF Poll, TypeOK, signals, config, outside
<1>10. CASE ReadEvents
  <2>1. /\ queue' = 0
        /\ UNCHANGED <<phase, ready, signals, config, zombies, disk, edits, named, given>>
    BY <1>10 DEF ReadEvents
  <2> QED
    BY <1>1, <1>2, <2>1 DEF TypeOK, signals, config
<1>11. CASE EventsDone
  <2>1. pending' \in SUBSET Signals /\ ready' \subseteq ready
    BY <1>11 DEF EventsDone, TypeOK
  <2> QED
    BY <1>1, <1>11, <2>1 DEF EventsDone, TypeOK, config, outside
<1>12. CASE Terminate
  BY <1>12, ExitType DEF Terminate
<1>13. CASE Reload
  BY <1>1, <1>13 DEF Reload, Taking, Take, TypeOK, Phases, config, outside
<1>14. CASE ChildSignal
  BY <1>14 DEF ChildSignal, Taking, Take, TypeOK, Phases, config, outside
<1>15. ASSUME NEW n \in Descriptors, Wait(n)
       PROVE  TypeOK'
  BY <1>1, <1>15 DEF Wait, TypeOK, Phases, signals, config
<1>16. CASE WaitedAll \/ SignalsDone
  BY <1>16 DEF WaitedAll, SignalsDone, TypeOK, Phases, signals, config, outside
<1>17. CASE EventArrives
  <2>1. queue' \in 0 .. MaxQueue
    BY <1>2, <1>17 DEF EventArrives
  <2> QED
    BY <1>17, <2>1 DEF EventArrives, TypeOK, daemon, signals, config
<1>18. ASSUME NEW n \in Descriptors, CommandEnds(n)
       PROVE  TypeOK'
  <2>1. pending' \in SUBSET Signals /\ zombies' \subseteq Descriptors
    BY <1>18 DEF CommandEnds, TypeOK, Signals, Number
  <2> QED
    BY <1>18, <2>1 DEF CommandEnds, TypeOK, daemon, config
<1>19. CASE Edit
  <2>1. /\ edits' \in 0 .. MaxEdits /\ version \in 0 .. edits' /\ asked \in 0 .. edits'
        /\ disk' \in Configs[given]
    BY <1>2, <1>19 DEF Edit
  <2> QED
    BY <1>19, <2>1 DEF Edit, TypeOK, daemon, signals, config
<1>20. ASSUME NEW s \in {"USR1", "TERM"}, Ask(s)
       PROVE  TypeOK'
  <2>1. asks' \in 0 .. MaxAsks /\ asked' \in 0 .. edits
    BY <1>2, <1>20 DEF Ask
  <2>2. pending' \in SUBSET Signals
    BY <1>20 DEF Ask, TypeOK, Signals, Number
  <2>3. phase' \in Phases /\ (ready # {} => phase' = "serve") /\ (phase' = "serve" => blocked)
    BY <1>20 DEF Ask, TypeOK, Phases
  <2> QED
    BY <1>20, <2>1, <2>2, <2>3 DEF Ask, TypeOK, config, outside
<1>21. CASE UNCHANGED vars
  BY <1>21 DEF vars, TypeOK, daemon, signals, config, outside
<1> QED
  BY <1>3, <1>4, <1>5, <1>6, <1>7, <1>8, <1>9, <1>10, <1>11, <1>12, <1>13, <1>14, <1>15, <1>16,
     <1>17, <1>18, <1>19, <1>20, <1>21 DEF Next, Step, Environment

(* Every variable of the daemon keeps its type, whatever the configurations *)
(* say and however few descriptors there are; the loop only runs with its   *)
(* signals blocked.                                                         *)
THEOREM TypeCorrect == Spec => []TypeOK
  BY TypeInit, TypeStep, PTL DEF Spec

-----------------------------------------------------------------------------
(***************************************************************************)
(* The steps, when the configurations are discreet.                         *)
(***************************************************************************)
LEMMA AppliedDiscreet ==
  ASSUME Discreet, given \in Given,
         NEW c \in Configs[given],
         NEW p \in Processes, LogRight(p), SettingsRight(p)
  PROVE  LET q == Applied(p, c) IN
         /\ q \in Processes
         /\ q.evt = p.evt /\ q.sig = p.sig
         /\ LogRight(q) /\ Closes(p, q)
         /\ SettingsRight(q) /\ Follows(q, c)
<1> DEFINE q == Applied(p, c)
<1>1. /\ c \in Configurations /\ given \in Drivers \cup {"none"}
      /\ given = "none" /\ c.driver = "file" => ~c.stayopen
      /\ \/ given = "default"
         \/ given = "none" /\ c.driver \in {"default", "file"}
         \/ c.level < Debug
  BY DaemonAssumption DEF Discreet
<1>2. /\ q \in Processes /\ q.evt = p.evt /\ q.sig = p.sig
      /\ c.driver = "none" => q = p
  BY <1>1, AppliedType
<1>3. CASE c.driver = "none"
  BY <1>2, <1>3 DEF Closes, Follows
<1>4. CASE c.driver # "none"
  <2>1. PICK r \in Processes :
          /\ r.fds = p.fds /\ r.file = p.file /\ r.slog = p.slog /\ r.driver = p.driver
          /\ r.level = c.level /\ r.evt = p.evt /\ r.sig = p.sig
          /\ r.stayopen = IF c.driver = "file" THEN c.stayopen ELSE p.stayopen
          /\ c.driver = "file" => r.filename = c.filename
          /\ q = IF given # "none" THEN r ELSE SetDriver(r, c.driver)
    BY <1>1, <1>4, AppliedType
  <2>2. LogRight(r) /\ Closes(p, r)
    BY <2>1 DEF LogRight, Closes
  <2>3. CASE given # "none"
    <3>1. q = r
      BY <2>1, <2>3
    <3>2. given = "default" \/ c.level < Debug
      BY <1>1, <2>3
    <3>3. SettingsRight(r)
      BY <1>1, <2>1, <2>3, <3>2 DEF SettingsRight
    <3> QED
      BY <1>2, <2>2, <2>3, <3>1, <3>3 DEF Follows
  <2>4. CASE given = "none"
    <3>1. c.driver \in Drivers /\ ~r.stayopen /\ r.file = None
      BY <1>1, <1>4, <2>1, <2>4 DEF SettingsRight, Configurations
    <3>2. q = SetDriver(r, c.driver)
      BY <2>1, <2>4
    <3>3. /\ q.driver = c.driver /\ q.filename = r.filename /\ q.stayopen = r.stayopen
          /\ q.level = r.level
          /\ LogRight(q) /\ Closes(r, q) /\ q.file = None
      BY <2>2, <3>1, <3>2, DriverSet
    <3>4. Closes(p, q)
      BY <2>1, <3>3 DEF Closes
    <3>5. SettingsRight(q)
      BY <1>1, <2>1, <2>4, <3>1, <3>3 DEF SettingsRight
    <3>6. Follows(q, c)
      BY <2>1, <3>3 DEF Follows
    <3> HIDE DEF q
    <3>7. q \in Processes /\ q.evt = p.evt /\ q.sig = p.sig /\ LogRight(q) /\ Closes(p, q)
          /\ SettingsRight(q) /\ Follows(q, c)
      BY <1>2, <3>3, <3>4, <3>5, <3>6
    <3> QED
      BY <3>7 DEF q
  <2> QED
    BY <2>3, <2>4
<1> HIDE DEF q
<1> QED
  BY <1>3, <1>4 DEF q

LEMMA DaemonInit == Discreet /\ Init => DaemonInv
<1> SUFFICES ASSUME Discreet, Init PROVE DaemonInv
  OBVIOUS
<1>1. TypeOK
  BY TypeInit
<1>2. /\ proc.fds = [n \in Descriptors |-> "free"]
      /\ proc.file = None /\ proc.slog = None /\ proc.evt = None /\ proc.sig = None
      /\ proc.driver = "default" /\ proc.stayopen = FALSE /\ proc.level = Notice
  BY DEF Init, Fresh
<1>3. LogRight(proc) /\ (\A n \in Descriptors : proc.fds[n] # "conf") /\ NoLoop(proc)
  BY <1>2, DescriptorNumbers DEF LogRight, NoLoop
<1>4. phase = "start" /\ zombies = {}
  BY DEF Init
<1>5. SettingsInv
  BY <1>2, <1>4 DEF SettingsInv, SettingsRight, Notice, Debug
<1> QED
  BY <1>1, <1>2, <1>3, <1>4, <1>5 DEF DaemonInv, PhaseInv

(* What a message, or a driver set, leaves of the invariant.                *)
LEMMA UntouchedKeeps ==
  ASSUME NEW p \in Processes, NEW q \in Processes, Untouched(p, q) \/ Closes(p, q),
         q.evt = p.evt, q.sig = p.sig
  PROVE  /\ \A n \in Descriptors : \A k \in {"inotify", "signals", "conf", "pipe"} :
              q.fds[n] = k <=> p.fds[n] = k
         /\ NoLoop(p) => NoLoop(q)
         /\ LoopHeld(p) => LoopHeld(q)
<1>1. \A n \in Descriptors : \A k \in {"inotify", "signals", "conf", "pipe"} :
        q.fds[n] = k <=> p.fds[n] = k
  BY DEF Untouched, Closes, Logs
<1> QED
  BY <1>1 DEF NoLoop, LoopHeld

LEMMA SameSettings ==
  ASSUME NEW p, NEW q, Settings(q) = Settings(p), SettingsRight(p),
         given = "none" => q.file = None
  PROVE  SettingsRight(q) /\ \A c : Follows(p, c) => Follows(q, c)
  BY DEF Settings, SettingsRight, Follows

(* A message keeps what does not depend on the phase.                       *)
Kept(p) ==
  /\ p \in Processes
  /\ LogRight(p)
  /\ \A n \in Descriptors : p.fds[n] # "conf"
  /\ SettingsRight(p)

LEMMA KeptNow ==
  DaemonInv => /\ Kept(proc) /\ given \in Given
               /\ proc.evt \in Descriptors \cup {None} /\ proc.sig \in Descriptors \cup {None}
  BY DEF DaemonInv, Kept, SettingsInv, TypeOK, Processes

LEMMA MessageKept ==
  ASSUME NEW p, Kept(p), NEW level
  PROVE  LET q == Said(p, level) IN
         /\ Kept(q) /\ Untouched(p, q)
         /\ q.evt = p.evt /\ q.sig = p.sig
         /\ \A c : Follows(p, c) => Follows(q, c)
         /\ \A n \in Descriptors : q.fds[n] = "pipe" <=> p.fds[n] = "pipe"
         /\ LoopHeld(p) => LoopHeld(q)
         /\ NoLoop(p) => NoLoop(q)
<1> DEFINE q == Said(p, level)
<1>1. /\ q \in Processes /\ Settings(q) = Settings(p)
      /\ LogRight(q) /\ Untouched(p, q)
      /\ ~p.stayopen /\ p.file = None => q.file = None
  BY Message DEF Kept
<1> HIDE DEF q
<1>2. q.evt = p.evt /\ q.sig = p.sig
  BY <1>1 DEF Settings
<1>3. SettingsRight(q) /\ \A c : Follows(p, c) => Follows(q, c)
  BY <1>1, SameSettings DEF Kept, SettingsRight
<1>4. /\ \A n \in Descriptors : \A k \in {"inotify", "signals", "conf", "pipe"} :
           q.fds[n] = k <=> p.fds[n] = k
      /\ NoLoop(p) => NoLoop(q)
      /\ LoopHeld(p) => LoopHeld(q)
  BY <1>1, <1>2, UntouchedKeeps DEF Kept
<1>5. Kept(q)
  BY <1>1, <1>3, <1>4 DEF Kept
<1> QED
  BY <1>1, <1>2, <1>3, <1>4, <1>5 DEF q

(* Closing what is not the log's, or using a free number for it.            *)
Set(p, n, kind) == [p EXCEPT !.fds[n] = kind]

LEMMA SetKept ==
  ASSUME NEW p, Kept(p), NEW n \in Descriptors, p.fds[n] \notin {"file", "syslog"},
         NEW kind \in {"free", "inotify", "signals", "pipe"}
  PROVE  LET q == Set(p, n, kind) IN
         /\ Kept(q)
         /\ q.evt = p.evt /\ q.sig = p.sig /\ q.fds[n] = kind
         /\ \A m \in Descriptors \ {n} : q.fds[m] = p.fds[m]
         /\ \A c : Follows(p, c) => Follows(q, c)
<1> DEFINE q == Set(p, n, kind)
<1>1. kind \in Kinds /\ p \in Processes
  BY DEF Kinds, Kept
<1>2. /\ q \in Processes
      /\ q.fds[n] = kind
      /\ \A m \in Descriptors \ {n} : q.fds[m] = p.fds[m]
      /\ q.file = p.file /\ q.slog = p.slog
      /\ Settings(q) = Settings(p)
      /\ q.evt = p.evt /\ q.sig = p.sig
  BY <1>1, SetKind DEF Settings, Set
<1> HIDE DEF q
<1>3. SettingsRight(q) /\ \A c : Follows(p, c) => Follows(q, c)
  BY <1>2, SameSettings DEF Kept, SettingsRight
<1>4. LogRight(q)
  BY <1>2, DescriptorNumbers DEF LogRight, Kept
<1>5. \A m \in Descriptors : q.fds[m] # "conf"
  BY <1>2 DEF Kept
<1>6. Kept(q)
  BY <1>2, <1>3, <1>4, <1>5 DEF Kept
<1> QED
  BY <1>2, <1>3, <1>6 DEF q

LEMMA CloseKept ==
  ASSUME NEW p, Kept(p), NEW n \in Descriptors, p.fds[n] \notin {"file", "syslog"}
  PROVE  LET q == Close(p, n) IN
         /\ Kept(q)
         /\ q.evt = p.evt /\ q.sig = p.sig /\ q.fds[n] = "free"
         /\ \A m \in Descriptors \ {n} : q.fds[m] = p.fds[m]
         /\ \A c : Follows(p, c) => Follows(q, c)
<1> DEFINE q == Set(p, n, "free")
<1>1. "free" \in {"free", "inotify", "signals", "pipe"}
  OBVIOUS
<1>2. /\ Kept(q)
      /\ q.evt = p.evt /\ q.sig = p.sig /\ q.fds[n] = "free"
      /\ \A m \in Descriptors \ {n} : q.fds[m] = p.fds[m]
      /\ \A c : Follows(p, c) => Follows(q, c)
  BY <1>1, SetKept
<1>3. Close(p, n) = q
  BY DescriptorNumbers DEF Close, Set
<1> HIDE DEF q
<1> QED
  BY <1>2, <1>3

(* What is left to show of a step of the daemon.                            *)
LEMMA StepOf ==
  ASSUME DaemonInv, [Next]_vars, UNCHANGED <<given, inforce>>, Kept(proc'),
         zombies' \subseteq Commands', PhaseInv',
         phase' \in {"name", "events", "signals", "serve"} => Follows(proc', inforce)
  PROVE  DaemonInv'
<1>1. TypeOK'
  BY TypeStep DEF DaemonInv
<1>2. SettingsInv'
  BY DEF SettingsInv, SettingsRight, Follows, Kept
<1> QED
  BY <1>1, <1>2 DEF DaemonInv, Kept, LogRight

LEMMA ExitStep == DaemonInv /\ [Next]_vars /\ Exit => DaemonInv'
<1> SUFFICES ASSUME DaemonInv, [Next]_vars, Exit PROVE DaemonInv'
  OBVIOUS
<1>1. /\ phase' = "gone" /\ proc' = proc /\ given' = given /\ inforce' = inforce /\ zombies' = zombies
  BY DEF Exit, config, outside
<1>2. zombies' \subseteq Commands'
  BY <1>1 DEF DaemonInv, Commands
<1>3. PhaseInv'
  BY <1>1 DEF PhaseInv
<1> QED
  BY <1>1, <1>2, <1>3, KeptNow, StepOf

LEMMA StartStep == DaemonInv /\ [Next]_vars /\ Start => DaemonInv'
<1> SUFFICES ASSUME DaemonInv, [Next]_vars, Start PROVE DaemonInv'
  OBVIOUS
<1> DEFINE d == IF given = "none" THEN "default" ELSE given
           q == SetDriver(proc, d)
<1>1. /\ phase = "start" /\ phase' = "initialise" /\ proc' = q
      /\ given' = given /\ inforce' = inforce /\ zombies' = zombies
  BY DEF Start, config, outside
<1>2. /\ Kept(proc) /\ NoLoop(proc) /\ proc.evt = None /\ proc.sig = None /\ proc.file = None
      /\ ~proc.stayopen
      /\ d \in Drivers /\ given \in Drivers \cup {"none"}
  BY <1>1, KeptNow, DaemonAssumption DEF DaemonInv, PhaseInv, Drivers
<1>3. /\ q \in Processes
      /\ q.driver = d /\ q.stayopen = proc.stayopen
      /\ q.level = proc.level /\ q.evt = proc.evt /\ q.sig = proc.sig
      /\ LogRight(q) /\ Closes(proc, q) /\ q.file = None
  BY <1>2, DriverSet DEF Kept
<1>4. given = "default" => d = "default"
  OBVIOUS
<1>5. d = "syslog" => given = "syslog"
  OBVIOUS
<1> HIDE DEF q, d
<1>6. SettingsRight(q)
  BY <1>2, <1>3, <1>4, <1>5 DEF SettingsRight, Kept
<1>7. /\ \A n \in Descriptors : \A k \in {"inotify", "signals", "conf", "pipe"} :
           q.fds[n] = k <=> proc.fds[n] = k
      /\ NoLoop(q)
  BY <1>2, <1>3, UntouchedKeeps DEF Kept
<1>8. Kept(q)
  BY <1>2, <1>3, <1>6, <1>7 DEF Kept
<1>9. zombies' \subseteq Commands'
  BY <1>1, <1>7 DEF DaemonInv, Commands
<1>10. PhaseInv'
  BY <1>1, <1>2, <1>3, <1>7 DEF PhaseInv
<1> QED
  BY <1>1, <1>8, <1>9, <1>10, StepOf

LEMMA InitialiseStep == DaemonInv /\ [Next]_vars /\ Initialise => DaemonInv'
<1> SUFFICES ASSUME DaemonInv, [Next]_vars, Initialise PROVE DaemonInv'
  OBVIOUS
<1> DEFINE a == IF blocked THEN Said(proc, Notice) ELSE proc
           b == Close(a, a.sig)
           c == Close(b, b.evt)
           q == [c EXCEPT !.evt = None]
<1>1. /\ phase = "initialise" /\ phase' = "read" /\ proc' = q
      /\ given' = given /\ inforce' = inforce /\ zombies' = zombies
  BY DEF Initialise, SignalTerminate, EventsTerminate, config
<1>2. /\ Kept(a) /\ a.evt = proc.evt /\ a.sig = proc.sig
      /\ \A n \in Descriptors : a.fds[n] = "pipe" <=> proc.fds[n] = "pipe"
      /\ \/ NoLoop(a) /\ a.evt = None /\ a.sig = None
         \/ LoopHeld(a)
  <2>1. \/ NoLoop(proc) /\ proc.evt = None /\ proc.sig = None
        \/ LoopHeld(proc)
    BY <1>1 DEF DaemonInv, PhaseInv
  <2>2. CASE a = proc
    <3> HIDE DEF a
    <3> QED
      BY <2>1, <2>2, KeptNow
  <2>3. CASE a = Said(proc, Notice)
    <3> HIDE DEF a
    <3> QED
      BY <2>1, <2>3, KeptNow, MessageKept
  <2> QED
    BY <2>2, <2>3
<1> HIDE DEF a
<1>3. /\ Kept(c) /\ LoopLeft(q)
      /\ \A n \in Descriptors : c.fds[n] = "pipe" <=> a.fds[n] = "pipe"
  <2>1. CASE NoLoop(a) /\ a.evt = None /\ a.sig = None
    <3>1. b = a /\ c = a
      BY <2>1 DEF Close
    <3> HIDE DEF b, c
    <3>2. q.fds = a.fds /\ q.evt = None /\ q.sig = None
      BY <1>2, <2>1, <3>1 DEF Kept, Processes
    <3> HIDE DEF q
    <3> QED
      BY <1>2, <2>1, <3>1, <3>2 DEF LoopLeft, NoLoop
  <2>2. CASE LoopHeld(a)
    <3>1. /\ a.evt \in Descriptors /\ a.sig \in Descriptors /\ a.evt < a.sig /\ a.evt # a.sig
          /\ a.fds[a.evt] = "inotify" /\ a.fds[a.sig] = "signals"
      BY <2>2, DescriptorNumbers DEF LoopHeld
    <3>2. a.fds[a.sig] \notin {"file", "syslog"} /\ a.fds[a.evt] \notin {"file", "syslog"}
      BY <3>1
    <3>3. /\ Kept(b) /\ b.evt = a.evt /\ b.sig = a.sig /\ b.fds[a.sig] = "free"
          /\ \A m \in Descriptors \ {a.sig} : b.fds[m] = a.fds[m]
      BY <1>2, <3>1, <3>2, CloseKept
    <3> HIDE DEF b
    <3>4. b.evt \in Descriptors /\ b.fds[b.evt] \notin {"file", "syslog"}
      BY <3>1, <3>2, <3>3
    <3>5. /\ Kept(c) /\ c.evt = b.evt /\ c.sig = b.sig /\ c.fds[b.evt] = "free"
          /\ \A m \in Descriptors \ {b.evt} : c.fds[m] = b.fds[m]
      BY <3>3, <3>4, CloseKept
    <3> HIDE DEF c
    <3>6. /\ Kept(c) /\ c.sig = a.sig /\ c.fds[a.evt] = "free"
          /\ \A m \in Descriptors \ {a.evt} : c.fds[m] = b.fds[m]
      BY <3>3, <3>5
    <3>7. q.fds = c.fds /\ q.evt = None /\ q.sig = c.sig
      BY <3>6 DEF Kept, Processes
    <3> HIDE DEF q
    <3>8. c.fds[a.sig] = "free"
      BY <3>1, <3>3, <3>6
    <3>9. \A n \in Descriptors : c.fds[n] \in {"inotify", "signals"} => FALSE
      BY <2>2, <3>3, <3>6 DEF LoopHeld
    <3>10. LoopLeft(q)
      BY <3>1, <3>6, <3>7, <3>8, <3>9 DEF LoopLeft, NoLoop
    <3> QED
      BY <3>1, <3>3, <3>6, <3>10
  <2> QED
    BY <1>2, <2>1, <2>2
<1> HIDE DEF b, c
<1>4. /\ q \in Processes /\ q.fds = c.fds /\ q.file = c.file /\ q.slog = c.slog
      /\ q.driver = c.driver /\ q.stayopen = c.stayopen /\ q.level = c.level
  BY <1>3 DEF Kept, Processes
<1> HIDE DEF q
<1>5. Kept(q)
  BY <1>3, <1>4 DEF Kept, LogRight, SettingsRight
<1>6. zombies' \subseteq Commands'
  BY <1>1, <1>2, <1>3, <1>4 DEF DaemonInv, Commands
<1>7. PhaseInv'
  BY <1>1, <1>3 DEF PhaseInv
<1> QED
  BY <1>1, <1>5, <1>6, <1>7, StepOf

LEMMA ReadConfigurationStep == DaemonInv /\ [Next]_vars /\ ReadConfiguration => DaemonInv'
<1> SUFFICES ASSUME DaemonInv, [Next]_vars, ReadConfiguration PROVE DaemonInv'
  OBVIOUS
<1>1. CASE Exit
  BY <1>1, ExitStep
<1>2. CASE ~Exit
  <2> DEFINE conf == Lowest(proc)
             a == [proc EXCEPT !.fds[conf] = "conf"]
             b == Applied(a, disk)
             q == Close(b, conf)
  <2>1. /\ phase = "read" /\ phase' = "name" /\ proc' = q /\ Available(proc) # {}
        /\ given' = given /\ inforce' = disk /\ zombies' = zombies
    BY <1>2 DEF ReadConfiguration, outside
  <2>2. /\ Kept(proc) /\ LoopLeft(proc) /\ given \in Given /\ disk \in Configs[given] /\ Discreet
    BY <2>1, KeptNow DEF DaemonInv, PhaseInv, TypeOK
  <2>3. conf \in Descriptors /\ proc.fds[conf] = "free" /\ conf # None /\ "conf" \in Kinds
    BY <2>1, LowestProperties, DescriptorNumbers DEF Kinds
  <2> HIDE DEF conf
  <2>4. /\ a \in Processes
        /\ a.fds[conf] = "conf"
        /\ \A m \in Descriptors \ {conf} : a.fds[m] = proc.fds[m]
        /\ a.file = proc.file /\ a.slog = proc.slog
        /\ Settings(a) = Settings(proc)
        /\ a.evt = proc.evt /\ a.sig = proc.sig
    BY <2>2, <2>3, SetKind DEF Settings, Kept
  <2> HIDE DEF a
  <2>5. LogRight(a) /\ SettingsRight(a)
    <3>1. SettingsRight(a)
      BY <2>2, <2>4, SameSettings DEF Kept, SettingsRight
    <3>2. LogRight(a)
      BY <2>2, <2>3, <2>4, DescriptorNumbers DEF LogRight, Kept
    <3> QED
      BY <3>1, <3>2
  <2>6. /\ b \in Processes
        /\ b.evt = a.evt /\ b.sig = a.sig
        /\ LogRight(b) /\ Closes(a, b)
        /\ SettingsRight(b) /\ Follows(b, disk)
    BY <2>2, <2>4, <2>5, AppliedDiscreet
  <2> HIDE DEF b
  <2>7. /\ q \in Processes
        /\ q.fds[conf] = "free"
        /\ \A m \in Descriptors \ {conf} : q.fds[m] = b.fds[m]
        /\ q.file = b.file /\ q.slog = b.slog
        /\ Settings(q) = Settings(b)
        /\ q.evt = b.evt /\ q.sig = b.sig
    BY <2>3, <2>6, CloseType DEF Settings
  <2> HIDE DEF q
  <2>8. b.fds[conf] = "conf"
    BY <2>3, <2>4, <2>6 DEF Closes, Logs
  <2>9. \A m \in Descriptors : q.fds[m] = proc.fds[m] \/ (proc.fds[m] \in Logs /\ q.fds[m] = "free")
    BY <2>3, <2>4, <2>6, <2>7 DEF Closes
  <2>10. SettingsRight(q) /\ Follows(q, disk)
    BY <2>6, <2>7, SameSettings DEF SettingsRight
  <2>11. LogRight(q)
    BY <2>3, <2>6, <2>7, <2>8, DescriptorNumbers DEF LogRight
  <2>12. LoopLeft(q)
    <3>1. \A m \in Descriptors : proc.fds[m] = "free" => q.fds[m] = "free"
      BY <2>9
    <3>2. NoLoop(q)
      BY <2>2, <2>9 DEF LoopLeft, NoLoop, Logs
    <3>3. q.evt = proc.evt /\ q.sig = proc.sig /\ proc.sig \in Descriptors \cup {None}
      BY <2>4, <2>6, <2>7, KeptNow
    <3> QED
      BY <2>2, <3>1, <3>2, <3>3 DEF LoopLeft
  <2>13. \A n \in Descriptors : q.fds[n] # "conf" /\ (proc.fds[n] = "pipe" => q.fds[n] = "pipe")
    BY <2>2, <2>9 DEF Kept, Logs
  <2>14. TypeOK'
    BY TypeStep DEF DaemonInv
  <2>15. zombies' \subseteq Commands'
    BY <2>1, <2>13 DEF DaemonInv, Commands
  <2>16. PhaseInv'
    BY <2>1, <2>12 DEF PhaseInv
  <2>17. SettingsInv'
    BY <2>1, <2>10 DEF SettingsInv, SettingsRight, Follows
  <2> QED
    BY <2>1, <2>2, <2>11, <2>13, <2>14, <2>15, <2>16, <2>17 DEF DaemonInv, LogRight
<1> QED
  BY <1>1, <1>2

LEMMA NamePidStep == DaemonInv /\ [Next]_vars /\ NamePid => DaemonInv'
<1> SUFFICES ASSUME DaemonInv, [Next]_vars, NamePid PROVE DaemonInv'
  OBVIOUS
<1>1. CASE Exit
  BY <1>1, ExitStep
<1>2. CASE ~Exit
  <2> DEFINE q == Said(proc, Debug)
  <2>1. /\ phase = "name" /\ phase' = "events" /\ proc' = q
        /\ given' = given /\ inforce' = inforce /\ zombies' = zombies
    BY <1>2 DEF NamePid, config, outside
  <2>2. /\ Kept(proc) /\ LoopLeft(proc) /\ given \in Drivers \cup {"none"} /\ Follows(proc, inforce)
        /\ proc.sig \in Descriptors \cup {None}
    BY <2>1, KeptNow, DaemonAssumption DEF DaemonInv, PhaseInv, SettingsInv
  <2>3. /\ Kept(q) /\ Follows(q, inforce)
        /\ q.evt = proc.evt /\ q.sig = proc.sig
        /\ \A n \in Descriptors : q.fds[n] = "pipe" <=> proc.fds[n] = "pipe"
    BY <2>2, MessageKept
  <2>4. \A n \in Descriptors : q.fds[n] = proc.fds[n]
    <3>1. CASE q = proc
      <4> HIDE DEF q
      <4> QED
        BY <3>1
    <3>2. CASE q # proc
      <4>1. ~(Debug > proc.level) /\ proc.driver # "default" /\ proc.level \in {Error, Notice, Debug}
        BY <2>2, <3>2 DEF Said, Kept, Processes, Error, Notice, Debug
      <4>2. ~(proc.level < Debug)
        BY <4>1 DEF Error, Notice, Debug
      <4>3. given = "none" /\ proc.driver # "syslog"
        BY <2>2, <4>1, <4>2 DEF Kept, SettingsRight, Drivers
      <4> QED
        BY <2>2, <4>3, DiscreetMessage DEF Kept, SettingsRight
    <3> QED
      BY <3>1, <3>2
  <2> HIDE DEF q
  <2>5. LoopLeft(q)
    BY <2>2, <2>3, <2>4 DEF LoopLeft, NoLoop
  <2>6. zombies' \subseteq Commands'
    BY <2>1, <2>3 DEF DaemonInv, Commands
  <2>7. PhaseInv'
    BY <2>1, <2>5 DEF PhaseInv
  <2> QED
    BY <2>1, <2>3, <2>6, <2>7, StepOf
<1> QED
  BY <1>1, <1>2

LEMMA EventsInitStep == DaemonInv /\ [Next]_vars /\ EventsInit => DaemonInv'
<1> SUFFICES ASSUME DaemonInv, [Next]_vars, EventsInit PROVE DaemonInv'
  OBVIOUS
<1>1. CASE Exit
  BY <1>1, ExitStep
<1>2. CASE ~Exit
  <2> DEFINE p == Close(proc, proc.evt)
             n == Lowest(proc)
             a == Set(proc, n, "inotify")
             b == [proc EXCEPT !.fds[n] = "inotify", !.evt = n]
             q == IF inforce.unwatchable THEN Said(b, Error) ELSE b
  <2>1. phase = "events"
    BY DEF EventsInit
  <2>2. /\ Kept(proc) /\ LoopLeft(proc) /\ given \in Given /\ Follows(proc, inforce)
        /\ proc.evt = None /\ proc.sig \in Descriptors \cup {None}
        /\ inforce \in Configs[given]
    BY <2>1, KeptNow DEF DaemonInv, PhaseInv, SettingsInv, LoopLeft, TypeOK
  <2>3. p = proc
    BY <2>2 DEF Close
  <2>4. /\ phase' = "signals" /\ proc' = q /\ Available(proc) # {}
        /\ given' = given /\ inforce' = inforce /\ zombies' = zombies
    BY <1>2, <2>3 DEF EventsInit, config, outside
  <2>5. /\ n \in Descriptors /\ proc.fds[n] = "free"
        /\ \A m \in Descriptors : proc.fds[m] = "free" => n <= m
    BY <2>4, LowestProperties DEF Available
  <2> HIDE DEF n
  <2>6. /\ Kept(a) /\ Follows(a, inforce)
        /\ a.fds[n] = "inotify" /\ a.sig = proc.sig
        /\ \A m \in Descriptors \ {n} : a.fds[m] = proc.fds[m]
    <3>1. /\ Kept(proc) /\ n \in Descriptors
          /\ proc.fds[n] \notin {"file", "syslog"}
          /\ "inotify" \in {"free", "inotify", "signals", "pipe"}
      BY <2>2, <2>5
    <3>2. /\ Kept(a) /\ a.evt = proc.evt /\ a.sig = proc.sig /\ a.fds[n] = "inotify"
          /\ \A m \in Descriptors \ {n} : a.fds[m] = proc.fds[m]
          /\ \A c : Follows(proc, c) => Follows(a, c)
      BY <3>1, SetKept
    <3> HIDE DEF a
    <3> QED
      BY <2>2, <3>2
  <2>7. /\ b \in Processes /\ b.evt = n /\ b.sig = a.sig /\ b.fds = a.fds
        /\ b.file = a.file /\ b.slog = a.slog /\ b.driver = a.driver /\ b.filename = a.filename
        /\ b.stayopen = a.stayopen /\ b.level = a.level
    BY <2>2, <2>5, <2>6 DEF Kept, Processes, Set
  <2> HIDE DEF a, b
  <2>8. Kept(b) /\ Follows(b, inforce)
    BY <2>6, <2>7 DEF Kept, LogRight, SettingsRight, Follows
  <2>9. HalfHeld(b)
    <3>1. \A m \in Descriptors : m < n => b.fds[m] # "free"
      <4> SUFFICES ASSUME NEW m \in Descriptors, m < n PROVE b.fds[m] # "free"
        OBVIOUS
      <4>1. m \in Nat /\ n \in Nat /\ ~(n <= m) /\ m # n
        BY <2>5, DescriptorNumbers
      <4> QED
        BY <2>5, <2>6, <2>7, <4>1
    <3>2. b.sig # None => b.fds[b.sig] = "free"
      <4> SUFFICES ASSUME b.sig # None PROVE b.fds[b.sig] = "free"
        OBVIOUS
      <4>1. b.sig \in Descriptors /\ proc.fds[b.sig] = "free"
        BY <2>2, <2>6, <2>7 DEF LoopLeft
      <4>2. PICK m \in Descriptors : m < b.sig /\ proc.fds[m] = "free"
        BY <2>2, <2>6, <2>7 DEF LoopLeft
      <4>3. n <= m
        BY <2>5, <4>2
      <4>4. n # b.sig
        BY <2>5, <4>1, <4>2, <4>3, DescriptorNumbers
      <4> QED
        BY <2>6, <2>7, <4>1, <4>4
    <3>3. \A m \in Descriptors : (b.fds[m] = "inotify" <=> m = n) /\ b.fds[m] # "signals"
      BY <2>2, <2>6, <2>7 DEF LoopLeft, NoLoop
    <3> QED
      BY <2>5, <2>7, <3>1, <3>2, <3>3 DEF HalfHeld
  <2>10. /\ Kept(q) /\ Follows(q, inforce) /\ q.evt = b.evt /\ q.sig = b.sig
         /\ \A m \in Descriptors : q.fds[m] = b.fds[m]
    <3>1. CASE ~inforce.unwatchable
      <4>1. q = b
        BY <3>1
      <4> HIDE DEF q
      <4> QED
        BY <2>8, <4>1
    <3>2. CASE inforce.unwatchable
      <4>1. q = Said(b, Error)
        BY <3>2
      <4>2. given = "default" \/ (given = "none" /\ inforce.driver \in {"default", "file"})
        BY <2>2, <3>2 DEF DaemonInv, Discreet
      <4>3. /\ Kept(q) /\ Follows(q, inforce) /\ q.evt = b.evt /\ q.sig = b.sig
        BY <2>8, <4>1, MessageKept
      <4>4. CASE b.driver = "default"
        <5>1. Said(b, Error) = b
          BY <4>4 DEF Said
        <5> HIDE DEF q
        <5> QED
          BY <4>1, <4>3, <5>1
      <4>5. CASE b.driver # "default"
        <5>1. given = "none" /\ inforce.driver \in {"default", "file"} /\ b.driver # "syslog"
          BY <2>8, <4>2, <4>5 DEF Kept, SettingsRight, Follows
        <5>2. ~b.stayopen /\ b.file = None /\ b \in Processes
          BY <2>8, <5>1 DEF Kept, SettingsRight
        <5>3. \A m \in Descriptors : Said(b, Error).fds[m] = b.fds[m]
          BY <5>1, <5>2, DiscreetMessage
        <5> HIDE DEF q
        <5> QED
          BY <4>1, <4>3, <5>3
      <4> QED
        BY <4>4, <4>5
    <3> QED
      BY <3>1, <3>2
  <2> HIDE DEF q
  <2>11. HalfHeld(q)
    BY <2>9, <2>10, <2>7, <2>6, <2>2 DEF HalfHeld
  <2>12. zombies' \subseteq Commands'
    BY <2>4, <2>5, <2>6, <2>7, <2>10 DEF DaemonInv, Commands
  <2>13. PhaseInv'
    BY <2>4, <2>11 DEF PhaseInv
  <2> QED
    BY <2>4, <2>10, <2>12, <2>13, StepOf
<1> QED
  BY <1>1, <1>2

LEMMA SignalInitStep == DaemonInv /\ [Next]_vars /\ SignalInit => DaemonInv'
<1> SUFFICES ASSUME DaemonInv, [Next]_vars, SignalInit PROVE DaemonInv'
  OBVIOUS
<1>1. CASE Exit
  BY <1>1, ExitStep
<1>2. CASE ~Exit
  <2> DEFINE p == Close(proc, proc.sig)
             n == Lowest(p)
             a == Set(p, n, "signals")
             q == [p EXCEPT !.fds[n] = "signals", !.sig = n]
  <2>1. /\ phase = "signals" /\ phase' = "serve" /\ proc' = q /\ Available(p) # {}
        /\ given' = given /\ inforce' = inforce /\ zombies' = zombies
    BY <1>2 DEF SignalInit, config
  <2>2. /\ Kept(proc) /\ HalfHeld(proc) /\ Follows(proc, inforce)
        /\ proc.sig \in Descriptors \cup {None}
    BY <2>1, KeptNow DEF DaemonInv, PhaseInv, SettingsInv
  <2>3. /\ Kept(p) /\ Follows(p, inforce) /\ p.evt = proc.evt
        /\ \A m \in Descriptors : p.fds[m] = proc.fds[m]
    <3>1. CASE proc.sig = None
      <4>1. p = proc
        BY <3>1 DEF Close
      <4> HIDE DEF p
      <4> QED
        BY <2>2, <4>1
    <3>2. CASE proc.sig # None
      <4>1. proc.sig \in Descriptors /\ proc.fds[proc.sig] = "free"
        BY <2>2, <3>2 DEF HalfHeld
      <4>2. proc.fds[proc.sig] \notin {"file", "syslog"}
        BY <4>1
      <4>3. /\ Kept(p) /\ \A c : Follows(proc, c) => Follows(p, c)
            /\ p.evt = proc.evt /\ p.fds[proc.sig] = "free"
            /\ \A m \in Descriptors \ {proc.sig} : p.fds[m] = proc.fds[m]
        BY <2>2, <4>1, <4>2, CloseKept
      <4> HIDE DEF p
      <4> QED
        BY <2>2, <4>1, <4>3
    <3> QED
      BY <3>1, <3>2
  <2>4. n \in Descriptors /\ p.fds[n] = "free"
    BY <2>1, LowestProperties
  <2> HIDE DEF p, n
  <2>5. /\ Kept(a) /\ Follows(a, inforce)
        /\ a.fds[n] = "signals" /\ a.evt = p.evt
        /\ \A m \in Descriptors \ {n} : a.fds[m] = p.fds[m]
    <3>1. /\ Kept(p) /\ n \in Descriptors
          /\ p.fds[n] \notin {"file", "syslog"}
          /\ "signals" \in {"free", "inotify", "signals", "pipe"}
      BY <2>3, <2>4
    <3>2. /\ Kept(a) /\ a.evt = p.evt /\ a.sig = p.sig /\ a.fds[n] = "signals"
          /\ \A m \in Descriptors \ {n} : a.fds[m] = p.fds[m]
          /\ \A c : Follows(p, c) => Follows(a, c)
      BY <3>1, SetKept
    <3> HIDE DEF a
    <3> QED
      BY <2>3, <3>2
  <2>6. /\ q \in Processes /\ q.sig = n /\ q.evt = a.evt /\ q.fds = a.fds
        /\ q.file = a.file /\ q.slog = a.slog /\ q.driver = a.driver /\ q.filename = a.filename
        /\ q.stayopen = a.stayopen /\ q.level = a.level
    BY <2>3, <2>4, <2>5 DEF Kept, Processes, Set
  <2> HIDE DEF a, q
  <2>7. Kept(q) /\ Follows(q, inforce)
    BY <2>5, <2>6 DEF Kept, LogRight, SettingsRight, Follows
  <2>8. LoopHeld(q)
    <3>1. q.evt = proc.evt /\ proc.evt \in Descriptors /\ proc.fds[proc.evt] = "inotify"
      BY <2>2, <2>3, <2>5, <2>6 DEF HalfHeld
    <3>2. ~(n < proc.evt) /\ n # proc.evt
      BY <2>2, <2>3, <2>4, <3>1 DEF HalfHeld
    <3>3. proc.evt < n
      BY <2>4, <3>1, <3>2, DescriptorNumbers
    <3>4. \A m \in Descriptors : /\ q.fds[m] = "inotify" <=> m = proc.evt
                                 /\ q.fds[m] = "signals" <=> m = n
      BY <2>2, <2>3, <2>5, <2>6, <3>1, <3>2 DEF HalfHeld
    <3> QED
      BY <2>4, <2>6, <3>1, <3>3, <3>4 DEF LoopHeld
  <2>9. zombies' \subseteq Commands'
    BY <2>1, <2>3, <2>4, <2>5, <2>6 DEF DaemonInv, Commands
  <2>10. PhaseInv'
    BY <2>1, <2>8 DEF PhaseInv
  <2> QED
    BY <2>1, <2>7, <2>9, <2>10, StepOf
<1> QED
  BY <1>1, <1>2

(* In the loop, a step that says something, or opens or closes a pipe.      *)
LEMMA LoopStep ==
  ASSUME DaemonInv, [Next]_vars, phase = "serve", phase' \in {"serve", "initialise"},
         UNCHANGED <<given, inforce>>,
         Kept(proc'), LoopHeld(proc'), Follows(proc', inforce),
         zombies' \subseteq Commands'
  PROVE  DaemonInv'
<1>1. PhaseInv'
  BY DEF PhaseInv, LoopHeld
<1> QED
  BY <1>1, StepOf

LEMMA LoopNow ==
  DaemonInv /\ phase = "serve" =>
    /\ Kept(proc) /\ LoopHeld(proc) /\ Follows(proc, inforce)
    /\ zombies \subseteq Commands
  BY KeptNow DEF DaemonInv, PhaseInv, SettingsInv

(* A message in the loop.                                                   *)
LEMMA SayStep ==
  ASSUME DaemonInv, [Next]_vars, phase = "serve", phase' \in {"serve", "initialise"},
         UNCHANGED <<given, inforce, zombies>>,
         NEW level, proc' = Said(proc, level)
  PROVE  DaemonInv'
<1>1. /\ Kept(proc') /\ LoopHeld(proc') /\ Follows(proc', inforce)
      /\ \A n \in Descriptors : proc'.fds[n] = "pipe" <=> proc.fds[n] = "pipe"
  BY LoopNow, MessageKept
<1>2. zombies' \subseteq Commands'
  BY <1>1, LoopNow DEF Commands
<1> QED
  BY <1>1, <1>2, LoopStep

(* The process stays as it is.                                              *)
LEMMA StillStep ==
  ASSUME DaemonInv, [Next]_vars, phase' = phase \/ phase' = "gone",
         UNCHANGED <<proc, given, inforce>>, zombies' \subseteq Commands
  PROVE  DaemonInv'
<1>1. zombies' \subseteq Commands'
  BY DEF Commands
<1>2. PhaseInv'
  BY DEF DaemonInv, PhaseInv
<1>3. phase' \in {"name", "events", "signals", "serve"} => Follows(proc', inforce)
  BY DEF DaemonInv, SettingsInv
<1> QED
  BY <1>1, <1>2, <1>3, KeptNow, StepOf

LEMMA ReadEventsStep == DaemonInv /\ [Next]_vars /\ ReadEvents => DaemonInv'
<1> SUFFICES ASSUME DaemonInv, [Next]_vars, ReadEvents PROVE DaemonInv'
  OBVIOUS
<1>1. /\ phase = "serve" /\ phase' = phase
      /\ given' = given /\ inforce' = inforce /\ zombies' = zombies
  BY DEF ReadEvents, DaemonInv, TypeOK, config
<1>2. CASE proc' = Said(proc, Debug)
  BY <1>1, <1>2, SayStep
<1>3. CASE proc' # Said(proc, Debug)
  <2> DEFINE n == Lowest(proc)
             a == Set(proc, n, "pipe")
             q == Said(a, Notice)
  <2>1. Available(proc) # {} /\ proc' = q
    BY <1>3 DEF ReadEvents, Set
  <2>2. n \in Descriptors /\ proc.fds[n] = "free"
    BY <2>1, LowestProperties
  <2> HIDE DEF n
  <2>3. /\ Kept(proc) /\ n \in Descriptors
        /\ proc.fds[n] \notin {"file", "syslog"}
        /\ "pipe" \in {"free", "inotify", "signals", "pipe"}
    BY <1>1, <2>2, LoopNow
  <2>4. /\ Kept(a) /\ a.evt = proc.evt /\ a.sig = proc.sig /\ a.fds[n] = "pipe"
        /\ \A m \in Descriptors \ {n} : a.fds[m] = proc.fds[m]
        /\ \A c : Follows(proc, c) => Follows(a, c)
    BY <2>3, SetKept
  <2> HIDE DEF a
  <2>5. LoopHeld(a)
    BY <1>1, <2>2, <2>4, LoopNow DEF LoopHeld
  <2>6. /\ Kept(q) /\ LoopHeld(q)
        /\ \A c : Follows(a, c) => Follows(q, c)
        /\ \A m \in Descriptors : q.fds[m] = "pipe" <=> a.fds[m] = "pipe"
    BY <2>4, <2>5, MessageKept
  <2> HIDE DEF q
  <2>7. zombies' \subseteq Commands'
    BY <1>1, <2>1, <2>4, <2>6, LoopNow DEF Commands
  <2>8. Follows(q, inforce)
    BY <1>1, <2>4, <2>6, LoopNow
  <2> QED
    BY <1>1, <2>1, <2>6, <2>7, <2>8, LoopStep
<1> QED
  BY <1>2, <1>3

LEMMA WaitStep ==
  ASSUME NEW n \in Descriptors, DaemonInv, [Next]_vars, Wait(n)
  PROVE  DaemonInv'
<1> DEFINE a == Close(proc, n)
           q == Said(a, Notice)
<1>1. /\ phase = "serve" /\ phase' = phase
      /\ given' = given /\ inforce' = inforce
      /\ n \in zombies /\ zombies' = zombies \ {n} /\ proc' = q
  BY DEF Wait, DaemonInv, TypeOK, config
<1>2. /\ Kept(proc) /\ LoopHeld(proc) /\ Follows(proc, inforce)
      /\ zombies \subseteq Commands
      /\ proc.fds[n] = "pipe"
  BY <1>1, LoopNow DEF Commands
<1>3. proc.fds[n] \notin {"file", "syslog"}
  BY <1>2
<1>4. /\ Kept(a)
      /\ a.evt = proc.evt /\ a.sig = proc.sig /\ a.fds[n] = "free"
      /\ \A m \in Descriptors \ {n} : a.fds[m] = proc.fds[m]
      /\ \A c : Follows(proc, c) => Follows(a, c)
  BY <1>2, <1>3, CloseKept
<1> HIDE DEF a
<1>5. LoopHeld(a)
  BY <1>2, <1>4 DEF LoopHeld
<1>6. /\ Kept(q) /\ LoopHeld(q)
      /\ \A c : Follows(a, c) => Follows(q, c)
      /\ \A m \in Descriptors : q.fds[m] = "pipe" <=> a.fds[m] = "pipe"
  BY <1>4, <1>5, MessageKept
<1> HIDE DEF q
<1>7. zombies' \subseteq Commands'
  BY <1>1, <1>2, <1>4, <1>6 DEF Commands
<1>8. Follows(q, inforce)
  BY <1>2, <1>4, <1>6
<1> QED
  BY <1>1, <1>6, <1>7, <1>8, LoopStep

LEMMA DaemonStep == DaemonInv /\ [Next]_vars => DaemonInv'
<1> SUFFICES ASSUME DaemonInv, [Next]_vars PROVE DaemonInv'
  OBVIOUS
<1>1. zombies \subseteq Commands /\ (ready # {} => phase = "serve")
  BY DEF DaemonInv, TypeOK
<1>2. CASE Poll
  BY <1>2, SayStep DEF Poll, config, outside
<1>3. CASE EventsDone
  <2>1. phase = "serve" /\ phase' = phase /\ UNCHANGED <<given, inforce, zombies>>
    BY <1>1, <1>3 DEF EventsDone, config, outside
  <2>2. CASE proc' = Said(proc, Error)
    BY <2>1, <2>2, SayStep
  <2>3. CASE proc' = proc
    BY <1>1, <2>1, <2>3, StillStep
  <2> QED
    BY <1>3, <2>2, <2>3 DEF EventsDone
<1>4. CASE Terminate
  BY <1>4, ExitStep DEF Terminate
<1>5. CASE Reload
  <2>1. phase = "serve" /\ phase' = "initialise" /\ UNCHANGED <<given, inforce, zombies>>
        /\ proc' = Said(proc, Notice)
    BY <1>1, <1>5 DEF Reload, Taking, config, outside
  <2> QED
    BY <2>1, SayStep
<1>6. CASE ChildSignal \/ WaitedAll \/ SignalsDone
  <2>1. phase' = phase /\ UNCHANGED <<proc, given, inforce, zombies>>
    BY <1>6 DEF ChildSignal, WaitedAll, SignalsDone, config, outside
  <2> QED
    BY <1>1, <2>1, StillStep
<1>7. CASE EventArrives \/ Edit \/ UNCHANGED vars
  <2>1. phase' = phase /\ UNCHANGED <<proc, given, inforce, zombies>>
    BY <1>7 DEF EventArrives, Edit, vars, daemon, config, outside
  <2> QED
    BY <1>1, <2>1, StillStep
<1>8. ASSUME NEW n \in Descriptors, CommandEnds(n)
      PROVE  DaemonInv'
  <2>1. phase' = phase /\ UNCHANGED <<proc, given, inforce>> /\ zombies' \subseteq Commands
    BY <1>1, <1>8 DEF CommandEnds, daemon, config
  <2> QED
    BY <2>1, StillStep
<1>9. ASSUME NEW s \in {"USR1", "TERM"}, Ask(s)
      PROVE  DaemonInv'
  <2>1. (phase' = phase \/ phase' = "gone") /\ UNCHANGED <<proc, given, inforce, zombies>>
    BY <1>9 DEF Ask, config, outside
  <2> QED
    BY <1>1, <2>1, StillStep
<1> QED
  BY <1>2, <1>3, <1>4, <1>5, <1>6, <1>7, <1>8, <1>9, StartStep, InitialiseStep,
     ReadConfigurationStep, NamePidStep, EventsInitStep, SignalInitStep, ReadEventsStep, WaitStep
  DEF Next, Step, Environment

LEMMA DaemonCorrect == Discreet /\ Spec => []DaemonInv
  BY DaemonInit, DaemonStep, PTL DEF Spec

-----------------------------------------------------------------------------
(***************************************************************************)
(* The theorems.                                                            *)
(***************************************************************************)
(* After any number of reloads the loop polls its one inotify instance and  *)
(* its one signal descriptor, and nothing that the log or a command opened  *)
(* is lost or taken for another's (ind_sign.c:62-80 and 149-158,            *)
(* ind_inot.c:173-194 and 297-307).                                         *)
THEOREM DescriptorsAlways == Discreet /\ Spec => []DescriptorsRight
<1>1. DaemonInv => DescriptorsRight
  <2> SUFFICES ASSUME DaemonInv, phase = "serve"
               PROVE  /\ Of("inotify") = {proc.evt}
                      /\ Of("signals") = {proc.sig}
                      /\ Of("conf") = {}
                      /\ Of("file") = {proc.file} \ {None}
                      /\ Of("syslog") = {proc.slog} \ {None}
                      /\ zombies \subseteq Commands
    BY DEF DescriptorsRight
  <2>1. /\ LogRight(proc) /\ LoopHeld(proc) /\ zombies \subseteq Commands
        /\ \A n \in Descriptors : proc.fds[n] # "conf"
        /\ proc.file \in Descriptors \cup {None} /\ proc.slog \in Descriptors \cup {None}
    BY DEF DaemonInv, PhaseInv, TypeOK, Processes
  <2>2. Of("inotify") = {proc.evt} /\ Of("signals") = {proc.sig} /\ Of("conf") = {}
    BY <2>1 DEF Of, LoopHeld
  <2>3. Of("file") = {proc.file} \ {None}
    BY <2>1, DescriptorNumbers DEF Of, LogRight
  <2>4. Of("syslog") = {proc.slog} \ {None}
    BY <2>1, DescriptorNumbers DEF Of, LogRight
  <2> QED
    BY <2>1, <2>2, <2>3, <2>4
<1> QED
  BY <1>1, DaemonCorrect, PTL

(* Whatever was configured before, messages go where the configuration in   *)
(* force says (ind_logg.c:209-221, ind_logg_file.c:67-205).                 *)
THEOREM LogAlwaysThere == Discreet /\ Spec => []LogWhereConfigured
<1>1. DaemonInv => LogWhereConfigured
  <2> SUFFICES ASSUME DaemonInv, phase = "serve", given = "none", inforce.driver # "none",
                      Available(proc) # {}
               PROVE  Reaches(proc) = IF inforce.driver = "file" THEN inforce.filename
                                      ELSE inforce.driver
    BY DEF LogWhereConfigured
  <2>1. /\ proc \in Processes /\ proc.file = None
        /\ proc.driver = inforce.driver
        /\ proc.driver = "file" => proc.filename = inforce.filename
    BY DEF DaemonInv, SettingsInv, SettingsRight, Follows, TypeOK
  <2>2. CASE proc.driver # "file"
    BY <2>1, <2>2 DEF Reaches
  <2>3. CASE proc.driver = "file"
    <3> DEFINE n == Lowest(proc)
               q == [proc EXCEPT !.file = n, !.fds[n] = "file", !.target = proc.filename]
    <3>1. DoOpen(proc) = q
      BY <2>1 DEF DoOpen
    <3>2. n \in Descriptors /\ n # None
      BY LowestProperties, DescriptorNumbers
    <3> HIDE DEF n
    <3>3. q.file = n /\ q.fds[n] = "file" /\ q.target = proc.filename
      BY <2>1, <3>2 DEF Processes
    <3> HIDE DEF q
    <3>4. Reaches(proc) = proc.filename
      BY <2>3, <3>1, <3>2, <3>3 DEF Reaches
    <3> QED
      BY <2>1, <2>3, <3>4
  <2> QED
    BY <2>2, <2>3
<1> QED
  BY <1>1, DaemonCorrect, PTL

(* No step takes the signals that wait, but the one that handles them.      *)
LEMMA KnownInit == Init => RequestKept /\ ChildrenKnown
  BY DEF Init, RequestKept, ChildrenKnown

LEMMA RequestStep == DaemonInv /\ RequestKept /\ [Next]_vars => RequestKept'
<1> SUFFICES ASSUME DaemonInv, RequestKept, [Next]_vars PROVE RequestKept'
  OBVIOUS
<1>1. /\ asked \in 0 .. edits /\ asked <= edits
      /\ ready # {} => phase = "serve"
  <2>1. asked \in 0 .. edits /\ edits \in 0 .. MaxEdits /\ MaxEdits \in Nat
    BY DaemonAssumption DEF DaemonInv, TypeOK
  <2> QED
    BY <2>1 DEF DaemonInv, TypeOK
<1>2. CASE Exit
  BY <1>2 DEF Exit, RequestKept
<1>3. CASE Start \/ Initialise
  BY <1>3 DEF Start, Initialise, RequestKept
<1>4. CASE ReadConfiguration /\ ~Exit
  <2>1. version' = edits /\ asked' = asked
    BY <1>4 DEF ReadConfiguration, signals
  <2> QED
    BY <1>1, <2>1 DEF RequestKept
<1>5. CASE (NamePid \/ EventsInit \/ SignalInit) /\ ~Exit
  <2>1. /\ phase \in {"name", "events", "signals"}
        /\ UNCHANGED <<pending, asked, version>>
    BY <1>5 DEF NamePid, EventsInit, SignalInit, signals, config
  <2> QED
    BY <2>1 DEF RequestKept
<1>6. CASE EventsDone
  <2>1. phase = "serve"
    BY <1>1, <1>6 DEF EventsDone
  <2>2. Is(proc.evt, "inotify") /\ ~Is(proc.evt, "signals")
    BY <2>1, LoopNow, DescriptorNumbers DEF LoopHeld, Is
  <2>3. pending' = pending /\ UNCHANGED <<phase, asked, version>>
    BY <1>6, <2>2 DEF EventsDone, config
  <2> QED
    BY <2>3 DEF RequestKept
<1>7. CASE Reload
  BY <1>7 DEF Reload, RequestKept
<1>8. CASE ChildSignal
  BY <1>8 DEF ChildSignal, Take, RequestKept, config
<1>9. CASE Poll \/ ReadEvents \/ WaitedAll \/ SignalsDone \/ EventArrives \/ Edit \/ UNCHANGED vars
  BY <1>9 DEF Poll, ReadEvents, WaitedAll, SignalsDone, EventArrives, Edit, vars, daemon, signals,
              config, RequestKept
<1>10. ASSUME NEW n \in Descriptors, Wait(n)
       PROVE  RequestKept'
  BY <1>10 DEF Wait, signals, config, RequestKept
<1>11. ASSUME NEW n \in Descriptors, CommandEnds(n)
       PROVE  RequestKept'
  BY <1>11 DEF CommandEnds, daemon, config, RequestKept
<1>12. ASSUME NEW s \in {"USR1", "TERM"}, Ask(s)
       PROVE  RequestKept'
  <2>1. CASE blocked
    <3>1. pending' = pending \cup {s} /\ phase' = phase /\ version' = version
          /\ asked' = IF s = "USR1" THEN edits ELSE asked
      BY <1>12, <2>1 DEF Ask, config
    <3> QED
      BY <3>1 DEF RequestKept
  <2>2. CASE ~blocked
    BY <1>12, <2>2 DEF Ask, RequestKept
  <2> QED
    BY <2>1, <2>2
<1> QED
  BY <1>2, <1>3, <1>4, <1>5, <1>6, <1>7, <1>8, <1>9, <1>10, <1>11, <1>12
  DEF Next, Step, Environment, Terminate

LEMMA ChildrenStep == DaemonInv /\ ChildrenKnown /\ [Next]_vars => ChildrenKnown'
<1> SUFFICES ASSUME DaemonInv, ChildrenKnown, [Next]_vars PROVE ChildrenKnown'
  OBVIOUS
<1>1. ready # {} => phase = "serve"
  BY DEF DaemonInv, TypeOK
<1>2. CASE Exit
  BY <1>2 DEF Exit, ChildrenKnown
<1>3. CASE (Start \/ Initialise \/ ReadConfiguration \/ NamePid \/ EventsInit) /\ ~Exit
  <2>1. /\ phase # "gone"
        /\ UNCHANGED <<pending, ready, zombies>>
    BY <1>3 DEF Start, Initialise, ReadConfiguration, NamePid, EventsInit, signals, outside
  <2> QED
    BY <2>1 DEF ChildrenKnown
<1>4. CASE SignalInit /\ ~Exit
  <2>1. phase = "signals" /\ ready = {} /\ UNCHANGED <<pending, zombies>>
    BY <1>1, <1>4 DEF SignalInit
  <2> QED
    BY <2>1 DEF ChildrenKnown
<1>5. CASE Poll
  BY <1>5 DEF Poll, signals, outside, ChildrenKnown
<1>6. CASE EventsDone
  <2>1. phase = "serve"
    BY <1>1, <1>6 DEF EventsDone
  <2>2. Is(proc.evt, "inotify") /\ ~Is(proc.evt, "signals")
    BY <2>1, LoopNow, DescriptorNumbers DEF LoopHeld, Is
  <2>3. pending' = pending /\ ready' = ready \ {"events"} /\ UNCHANGED <<phase, zombies>>
    BY <1>6, <2>2 DEF EventsDone, outside
  <2> QED
    BY <2>3 DEF ChildrenKnown
<1>7. CASE Reload
  <2>1. /\ "children" \notin ready /\ phase # "gone"
        /\ pending' = pending \ {"USR1"} /\ zombies' = zombies
    BY <1>1, <1>7 DEF Reload, Taking, Take, outside
  <2> QED
    BY <2>1 DEF ChildrenKnown
<1>8. CASE ChildSignal
  BY <1>8 DEF ChildSignal, ChildrenKnown
<1>9. ASSUME NEW n \in Descriptors, Wait(n)
      PROVE  ChildrenKnown'
  BY <1>9 DEF Wait, ChildrenKnown
<1>10. CASE WaitedAll
  BY <1>10 DEF WaitedAll, outside, ChildrenKnown
<1>11. CASE SignalsDone
  BY <1>11 DEF SignalsDone, signals, outside, ChildrenKnown
<1>12. CASE ReadEvents \/ EventArrives \/ Edit \/ UNCHANGED vars
  BY <1>12 DEF ReadEvents, EventArrives, Edit, vars, daemon, signals, outside, ChildrenKnown
<1>13. ASSUME NEW n \in Descriptors, CommandEnds(n)
       PROVE  ChildrenKnown'
  BY <1>13 DEF CommandEnds, ChildrenKnown
<1>14. ASSUME NEW s \in {"USR1", "TERM"}, Ask(s)
       PROVE  ChildrenKnown'
  BY <1>14 DEF Ask, outside, ChildrenKnown
<1> QED
  BY <1>2, <1>3, <1>4, <1>5, <1>6, <1>7, <1>8, <1>9, <1>10, <1>11, <1>12, <1>13, <1>14
  DEF Next, Step, Environment, Terminate

(* A reload that -R asked for stays asked for until the file is read again: *)
(* no step before that drops the signal, not even a reload that is under    *)
(* way (ind_main.c:236-278 and 467-480, ind_sign.c:86-109).                 *)
THEOREM RequestsKept == Discreet /\ Spec => []RequestKept
  BY KnownInit, DaemonCorrect, RequestStep, PTL DEF Spec

(* A command that ended is never forgotten: SIGCHLD is pending or the       *)
(* handler still waits (ind_sign.c:110-138).                                *)
THEOREM ChildrenAlwaysKnown == Discreet /\ Spec => []ChildrenKnown
  BY KnownInit, DaemonCorrect, ChildrenStep, PTL DEF Spec
=============================================================================
