------------------------------ MODULE OutputLines ------------------------------
(***************************************************************************)
(* cmd_do_log of ind_comm.c on the bytes of the packets of one pipe.        *)
(* Commands takes a packet to be a line or a part of one; here it holds any *)
(* number of newlines, and what lies behind it in rbuf, a local array that  *)
(* nobody clears, may be anything.  So may what lies behind rbuf: the loop  *)
(* can get there.  What it finds there is one byte or another; when it      *)
(* writes there, or takes a string there, anything may follow, and nothing  *)
(* more is said.                                                            *)
(*                                                                          *)
(* A byte that is no newline is told by its place in its packet.            *)
(***************************************************************************)
EXTENDS Naturals, Sequences

CONSTANT RbufSize  \* sizeof(rbuf), 256 in the code

ASSUME OutputLinesAssumption == RbufSize \in Nat \ {0}

Nul == 0
Newline == 10
Letter(i) == 100 + i
Stale == {Nul, Newline, Letter(0)}

BytePackets ==
  UNION {{p \in [1 .. n -> {Newline} \cup {Letter(i) : i \in 1 .. n}] :
            \A i \in 1 .. n : p[i] \in {Newline, Letter(i)}} : n \in 1 .. RbufSize - 1}

VARIABLES reading,    \* cmd_do_log is called
          nbrds,      \* turns its loop still takes
          rbuf,       \* what read gave, and what lies behind it
          strayed,    \* the call has written, or copied from, behind rbuf
          bstr, estr, \* where the line starts, and where the loop is
          buf,        \* bufE or bufS: the part of a line, kept between calls
          logged,     \* history: what this call has logged
          packet,     \* history: what it read
          behind,     \* history: what lay behind that in rbuf
          kept        \* history: buf when it was called

pointers == <<nbrds, bstr, estr>>
history == <<packet, behind, kept>>
logVars == <<reading, pointers, rbuf, strayed, buf, logged, history>>

LogInit ==
  /\ reading = FALSE
  /\ nbrds = 0
  /\ rbuf = <<>>
  /\ strayed = FALSE
  /\ bstr = 1 /\ estr = 1
  /\ buf = <<>>
  /\ logged = <<>>
  /\ packet = <<>>
  /\ behind = <<>>
  /\ kept = <<>>

(* The string that starts at index i.                                       *)
StringAt(mem, i) ==
  LET end == CHOOSE j \in i .. Len(mem) :
               mem[j] = Nul /\ \A k \in i .. j - 1 : mem[k] # Nul
  IN  SubSeq(mem, i, end - 1)

(* read of a byte less than rbuf has, and the NUL that is put behind what   *)
(* it gave.                                                                 *)
ReadPipe ==
  /\ ~reading /\ ~strayed
  /\ reading' = TRUE
  /\ packet' \in BytePackets
  /\ behind' \in [1 .. RbufSize - (Len(packet') + 1) -> Stale]
  /\ rbuf' = packet' \o <<Nul>> \o behind'
  /\ nbrds' = Len(packet')
  /\ bstr' = 1 /\ estr' = 1
  /\ kept' = buf
  /\ logged' = <<>>
  /\ UNCHANGED <<buf, strayed>>

(* Mistake: the next line starts where this one did.                        *)
EndLineFromTheStart ==
  /\ reading /\ nbrds > 0
  /\ estr <= RbufSize /\ rbuf[estr] = Newline
  /\ rbuf' = [rbuf EXCEPT ![estr] = Nul]
  /\ logged' = Append(logged, buf \o StringAt(rbuf', bstr))
  /\ buf' = <<>>
  /\ estr' = estr + 2
  /\ nbrds' = nbrds - 1
  /\ UNCHANGED <<reading, bstr, strayed, history>>

(* A turn that finds a newline.  The pointer moves twice, so that the byte  *)
(* behind the newline is not looked at, and nbrds once.                     *)
EndLine ==
  /\ reading /\ nbrds > 0
  /\ estr <= RbufSize /\ rbuf[estr] = Newline
  /\ rbuf' = [rbuf EXCEPT ![estr] = Nul]
  /\ logged' = Append(logged, buf \o StringAt(rbuf', bstr))
  /\ buf' = <<>>
  /\ bstr' = estr + 1
  /\ estr' = estr + 2
  /\ nbrds' = nbrds - 1
  /\ UNCHANGED <<reading, strayed, history>>

(* A turn that finds no newline, which may be behind rbuf.                  *)
NextByte ==
  /\ reading /\ nbrds > 0
  /\ estr <= RbufSize => rbuf[estr] # Newline
  /\ estr' = estr + 1
  /\ nbrds' = nbrds - 1
  /\ UNCHANGED <<reading, bstr, rbuf, strayed, buf, logged, history>>

StringEnds(mem, i) == \E j \in i .. Len(mem) : mem[j] = Nul

(* What is behind the last newline replaces what was kept.                  *)
Keep ==
  /\ reading /\ nbrds = 0
  /\ bstr < estr => StringEnds(rbuf, bstr)
  /\ reading' = FALSE
  /\ buf' = IF bstr < estr THEN StringAt(rbuf, bstr) ELSE buf
  /\ UNCHANGED <<pointers, rbuf, strayed, logged, history>>

(* A newline is found behind rbuf and a NUL written there, or the string    *)
(* that strcpy copies ends there.                                           *)
Stray ==
  /\ reading
  /\ \/ nbrds > 0 /\ estr > RbufSize
     \/ nbrds = 0 /\ bstr < estr /\ ~StringEnds(rbuf, bstr)
  /\ reading' = FALSE
  /\ strayed' = TRUE
  /\ UNCHANGED <<pointers, rbuf, buf, logged, history>>

LogNext == ReadPipe \/ EndLine \/ NextByte \/ Keep \/ Stray

LogSpec == LogInit /\ [][LogNext]_logVars

-----------------------------------------------------------------------------
(* The newlines of a packet at which the loop ends a line: each one but the *)
(* one right behind another that it ends a line at.                         *)
Newlines == {i \in DOMAIN packet : packet[i] = Newline}
CutAt(c, i) == \E k \in DOMAIN c : c[k] = i

Cuts ==
  {c \in UNION {[1 .. m -> Newlines] : m \in 0 .. Len(packet)} :
     /\ \A j, k \in DOMAIN c : j < k => c[j] < c[k]
     /\ \A i \in Newlines : CutAt(c, i) <=> ~CutAt(c, i - 1)}

(* The lines they make of the packet, the first one after what was kept,    *)
(* and what is left behind the last of them.                                *)
Begin(c, k) == IF k = 1 THEN 1 ELSE c[k - 1] + 1
LineOf(c, k) == (IF k = 1 THEN kept ELSE <<>>) \o SubSeq(packet, Begin(c, k), c[k] - 1)
Left(c) == SubSeq(packet, Begin(c, Len(c) + 1), Len(packet))

NewlineBehind == \E i \in DOMAIN behind : behind[i] = Newline
NoLetter(s) == \A i \in DOMAIN s : s[i] <= Letter(0)

(* The lines of a packet are logged whole and in their places, and what is  *)
(* left behind them comes next, as the part that is kept; it takes the      *)
(* place of what was kept before if the packet has no newline.  When a line *)
(* of the packet is empty, the newline that ends it is not looked at, and   *)
(* becomes the first byte of the next one.  No other line is logged when    *)
(* there is one newline at most, as Commands takes it, or when none lies    *)
(* behind the packet; otherwise the loop, which gets as far behind it as it *)
(* ended lines in it, logs what is left and then what it finds there, where *)
(* no letter of the packet is.  The call leaves rbuf, after all lines of    *)
(* the packet were logged, only when it ended two lines or more and either  *)
(* a newline lies behind the packet or the packet and as many bytes as it   *)
(* has such lines do not fit in rbuf (ind_comm.c:314-340).                  *)
LinesLogged ==
  ~reading =>
    \E c \in Cuts :
      /\ Len(c) <= Len(logged)
      /\ \A k \in 1 .. Len(c) : logged[k] = LineOf(c, k)
      /\ strayed => 1 < Len(c) /\ (NewlineBehind \/ RbufSize < Len(packet) + Len(c))
      /\ ~strayed =>
           LET all == Append(logged, buf) IN
           /\ all[Len(c) + 1] = Left(c)
           /\ \A k \in Len(c) + 2 .. Len(all) : NoLetter(all[k])
           /\ Len(c) <= 1 \/ ~NewlineBehind => Len(logged) = Len(c)
=============================================================================
