------------------------------- MODULE LineReader -------------------------------
(***************************************************************************)
(* How ind_conf.c gets the lines of a configuration file: get_one_line,     *)
(* refill_buffer and readline over a buffer of BufSize bytes, and the loop  *)
(* of process_lines that takes one line after the other.                    *)
(*                                                                          *)
(* A byte is a newline, a blank, or a letter, which stands for all others.  *)
(* Lines are cut out of the buffer in place: the newline becomes a NUL, and *)
(* strtok_r puts a NUL behind the first word.  memcpy is taken to move      *)
(* bytes that overlap as memmove does, as it does in the C libraries the    *)
(* program is built with.  A read of a regular file is never short.         *)
(***************************************************************************)
EXTENDS Integers, Sequences, FiniteSets

CONSTANTS BufSize,       \* IN_BUFSIZE
          FileContents,  \* the files there may be
          MaxLines       \* bound: lines taken

Bytes == {"newline", "blank", "letter"}
Nul == "nul"
Garbage == "garbage"  \* a byte of the buffer that was never set

ASSUME LineReaderAssumption ==
  /\ BufSize \in Nat \ {0}
  /\ MaxLines \in Nat
  /\ FileContents \subseteq Seq(Bytes)

VARIABLES file,    \* the bytes of the file
          offset,  \* how many of them were read
          buffer,  \* ct_buffer
          bufpos,  \* ct_bufpos, as an index of the buffer
          buffre,  \* ct_buffre, as an index of the buffer
          lines,   \* the lines handed to the keyword functions
          step,    \* what readline does next
          status   \* what the last call returned

readerVars == <<file, offset, buffer, bufpos, buffre, lines, step, status>>

ReaderInit ==
  /\ file \in FileContents
  /\ offset = 0
  /\ buffer = [i \in 0 .. BufSize |-> Garbage]
  /\ bufpos = 0
  /\ buffre = 0
  /\ lines = <<>>
  /\ step = "line"
  /\ status = "ok"

-----------------------------------------------------------------------------
(* The string at index i: up to the first NUL.                              *)
StringEnd(b, i) ==
  CHOOSE j \in i .. BufSize :
    /\ b[j] = Nul \/ j = BufSize
    /\ \A k \in i .. j - 1 : b[k] # Nul

String(b, i) == [k \in 1 .. StringEnd(b, i) - i |-> b[i + k - 1]]

NewlineAt(i) ==
  /\ i \in bufpos .. buffre - 1
  /\ buffer[i] = "newline"
  /\ \A k \in bufpos .. i - 1 : buffer[k] # "newline"

NoNewline == \A i \in bufpos .. buffre - 1 : buffer[i] # "newline"

(* Leading blanks are skipped.                                              *)
LineStart(i) ==
  CHOOSE j \in bufpos .. i :
    /\ j = i \/ buffer[j] # "blank"
    /\ \A k \in bufpos .. j - 1 : buffer[k] = "blank"

(* strtok_r: the byte behind the first word becomes a NUL.                  *)
Cut(b, i) ==
  LET inword == {j \in i + 1 .. StringEnd(b, i) - 1 :
                   /\ b[j] = "blank"
                   /\ \E k \in i .. j - 1 : b[k] = "letter"}
  IN  IF inword = {} THEN b
      ELSE [b EXCEPT ![CHOOSE j \in inword : \A k \in inword : j <= k] = Nul]

(* Mistake: the position stays on the end of the line.                      *)
TakeLineStay ==
  \E i \in bufpos .. buffre - 1 :
    /\ NewlineAt(i)
    /\ LET b == [buffer EXCEPT ![i] = Nul] IN
         /\ lines' = Append(lines, String(b, LineStart(i)))
         /\ buffer' = buffer
    /\ bufpos' = i
    /\ UNCHANGED buffre

(* get_one_line finds a line, which process_lines looks at.                 *)
TakeLine ==
  \E i \in bufpos .. buffre - 1 :
    /\ NewlineAt(i)
    /\ LET b == [buffer EXCEPT ![i] = Nul] IN
         /\ lines' = Append(lines, String(b, LineStart(i)))
         /\ buffer' = Cut(b, LineStart(i))
    /\ bufpos' = i + 1
    /\ UNCHANGED buffre

GetOneLine ==
  /\ step = "line"
  /\ Len(lines) < MaxLines
  /\ \/ TakeLine /\ UNCHANGED step
     \/ NoNewline /\ step' = "refill" /\ UNCHANGED <<lines, buffer, bufpos, buffre>>
  /\ UNCHANGED <<file, offset, status>>

-----------------------------------------------------------------------------
(* refill_buffer: what is left is moved to the start and the rest of the    *)
(* buffer is filled.                                                        *)
Used == buffre - bufpos

(* Mistake: what is left is not moved.                                      *)
MovedNowhere == buffer

Moved == [i \in 0 .. BufSize |-> IF i < Used THEN buffer[bufpos + i] ELSE buffer[i]]

(* Mistake: a whole buffer is read behind what is left.                     *)
RoomUncounted == IF Len(file) - offset < BufSize THEN Len(file) - offset ELSE BufSize

Room == IF Len(file) - offset < BufSize - Used THEN Len(file) - offset ELSE BufSize - Used

Refill ==
  /\ step = "refill"
  /\ Room > 0
  /\ buffer' = [i \in 0 .. BufSize |->
                  IF i < Used THEN Moved[i]
                  ELSE IF i < Used + Room THEN file[offset + i - Used + 1]
                  ELSE IF i = Used + Room THEN Nul ELSE Moved[i]]
  /\ bufpos' = 0
  /\ buffre' = Used + Room
  /\ offset' = offset + Room
  /\ step' = "again"
  /\ UNCHANGED <<file, lines, status>>

(* The line is in the buffer now; if it still has no end, readline fails.   *)
GetAgain ==
  /\ step = "again"
  /\ \/ TakeLine /\ step' = "line" /\ UNCHANGED status
     \/ NoNewline /\ step' = "end" /\ status' = "too long" /\ UNCHANGED <<lines, buffer, bufpos, buffre>>
  /\ UNCHANGED <<file, offset>>

(* read returns 0.  With bytes left over, the string at the start of the    *)
(* buffer is handed over as a line, and stays in the buffer; no NUL is put  *)
(* behind the bytes left over.                                              *)
LeftOver ==
  /\ step = "refill"
  /\ Room = 0
  /\ Used > 0
  /\ lines' = Append(lines, String(Moved, 0))
  /\ buffer' = Cut(Moved, 0)
  /\ bufpos' = 0
  /\ buffre' = Used
  /\ step' = "line"
  /\ UNCHANGED <<file, offset, status>>

EndOfFile ==
  /\ step = "refill"
  /\ Room = 0
  /\ Used = 0
  /\ bufpos' = 0
  /\ buffre' = 0
  /\ step' = "end"
  /\ status' = "end of file"
  /\ UNCHANGED <<file, offset, buffer, lines>>

ReadFails ==
  /\ step = "refill"
  /\ buffer' = Moved
  /\ bufpos' = 0
  /\ buffre' = Used
  /\ step' = "end"
  /\ status' = "error"
  /\ UNCHANGED <<file, offset, lines>>

ReaderNext ==
  \/ GetOneLine \/ Refill \/ GetAgain \/ LeftOver \/ EndOfFile \/ ReadFails

ReaderSpec == ReaderInit /\ [][ReaderNext]_readerVars /\ WF_readerVars(ReaderNext)

-----------------------------------------------------------------------------
(* No byte is read or written outside ct_buffer, which has room for BufSize *)
(* bytes and a NUL (ind_conf.c:658-697).                                    *)
ReaderTypeOK ==
  /\ file \in FileContents
  /\ offset \in 0 .. Len(file)
  /\ buffer \in [0 .. BufSize -> Bytes \cup {Nul, Garbage}]
  /\ bufpos \in 0 .. buffre
  /\ buffre \in 0 .. BufSize
  /\ lines \in Seq(Seq(Bytes \cup {Garbage}))
  /\ step \in {"line", "refill", "again", "end"}
  /\ status \in {"ok", "too long", "end of file", "error"}

(* The lines of a file f by their definition: what is between two newlines, *)
(* without leading blanks.  Those that come before the first line that has  *)
(* no newline or does not fit in the buffer with its newline are regular.   *)
Newlines(f) == {i \in DOMAIN f : f[i] = "newline"}
NewlinesUpTo(f, i) == {j \in Newlines(f) : j <= i}
HowManyLines(f) == Cardinality(Newlines(f))
EndOfLine(f, n) == CHOOSE i \in Newlines(f) : Cardinality(NewlinesUpTo(f, i)) = n
BeginOfLine(f, n) == IF n = 1 THEN 1 ELSE EndOfLine(f, n - 1) + 1
Trimmed(f, n) ==
  LET first == CHOOSE i \in BeginOfLine(f, n) .. EndOfLine(f, n) :
                 /\ f[i] # "blank"
                 /\ \A j \in BeginOfLine(f, n) .. i - 1 : f[j] = "blank"
  IN  SubSeq(f, first, EndOfLine(f, n) - 1)
Regular(f, n) == \A m \in 1 .. n : EndOfLine(f, m) - BeginOfLine(f, m) < BufSize

(* The regular lines of any file are handed over as they are in the file,   *)
(* each once and in order, wherever the end of the buffer cuts them; none   *)
(* is missing when the reader stops by itself (ind_conf.c:631-723).         *)
RegularLinesRead ==
  \A n \in 1 .. HowManyLines(file) : Regular(file, n) =>
    /\ n <= Len(lines) => lines[n] = Trimmed(file, n)
    /\ step = "end" /\ status # "error" => n <= Len(lines)

(* A file all of whose lines are regular is read to its end: the reader     *)
(* stops, having handed over these lines and no other (ind_conf.c:735-768). *)
AllRegular ==
  /\ \A n \in 1 .. HowManyLines(file) : Regular(file, n)
  /\ Len(file) = 0 \/ file[Len(file)] = "newline"

ReadToTheEnd ==
  AllRegular ~> /\ step = "end"
                /\ status = "error" \/ Len(lines) = HowManyLines(file)
=============================================================================
