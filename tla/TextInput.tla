------------------------------ MODULE TextInput ------------------------------
(***************************************************************************)
(* TextInfile over Infile over IOBuffer (textinfile.cpp, infile.cpp,        *)
(* iobuffer.cpp, utilities.cpp): a text file that is read line by line      *)
(* through a buffer of fixed size.                                          *)
(*                                                                         *)
(* A line is put together of the pieces that successive buffers hold of it, *)
(* each appended by autoScaleAppend, which manages the capacity of the      *)
(* string by hand.  readLine() takes a step for each pass of its loop and   *)
(* one for each read; the caller opens, closes and reads in any order.      *)
(*                                                                         *)
(* The file is a regular one, so that a read returns what fits unless it    *)
(* fails.  EINTR is left out: both loops repeat the call without touching   *)
(* anything.  A character of a file is its own position, so that no two are *)
(* alike, or a newline.                                                     *)
(***************************************************************************)
EXTENDS Integers, Sequences, FiniteSetsExt

CONSTANTS
  Texts,      \* contents of the file
  MemSize,    \* size of the buffer                    (DEFAULT_BUFFER_SIZE)
  FirstCap,   \* capacity of an empty std::string      (15)
  MaxSize,    \* maxBufferSize
  SizeMax,    \* the largest size_t
  MaxOpens,   \* bound of the model: opens of the file
  MaxFails    \* bound of the model: calls of the system that fail

ASSUME SizeAssumption ==
  /\ Texts \subseteq Seq(Nat)
  /\ MemSize \in Nat \ {0} /\ FirstCap \in Nat
  /\ SizeMax \in Nat /\ MaxSize \in 0 .. SizeMax
  /\ MaxOpens \in Nat /\ MaxFails \in Nat

Newline == 0

VARIABLES
  file,     \* the file's content
  kpos,     \* the position of the kernel in it
  open,     \* whether fd # -1, in the Infile and in its IOBuffer
  buf,      \* the first memFill characters of the buffer
  pos,      \* inputPos
  line,     \* inputLine
  cap,      \* its capacity
  number,   \* inputLineNumber
  err,      \* err of the TextInfile
  pc,       \* "caller", or where readLine() is: "scan" or "read"
  result,   \* what the last call returned
  opens, fails  \* counters of the two bounds

vars == <<file, kpos, open, buf, pos, line, cap, number, err, pc, result, opens, fails>>

Init ==
  /\ file \in Texts /\ kpos = 0
  /\ open = FALSE /\ buf = <<>> /\ pos = 0
  /\ line = <<>> /\ cap = FirstCap /\ number = 1 /\ err = "none"
  /\ pc = "caller" /\ result = TRUE /\ opens = 0 /\ fails = 0

-----------------------------------------------------------------------------
(* The string.  reserve() and append() of the C++ library at least double   *)
(* the capacity when they have to grow.                                     *)

Larger(a, b) == IF a >= b THEN a ELSE b
Smaller(a, b) == IF a <= b THEN a ELSE b

Grown(c, n) == IF n <= c THEN c ELSE Larger(n, 2 * c)

\* Subtraction of size_t.
Minus(a, b) == (a - b) % (SizeMax + 1)

\* autoScaleAppend: how many of len characters are appended to a string of `siz`
\* characters, and the capacity that is reserved before.
AutoScale(siz, c, len) ==
  LET scaled == IF c <= MaxSize \div 3 THEN c * 3 ELSE MaxSize
      room   == Minus(MaxSize, siz)
      cut    == Smaller(len, room)
  IN  IF len <= c - siz THEN [len |-> len, reserve |-> c]
      ELSE IF len <= Minus(scaled, siz) THEN [len |-> len, reserve |-> scaled]
      ELSE IF cut = 0 THEN [len |-> 0, reserve |-> c]
      ELSE [len |-> cut, reserve |-> siz + cut]

Appended(chunk) ==
  LET a == AutoScale(Len(line), cap, Len(chunk))
  IN  /\ line' = line \o SubSeq(chunk, 1, a.len)
      /\ cap' = Grown(Grown(cap, a.reserve), Len(line) + a.len)

-----------------------------------------------------------------------------
(* IOBuffer::read. *)

\* What read() finds at position k of the file.
Chunk(k) == SubSeq(file, k + 1, Smaller(k + MemSize, Len(file)))

\* Mutant: the fill of the buffer is not set back when less is read.
ReadOk_KeepsFill(k) ==
  /\ buf' = Chunk(k) \o SubSeq(buf, Len(Chunk(k)) + 1, Len(buf))
  /\ kpos' = k + Len(Chunk(k))

ReadOk(k) == buf' = Chunk(k) /\ kpos' = k + Len(Chunk(k))

MayFail == fails < MaxFails /\ fails' = fails + 1

-----------------------------------------------------------------------------
(* Infile. *)

Return(r) == pc' = "caller" /\ result' = r

Open ==
  /\ pc = "caller" /\ opens < MaxOpens
  /\ opens' = opens + 1
  /\ UNCHANGED <<file, pos, line, cap, number>>
  /\ \/ /\ open
        /\ Return(TRUE) /\ UNCHANGED <<kpos, open, buf, err, fails>>
     \/ /\ ~open                        \* ::open fails
        /\ MayFail
        /\ Return(FALSE) /\ err' = "open" /\ UNCHANGED <<kpos, open, buf>>
     \/ /\ ~open                        \* the first read fails
        /\ MayFail
        /\ Return(FALSE) /\ err' = "read" /\ UNCHANGED <<kpos, open, buf>>
     \/ /\ ~open
        /\ ReadOk(0) /\ open' = TRUE /\ err' = "none"
        /\ Return(TRUE) /\ UNCHANGED fails

Close ==
  /\ pc = "caller"
  /\ open
  /\ open' = FALSE /\ err' = "none"
  /\ UNCHANGED <<file, kpos, buf, pos, line, cap, number, pc, result, opens, fails>>

\* getFilePos, which notes or clears an error; what it returns is left out.
FilePos ==
  /\ pc = "caller"
  /\ err' = IF open THEN "none" ELSE "badf"
  /\ UNCHANGED <<file, kpos, open, buf, pos, line, cap, number, pc, result, opens, fails>>

-----------------------------------------------------------------------------
(* TextInfile::readLine. *)

ReadLine ==
  /\ pc = "caller"
  /\ line' = <<>> /\ pc' = "scan"
  /\ UNCHANGED <<file, kpos, open, buf, pos, cap, number, err, result, opens, fails>>

\* The newlines that are still in the buffer.
Breaks == {k \in pos + 1 .. Len(buf) : buf[k] = Newline}

\* Mutant: the line replaces the piece of it that the last buffer held:
ScanNewline_Piece ==
  /\ pc = "scan" /\ Breaks # {}
  /\ line' = SubSeq(buf, pos + 1, Min(Breaks)) /\ UNCHANGED cap
  /\ pos' = Min(Breaks) /\ number' = number + 1
  /\ Return(TRUE)
  /\ UNCHANGED <<file, kpos, open, buf, err, opens, fails>>

\* The loop finds a newline ...
ScanNewline ==
  /\ pc = "scan" /\ Breaks # {}
  /\ Appended(SubSeq(buf, pos + 1, Min(Breaks)))
  /\ pos' = Min(Breaks) /\ number' = number + 1
  /\ Return(TRUE)
  /\ UNCHANGED <<file, kpos, open, buf, err, opens, fails>>

\* Mutant: the end of a full buffer is taken for the end of the file when nothing was
\* left in it.
ScanEnd_Early ==
  /\ pc = "scan" /\ Breaks = {}
  /\ IF pos < Len(buf)
     THEN Appended(SubSeq(buf, pos + 1, Len(buf))) /\ pos' = Len(buf)
     ELSE UNCHANGED <<line, cap, pos>>
  /\ IF Len(buf) < MemSize \/ pos = Len(buf) THEN Return(line' # <<>>)
     ELSE pc' = "read" /\ UNCHANGED result
  /\ UNCHANGED <<file, kpos, open, buf, number, err, opens, fails>>

\* Mutant: only an empty buffer ends the file, and nothing is read behind a short one.
ScanEnd_Waits ==
  /\ pc = "scan" /\ Breaks = {}
  /\ IF pos < Len(buf)
     THEN Appended(SubSeq(buf, pos + 1, Len(buf))) /\ pos' = Len(buf)
     ELSE UNCHANGED <<line, cap, pos>>
  /\ IF buf = <<>> THEN Return(line' # <<>>)
     ELSE pc' = (IF Len(buf) < MemSize THEN "scan" ELSE "read") /\ UNCHANGED result
  /\ UNCHANGED <<file, kpos, open, buf, number, err, opens, fails>>

\* ... or the end of the buffer; a buffer that is not full ends the file.
ScanEnd ==
  /\ pc = "scan" /\ Breaks = {}
  /\ IF pos < Len(buf)
     THEN Appended(SubSeq(buf, pos + 1, Len(buf))) /\ pos' = Len(buf)
     ELSE UNCHANGED <<line, cap, pos>>
  /\ IF Len(buf) < MemSize THEN Return(line' # <<>>)
     ELSE pc' = "read" /\ UNCHANGED result
  /\ UNCHANGED <<file, kpos, open, buf, number, err, opens, fails>>

\* ioBuffer.read() in the loop.
Refill ==
  /\ pc = "read" /\ UNCHANGED <<file, open, line, cap, number, opens>>
  /\ \/ /\ open
        /\ ReadOk(kpos) /\ pos' = 0 /\ pc' = "scan" /\ UNCHANGED <<result, err, fails>>
     \/ /\ open /\ MayFail
        /\ err' = "read" /\ Return(FALSE) /\ UNCHANGED <<kpos, buf, pos>>
     \/ /\ ~open                        \* the IOBuffer's descriptor is -1
        /\ err' = "badf" /\ Return(FALSE) /\ UNCHANGED <<kpos, buf, pos, fails>>

Step == ScanNewline \/ ScanEnd \/ Refill
Next == Open \/ Close \/ FilePos \/ ReadLine \/ Step

\* readLine() goes on once it is called.
Spec == Init /\ [][Next]_vars /\ WF_vars(Step)

-----------------------------------------------------------------------------
(* The state as lines still to come: the piece of the line that is being    *)
(* put together, the buffer, and the file if it can still be read.          *)

Ahead ==
  SubSeq(buf, pos + 1, Len(buf))
    \o (IF open THEN SubSeq(file, kpos + 1, Len(file)) ELSE <<>>)

Busy == pc # "caller"

Lines == INSTANCE LineReader
  WITH text <- file, busy <- Busy, answer <- result,
       error <- (err # "none"), used <- (pos # 0),
       line <- IF Busy THEN <<>> ELSE line,
       rest <- IF Busy THEN line \o Ahead ELSE Ahead

-----------------------------------------------------------------------------
(* Properties. *)

TypeOK ==
  /\ file \in Texts /\ kpos \in 0 .. Len(file)
  /\ open \in BOOLEAN /\ result \in BOOLEAN
  /\ buf \in Seq(Nat) /\ Len(buf) <= MemSize /\ pos \in 0 .. MemSize
  /\ line \in Seq(Nat) /\ Len(line) <= cap /\ cap \in Nat /\ number \in Nat \ {0}
  /\ err \in {"none", "open", "read", "badf"}
  /\ pc \in {"caller", "scan", "read"}
  /\ opens \in 0 .. MaxOpens /\ fails \in 0 .. MaxFails

(***************************************************************************)
(* While the file is open its buffer holds what lies in front of the        *)
(* kernel's position, however often the file was closed and opened before   *)
(* and whatever failed (infile.cpp, lines 35-68; textinfile.cpp, line 64).  *)
(***************************************************************************)
BufferIsFile == open => buf = SubSeq(file, kpos - Len(buf) + 1, kpos)

(***************************************************************************)
(* As long as maxBufferSize is at its default, the caller gets the lines of *)
(* the file, whole, in order and each once, with the right numbers, across  *)
(* the ends of buffers; FALSE at the end; after a failed read the rest of   *)
(* the line, and after a close what had been read ahead.  Where a second    *)
(* open starts is left open: the old position in the buffer is kept.        *)
(***************************************************************************)
DeliversLines == Lines!Spec

(***************************************************************************)
(* Every call of readLine() returns, at the end of the file too and when a  *)
(* file ends exactly at the end of a buffer.                                *)
(***************************************************************************)
ReadLineReturns == (pc # "caller") ~> (pc = "caller")

(***************************************************************************)
(* "If the memory size would exceed SIZE_MAX, the input to be appended is   *)
(* truncated as needed.  EDIT: I made the size maximum configurable."       *)
(* (utilities.cpp, lines 47-49): no line grows beyond the maximum.          *)
(***************************************************************************)
LineWithinMax == Len(line) <= MaxSize
=============================================================================
