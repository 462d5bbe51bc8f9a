--------------------------- MODULE TextInputProofs ---------------------------
(***************************************************************************)
(* A text file read through a buffer, for every set of files, every size of *)
(* the buffer and of the string, and any number of opens and of failures:   *)
(* the buffer is a piece of the file, and the caller gets the file's lines  *)
(* (TextInput, LineReader).                                                 *)
(***************************************************************************)
EXTENDS TextInput, SequenceTheorems, WellFoundedInduction, TLAPS

\* What is left of the buffer, and of the file behind it.
Left == IF pos < Len(buf) THEN Len(buf) - pos ELSE 0
Behind == IF open THEN Len(file) - kpos ELSE 0

(* The inductive invariant. *)

\* The buffer of an open file is what lies in front of the kernel's position, and one that is
\* not full ends the file.
Window ==
  open => /\ Len(buf) <= kpos
          /\ \A i \in 1 .. Len(buf) : buf[i] = file[kpos - Len(buf) + i]
          /\ Len(buf) < MemSize => kpos = Len(file)

\* More is read only when the buffer is used up.
UsedUp == pc = "read" => Len(buf) <= pos

\* The piece of a line has no end yet.
Unbroken == Busy => \A i \in 1 .. Len(line) : line[i] # Newline

\* No line is longer than the file.
InFile == Len(buf) <= Len(file) /\ (Busy => Len(line) + Left + Behind <= Len(file))

Inv == TypeOK /\ Window /\ UsedUp /\ Unbroken /\ InFile

-----------------------------------------------------------------------------
(* The helpers. *)

\* A piece of a sequence.
LEMMA Piece ==
  ASSUME NEW s \in Seq(Nat), NEW m \in Nat \ {0}, NEW n \in 0 .. Len(s)
  PROVE  /\ SubSeq(s, m, n) \in Seq(Nat)
         /\ Len(SubSeq(s, m, n)) = IF m <= n THEN n - m + 1 ELSE 0
         /\ \A i \in 1 .. n - m + 1 : SubSeq(s, m, n)[i] = s[m + i - 1]
<1>1. m \in Int /\ n \in Int /\ \A i \in m .. n : s[i] \in Nat
  OBVIOUS
<1> QED
  BY <1>1, SubSeqProperties

\* What read() finds.
LEMMA ChunkFacts ==
  ASSUME TypeOK, NEW k \in 0 .. Len(file)
  PROVE  /\ Chunk(k) \in Seq(Nat) /\ Len(Chunk(k)) <= MemSize
         /\ k + Len(Chunk(k)) \in 0 .. Len(file)
         /\ Len(Chunk(k)) < MemSize => k + Len(Chunk(k)) = Len(file)
         /\ \A i \in 1 .. Len(Chunk(k)) : Chunk(k)[i] = file[k + i]
<1> DEFINE n == Smaller(k + MemSize, Len(file))
<1>1. file \in Seq(Nat) /\ Len(file) \in Nat /\ MemSize \in Nat \ {0}
  BY SizeAssumption DEF TypeOK
<1>2. k \in Nat /\ k + 1 \in Nat \ {0} /\ n \in 0 .. Len(file) /\ n \in Nat
  BY <1>1 DEF Smaller
<1>3. k <= n /\ n <= k + MemSize /\ (n < k + MemSize => n = Len(file))
  BY <1>1, <1>2 DEF Smaller
<1> HIDE DEF n
<1>4. /\ SubSeq(file, k + 1, n) \in Seq(Nat)
      /\ Len(SubSeq(file, k + 1, n)) = IF k + 1 <= n THEN n - (k + 1) + 1 ELSE 0
      /\ \A i \in 1 .. n - (k + 1) + 1 : SubSeq(file, k + 1, n)[i] = file[k + 1 + i - 1]
  BY <1>1, <1>2, Piece
<1>5. Chunk(k) = SubSeq(file, k + 1, n)
  BY DEF Chunk, n
<1>6. Len(Chunk(k)) = n - k
  BY <1>2, <1>3, <1>4, <1>5
<1>7. \A i \in 1 .. n - k : Chunk(k)[i] = file[k + i]
  BY <1>2, <1>4, <1>5
<1> QED
  BY <1>1, <1>2, <1>3, <1>4, <1>5, <1>6, <1>7

\* A subtraction of size_t is a size_t.
LEMMA MinusIsSize ==
  ASSUME NEW a \in Int, NEW b \in Int
  PROVE  Minus(a, b) \in 0 .. SizeMax
<1>1. SizeMax + 1 \in Nat /\ SizeMax + 1 > 0 /\ a - b \in Int
  BY SizeAssumption
<1> QED
  BY <1>1, SizeAssumption DEF Minus

\* How much of a piece is appended.
LEMMA AutoScaleFacts ==
  ASSUME NEW siz \in Nat, NEW c \in Nat, siz <= c, NEW len \in Nat
  PROVE  /\ AutoScale(siz, c, len).len \in 0 .. len
         /\ AutoScale(siz, c, len).reserve \in Nat
         /\ siz + len <= MaxSize => AutoScale(siz, c, len).len = len
<1> DEFINE scaled == IF c <= MaxSize \div 3 THEN c * 3 ELSE MaxSize
           room == Minus(MaxSize, siz)
           cut == Smaller(len, room)
<1>1. MaxSize \in Nat /\ scaled \in Nat /\ MaxSize <= SizeMax /\ SizeMax \in Nat
  BY SizeAssumption
<1>2. room \in Nat /\ Minus(scaled, siz) \in Nat
  <2>1. MaxSize \in Int /\ scaled \in Int /\ siz \in Int
    BY <1>1
  <2>2. room \in 0 .. SizeMax /\ Minus(scaled, siz) \in 0 .. SizeMax
    BY <2>1, MinusIsSize
  <2> QED
    BY <1>1, <2>2
<1>3. cut \in 0 .. len
  BY <1>2 DEF Smaller
<1>4. siz + len <= MaxSize => room = MaxSize - siz
  <2> SUFFICES ASSUME siz + len <= MaxSize PROVE room = MaxSize - siz
    OBVIOUS
  <2>1. MaxSize - siz \in Nat /\ MaxSize - siz < SizeMax + 1
    BY <1>1
  <2> QED
    BY <1>1, <2>1 DEF Minus
<1>5. siz + len <= MaxSize => cut = len
  BY <1>1, <1>2, <1>4 DEF Smaller
<1>6. AutoScale(siz, c, len) =
        IF len <= c - siz THEN [len |-> len, reserve |-> c]
        ELSE IF len <= Minus(scaled, siz) THEN [len |-> len, reserve |-> scaled]
        ELSE IF cut = 0 THEN [len |-> 0, reserve |-> c]
        ELSE [len |-> cut, reserve |-> siz + cut]
  BY DEF AutoScale
<1> HIDE DEF scaled, room, cut
<1>7. cut = 0 /\ ~(len <= c - siz) => len # 0
  OBVIOUS
<1> QED
  BY <1>1, <1>2, <1>3, <1>5, <1>6, <1>7

\* What a string grows to holds what it is grown for.
LEMMA GrownFacts ==
  ASSUME NEW c \in Nat, NEW n \in Nat
  PROVE  Grown(c, n) \in Nat /\ n <= Grown(c, n)
BY DEF Grown, Larger

\* What is appended to the line.
LEMMA AppendedFacts ==
  ASSUME TypeOK, NEW chunk \in Seq(Nat), Appended(chunk)
  PROVE  /\ line' \in Seq(Nat) /\ cap' \in Nat /\ Len(line') <= cap'
         /\ Len(line') \in Len(line) .. Len(line) + Len(chunk)
         /\ \A i \in 1 .. Len(line) : line'[i] = line[i]
         /\ \A i \in Len(line) + 1 .. Len(line') : line'[i] = chunk[i - Len(line)]
         /\ Len(line) + Len(chunk) <= MaxSize => Len(line') = Len(line) + Len(chunk)
<1>1. line \in Seq(Nat) /\ Len(line) \in Nat /\ Len(chunk) \in Nat /\ cap \in Nat /\ Len(line) <= cap
  BY DEF TypeOK
<1>2. PICK d \in 0 .. Len(chunk), r \in Nat :
        /\ line' = line \o SubSeq(chunk, 1, d)
        /\ cap' = Grown(Grown(cap, r), Len(line) + d)
        /\ Len(line) + Len(chunk) <= MaxSize => d = Len(chunk)
  <2> DEFINE a == AutoScale(Len(line), cap, Len(chunk))
  <2>1. /\ a.len \in 0 .. Len(chunk) /\ a.reserve \in Nat
        /\ Len(line) + Len(chunk) <= MaxSize => a.len = Len(chunk)
    BY <1>1, AutoScaleFacts
  <2>2. /\ line' = line \o SubSeq(chunk, 1, a.len)
        /\ cap' = Grown(Grown(cap, a.reserve), Len(line) + a.len)
    BY DEF Appended
  <2> HIDE DEF a
  <2> QED
    BY <2>1, <2>2
<1> DEFINE part == SubSeq(chunk, 1, d)
<1>3. d \in Nat /\ d <= Len(chunk)
  BY <1>1
<1>4. part \in Seq(Nat) /\ Len(part) = d /\ \A i \in 1 .. d : part[i] = chunk[i]
  <2>1. /\ part \in Seq(Nat) /\ Len(part) = IF 1 <= d THEN d - 1 + 1 ELSE 0
        /\ \A i \in 1 .. d - 1 + 1 : part[i] = chunk[1 + i - 1]
    BY Piece
  <2> HIDE DEF part
  <2> QED
    BY <1>3, <2>1
<1>5. Len(line) + Len(chunk) <= MaxSize => d = Len(chunk)
  BY <1>2
<1> HIDE DEF part
<1>6. cap' \in Nat /\ Len(line) + d <= cap'
  <2> DEFINE g == Grown(cap, r)  n == Len(line) + d
  <2>1. g \in Nat
    BY <1>1, GrownFacts
  <2>2. n \in Nat /\ cap' = Grown(g, n)
    BY <1>1, <1>2, <1>3
  <2> HIDE DEF g, n
  <2>3. cap' \in Nat /\ n <= cap'
    BY <2>1, <2>2, GrownFacts
  <2> QED
    BY <2>3 DEF n
<1>7. line' = line \o part
  BY <1>2 DEF part
<1>8. /\ line' \in Seq(Nat) /\ Len(line') = Len(line) + d
      /\ \A i \in 1 .. Len(line) + d :
           line'[i] = IF i <= Len(line) THEN line[i] ELSE part[i - Len(line)]
  BY <1>1, <1>4, <1>7, ConcatProperties
<1>9. ASSUME NEW i \in 1 .. Len(line)
      PROVE  line'[i] = line[i]
  <2>1. i \in 1 .. Len(line) + d /\ i <= Len(line)
    BY <1>1, <1>3
  <2> QED
    BY <1>8, <2>1
<1>10. ASSUME NEW i \in Len(line) + 1 .. Len(line')
       PROVE  line'[i] = chunk[i - Len(line)]
  <2>1. i \in 1 .. Len(line) + d /\ ~(i <= Len(line)) /\ i - Len(line) \in 1 .. d
    BY <1>1, <1>3, <1>8
  <2> QED
    BY <1>4, <1>8, <2>1
<1>11. Len(line') \in Len(line) .. Len(line) + Len(chunk) /\ Len(line') <= cap'
  BY <1>1, <1>3, <1>6, <1>8
<1>12. Len(line) + Len(chunk) <= MaxSize => Len(line') = Len(line) + Len(chunk)
  BY <1>5, <1>8
<1> QED
  BY <1>6, <1>8, <1>9, <1>10, <1>11, <1>12

\* A set of numbers that is not empty has a least one.
LEMMA LeastExists ==
  ASSUME NEW T, T \subseteq Nat, T # {}
  PROVE  \E x \in T : \A y \in T : x <= y
<1>1. PICK x \in T : \A y \in T : ~ (<<y, x>> \in OpToRel(<, Nat))
  BY WFMin, NatLessThanWellFounded, Zenon
<1>2. \A y \in T : ~ (y < x)
  BY <1>1, Zenon DEF OpToRel
<1> QED
  BY <1>2

\* The newline the loop finds is the first.
LEMMA MinIsLeast ==
  ASSUME NEW T, T \subseteq Nat, T # {}
  PROVE  Min(T) \in T /\ \A y \in T : Min(T) <= y
BY LeastExists DEF Min

-----------------------------------------------------------------------------
(* The invariant is inductive. *)

\* The typing facts the proofs use most.
LEMMA Types ==
  ASSUME TypeOK
  PROVE  /\ file \in Seq(Nat) /\ Len(file) \in Nat /\ kpos \in Nat /\ kpos <= Len(file)
         /\ buf \in Seq(Nat) /\ Len(buf) \in Nat /\ Len(buf) <= MemSize
         /\ pos \in Nat /\ pos <= MemSize /\ MemSize \in Nat \ {0}
         /\ line \in Seq(Nat) /\ Len(line) \in Nat /\ cap \in Nat /\ Len(line) <= cap
BY SizeAssumption DEF TypeOK

\* The invariant holds before the file is opened.
LEMMA InvInit ==
  ASSUME Init
  PROVE  Inv
<1>1. file \in Texts /\ file \in Seq(Nat) /\ Len(file) \in Nat
  BY SizeAssumption DEF Init
<1>2. <<>> \in Seq(Nat) /\ Len(<<>>) = 0
  OBVIOUS
<1>3. TypeOK
  <2>1. /\ kpos \in 0 .. Len(file) /\ cap \in Nat /\ number \in Nat \ {0}
        /\ opens \in 0 .. MaxOpens /\ fails \in 0 .. MaxFails /\ pos \in 0 .. MemSize
    BY <1>1, SizeAssumption DEF Init
  <2>2. /\ buf \in Seq(Nat) /\ Len(buf) <= MemSize /\ line \in Seq(Nat) /\ Len(line) <= cap
    BY <1>2, SizeAssumption DEF Init
  <2>3. /\ open \in BOOLEAN /\ result \in BOOLEAN /\ err \in {"none", "open", "read", "badf"}
        /\ pc \in {"caller", "scan", "read"}
    BY DEF Init
  <2> QED
    BY <1>1, <2>1, <2>2, <2>3 DEF TypeOK
<1> QED
  BY <1>1, <1>2, <1>3 DEF Init, Inv, Window, UsedUp, Unbroken, InFile, Busy

\* After a read of the file the buffer is a piece of it.
LEMMA ReadStep ==
  ASSUME TypeOK, NEW k \in 0 .. Len(file), ReadOk(k), file' = file
  PROVE  /\ buf' \in Seq(Nat) /\ Len(buf') \in Nat /\ Len(buf') <= MemSize
         /\ kpos' = k + Len(buf') /\ kpos' \in 0 .. Len(file)
         /\ Window'
<1>1. file \in Seq(Nat) /\ Len(file) \in Nat /\ k \in Nat
  BY Types
<1>2. buf' = Chunk(k) /\ kpos' = k + Len(Chunk(k))
  BY DEF ReadOk
<1>3. /\ buf' \in Seq(Nat) /\ Len(buf') <= MemSize /\ kpos' = k + Len(buf')
      /\ kpos' \in 0 .. Len(file)
      /\ Len(buf') < MemSize => kpos' = Len(file)
      /\ \A i \in 1 .. Len(buf') : buf'[i] = file[k + i]
  BY <1>2, ChunkFacts
<1>4. Len(buf') \in Nat
  BY <1>3
<1>5. \A i \in 1 .. Len(buf') : buf'[i] = file'[kpos' - Len(buf') + i]
  BY <1>1, <1>3, <1>4
<1> QED
  BY <1>1, <1>3, <1>4, <1>5 DEF Window

\* open() reads the first buffer, or leaves everything as it was.
LEMMA OpenStep ==
  ASSUME Inv, Open
  PROVE  Inv'
<1>1. TypeOK /\ pc = "caller" /\ pc' = "caller" /\ file' = file /\ pos' = pos /\ line' = line /\ cap' = cap
  BY DEF Open, Return, Inv
<1>2. opens' \in 0 .. MaxOpens
  BY <1>1, SizeAssumption DEF Open, TypeOK
<1>3. fails' \in 0 .. MaxFails
  <2>1. MayFail => fails' \in 0 .. MaxFails
    BY <1>1, SizeAssumption DEF MayFail, TypeOK
  <2>2. fails' = fails => fails' \in 0 .. MaxFails
    BY <1>1 DEF TypeOK
  <2> QED
    BY <2>1, <2>2 DEF Open
<1>4. result' \in BOOLEAN /\ err' \in {"none", "open", "read", "badf"} /\ open' \in BOOLEAN
  BY <1>1 DEF Open, Return, TypeOK
<1>5. CASE kpos' = kpos /\ open' = open /\ buf' = buf
  <2>1. TypeOK'
    BY <1>1, <1>2, <1>3, <1>4, <1>5 DEF TypeOK, Open
  <2> QED
    BY <1>1, <1>5, <2>1 DEF Inv, Window, UsedUp, Unbroken, InFile, Busy, Left, Behind
<1>6. CASE ReadOk(0) /\ open' = TRUE
  <2>1. 0 \in 0 .. Len(file)
    BY <1>1, Types
  <2>2. /\ buf' \in Seq(Nat) /\ Len(buf') \in Nat /\ Len(buf') <= MemSize
        /\ kpos' = 0 + Len(buf') /\ kpos' \in 0 .. Len(file) /\ Window'
    BY <1>1, <1>6, <2>1, ReadStep
  <2>3. TypeOK'
    BY <1>1, <1>2, <1>3, <1>4, <2>2 DEF TypeOK, Open
  <2>4. InFile'
    BY <1>1, <2>2, Types DEF InFile, Busy
  <2> QED
    BY <1>1, <2>2, <2>3, <2>4 DEF Inv, UsedUp, Unbroken, Busy
<1> QED
  BY <1>5, <1>6 DEF Open

\* A call of readLine() empties the line.
LEMMA ReadLineStep ==
  ASSUME Inv, ReadLine
  PROVE  Inv'
<1>1. /\ TypeOK /\ pc' = "scan" /\ line' = <<>> /\ file' = file /\ kpos' = kpos /\ open' = open
      /\ buf' = buf /\ pos' = pos /\ cap' = cap /\ number' = number /\ err' = err
      /\ result' = result /\ opens' = opens /\ fails' = fails
  BY DEF Inv, ReadLine
<1>2. line' \in Seq(Nat) /\ Len(line') = 0
  BY <1>1
<1>3. TypeOK'
  BY <1>1, <1>2 DEF TypeOK
<1>4. Left + Behind <= Len(file)
  BY <1>1, Types DEF Left, Behind, Inv, InFile, Window
<1>5. InFile'
  BY <1>1, <1>2, <1>4, Types DEF Inv, InFile, Left, Behind
<1> QED
  BY <1>1, <1>2, <1>3, <1>5 DEF Inv, Window, UsedUp, Unbroken

\* Close and FilePos change the descriptor and the error only.
LEMMA IdleStep ==
  ASSUME Inv, Close \/ FilePos
  PROVE  Inv'
<1>1. /\ pc = "caller" /\ (open' = FALSE \/ open' = open)
      /\ err' \in {"none", "badf"}
      /\ UNCHANGED <<file, kpos, buf, pos, line, cap, number, pc, result, opens, fails>>
  BY DEF Close, FilePos
<1>2. TypeOK'
  BY <1>1 DEF Inv, TypeOK
<1> QED
  BY <1>1, <1>2 DEF Inv, Window, UsedUp, Unbroken, InFile, Busy

\* A piece of the buffer becomes part of the line.
LEMMA TakeStep ==
  ASSUME Inv, Busy, NEW e \in pos + 1 .. Len(buf), Appended(SubSeq(buf, pos + 1, e)),
         pos' = e, UNCHANGED <<file, kpos, open, buf>>
  PROVE  /\ line' \in Seq(Nat) /\ cap' \in Nat /\ Len(line') <= cap'
         /\ Len(line') \in Len(line) .. Len(line) + (e - pos) /\ Len(line') \in Nat
         /\ InFile' /\ pos' \in 0 .. MemSize
         /\ \A i \in 1 .. Len(line) : line'[i] = line[i]
         /\ \A i \in Len(line) + 1 .. Len(line') : line'[i] = buf[pos + (i - Len(line))]
         /\ Len(line) + (e - pos) <= MaxSize => Len(line') = Len(line) + (e - pos)
<1> DEFINE chunk == SubSeq(buf, pos + 1, e)
<1>1. TypeOK /\ pos + 1 \in Nat \ {0} /\ e \in 0 .. Len(buf) /\ e \in Nat /\ e >= pos + 1
  BY Types DEF Inv
<1>2. /\ file \in Seq(Nat) /\ Len(file) \in Nat /\ kpos \in Nat /\ kpos <= Len(file)
      /\ buf \in Seq(Nat) /\ Len(buf) \in Nat /\ Len(buf) <= MemSize
      /\ pos \in Nat /\ pos <= MemSize /\ MemSize \in Nat \ {0}
      /\ line \in Seq(Nat) /\ Len(line) \in Nat
  BY <1>1, Types
<1>3. /\ chunk \in Seq(Nat)
      /\ Len(chunk) = IF pos + 1 <= e THEN e - (pos + 1) + 1 ELSE 0
      /\ \A i \in 1 .. e - (pos + 1) + 1 : chunk[i] = buf[pos + 1 + i - 1]
  BY <1>1, <1>2, Piece
<1> HIDE DEF chunk
<1>4. Len(chunk) = e - pos /\ \A i \in 1 .. e - pos : chunk[i] = buf[pos + i]
  BY <1>1, <1>2, <1>3
<1>5. /\ line' \in Seq(Nat) /\ cap' \in Nat /\ Len(line') <= cap'
      /\ Len(line') \in Len(line) .. Len(line) + Len(chunk)
      /\ \A i \in 1 .. Len(line) : line'[i] = line[i]
      /\ \A i \in Len(line) + 1 .. Len(line') : line'[i] = chunk[i - Len(line)]
      /\ Len(line) + Len(chunk) <= MaxSize => Len(line') = Len(line) + Len(chunk)
  BY <1>1, <1>3, AppendedFacts DEF chunk
<1>6. Len(line') \in Nat
  BY <1>5
<1>7. ASSUME NEW i \in Len(line) + 1 .. Len(line')
      PROVE  line'[i] = buf[pos + (i - Len(line))]
  <2>1. i - Len(line) \in 1 .. e - pos
    BY <1>1, <1>2, <1>4, <1>5, <1>6
  <2> QED
    BY <1>4, <1>5, <2>1
<1>8. Len(line) + Left + Behind <= Len(file) /\ Left = Len(buf) - pos /\ Len(buf) <= Len(file)
  BY <1>1, <1>2 DEF Inv, InFile, Left
<1>9. InFile'
  <2>1. Left' = Len(buf) - e /\ Behind' = Behind
    BY <1>1, <1>2 DEF Left, Behind
  <2>2. Behind \in Nat
    BY <1>2 DEF Behind
  <2>3. Len(line') + Left' + Behind' <= Len(file)
    BY <1>1, <1>2, <1>4, <1>5, <1>6, <1>8, <2>1, <2>2
  <2> QED
    BY <1>8, <2>3 DEF InFile
<1>10. pos' \in 0 .. MemSize
  BY <1>1, <1>2
<1> QED
  BY <1>4, <1>5, <1>6, <1>7, <1>9, <1>10 DEF chunk

\* The newlines are positions of the buffer behind the last one that was read.
LEMMA BreakFacts ==
  ASSUME TypeOK
  PROVE  /\ Breaks \subseteq pos + 1 .. Len(buf)
         /\ Breaks # {} => /\ Min(Breaks) \in pos + 1 .. Len(buf)
                           /\ buf[Min(Breaks)] = Newline
                           /\ \A k \in pos + 1 .. Min(Breaks) - 1 : buf[k] # Newline
         /\ Breaks = {} => \A k \in pos + 1 .. Len(buf) : buf[k] # Newline
<1>1. pos \in Nat /\ Len(buf) \in Nat
  BY Types
<1>2. Breaks \subseteq pos + 1 .. Len(buf) /\ Breaks \subseteq Nat
  BY <1>1 DEF Breaks
<1>3. Breaks = {} => \A k \in pos + 1 .. Len(buf) : buf[k] # Newline
  BY DEF Breaks
<1>4. ASSUME Breaks # {}
      PROVE  /\ Min(Breaks) \in Breaks /\ Min(Breaks) \in pos + 1 .. Len(buf)
             /\ \A y \in Breaks : Min(Breaks) <= y
  BY <1>2, <1>4, MinIsLeast
<1>5. ASSUME Breaks # {}
      PROVE  /\ buf[Min(Breaks)] = Newline
             /\ \A k \in pos + 1 .. Min(Breaks) - 1 : buf[k] # Newline
  <2>1. buf[Min(Breaks)] = Newline
    BY <1>4, <1>5 DEF Breaks
  <2>2. ASSUME NEW k \in pos + 1 .. Min(Breaks) - 1, buf[k] = Newline
        PROVE  FALSE
    <3>1. Min(Breaks) \in Nat /\ Min(Breaks) <= Len(buf)
      BY <1>1, <1>4, <1>5
    <3>2. k \in pos + 1 .. Len(buf) /\ ~(Min(Breaks) <= k)
      BY <1>1, <3>1
    <3>3. k \in Breaks
      BY <2>2, <3>2 DEF Breaks
    <3> QED
      BY <1>4, <1>5, <3>2, <3>3
  <2> QED
    BY <2>1, <2>2
<1> QED
  BY <1>2, <1>3, <1>4, <1>5

\* A line that ends in the buffer.
LEMMA ScanNewlineStep ==
  ASSUME Inv, ScanNewline
  PROVE  Inv'
<1> DEFINE e == Min(Breaks)
<1>1. /\ TypeOK /\ Busy /\ Breaks # {} /\ pc' = "caller"
      /\ UNCHANGED <<file, kpos, open, buf, err, opens, fails>>
      /\ number' = number + 1 /\ result' = TRUE
      /\ pos' = e /\ Appended(SubSeq(buf, pos + 1, e))
  BY DEF ScanNewline, Inv, Busy, Return
<1>2. e \in pos + 1 .. Len(buf)
  BY <1>1, BreakFacts
<1> HIDE DEF e
<1>3. /\ line' \in Seq(Nat) /\ cap' \in Nat /\ Len(line') <= cap'
      /\ InFile' /\ pos' \in 0 .. MemSize
  BY <1>1, <1>2, TakeStep
<1>4. TypeOK'
  BY <1>1, <1>3 DEF TypeOK
<1> QED
  BY <1>1, <1>3, <1>4 DEF Inv, Window, UsedUp, Unbroken, Busy

\* A line, or the file, that goes on behind the buffer.
LEMMA ScanEndStep ==
  ASSUME Inv, ScanEnd
  PROVE  Inv'
<1>1. /\ TypeOK /\ Busy /\ Breaks = {}
      /\ UNCHANGED <<file, kpos, open, buf, number, err, opens, fails>>
      /\ pc' \in {"caller", "read"} /\ result' \in BOOLEAN
  BY DEF ScanEnd, Inv, Busy, Return, TypeOK
<1>2. \A k \in pos + 1 .. Len(buf) : buf[k] # Newline
  BY <1>1, BreakFacts
<1>3. pos \in Nat /\ Len(buf) \in Nat /\ Len(line) \in Nat
  BY <1>1, Types
<1>4. CASE pos < Len(buf)
  <2> DEFINE e == Len(buf)
  <2>1. e \in pos + 1 .. Len(buf) /\ Appended(SubSeq(buf, pos + 1, e)) /\ pos' = e
    BY <1>3, <1>4 DEF ScanEnd
  <2> HIDE DEF e
  <2>2. /\ line' \in Seq(Nat) /\ cap' \in Nat /\ Len(line') <= cap' /\ Len(line') \in Nat
        /\ Len(line') \in Len(line) .. Len(line) + (e - pos)
        /\ InFile' /\ pos' \in 0 .. MemSize
        /\ \A i \in 1 .. Len(line) : line'[i] = line[i]
        /\ \A i \in Len(line) + 1 .. Len(line') : line'[i] = buf[pos + (i - Len(line))]
    BY <1>1, <2>1, TakeStep
  <2>3. TypeOK'
    BY <1>1, <2>2 DEF TypeOK
  <2>4. UsedUp'
    BY <1>1, <1>3, <2>1 DEF UsedUp, e
  <2>5. Unbroken'
    <3> SUFFICES ASSUME NEW i \in 1 .. Len(line') PROVE line'[i] # Newline
      BY DEF Unbroken
    <3>1. CASE i \in 1 .. Len(line)
      BY <1>1, <2>2, <3>1 DEF Inv, Unbroken
    <3>2. CASE i \in Len(line) + 1 .. Len(line')
      <4>1. pos + (i - Len(line)) \in pos + 1 .. Len(buf)
        BY <1>3, <2>1, <2>2, <3>2 DEF e
      <4> QED
        BY <1>2, <2>2, <3>2, <4>1
    <3> QED
      BY <1>3, <2>2, <3>1, <3>2
  <2> QED
    BY <1>1, <2>2, <2>3, <2>4, <2>5 DEF Inv, Window
<1>5. CASE ~(pos < Len(buf))
  <2>1. line' = line /\ cap' = cap /\ pos' = pos
    BY <1>5 DEF ScanEnd
  <2>2. TypeOK'
    BY <1>1, <2>1 DEF TypeOK
  <2> QED
    BY <1>1, <1>3, <1>5, <2>1, <2>2 DEF Inv, Window, UsedUp, Unbroken, InFile, Left, Behind
<1> QED
  BY <1>4, <1>5

\* A read in the middle of a line, which may fail.
LEMMA RefillStep ==
  ASSUME Inv, Refill
  PROVE  Inv'
<1>1. /\ TypeOK /\ Busy /\ pc = "read"
      /\ UNCHANGED <<file, open, line, cap, number, opens>>
  BY DEF Refill, Inv, Busy
<1>2. CASE open /\ ReadOk(kpos) /\ pos' = 0 /\ pc' = "scan" /\ UNCHANGED <<result, err, fails>>
  <2>1. kpos \in 0 .. Len(file)
    BY <1>1 DEF TypeOK
  <2>2. /\ buf' \in Seq(Nat) /\ Len(buf') \in Nat /\ Len(buf') <= MemSize
        /\ kpos' = kpos + Len(buf') /\ kpos' \in 0 .. Len(file) /\ Window'
    BY <1>1, <1>2, <2>1, ReadStep
  <2>3. TypeOK'
    BY <1>1, <1>2, <2>2, SizeAssumption DEF TypeOK
  <2>4. InFile'
    <3>1. Left' = Len(buf') /\ Behind' = Len(file) - kpos'
      BY <1>1, <1>2, <2>2 DEF Left, Behind
    <3>2. Left = 0 /\ Behind = Len(file) - kpos
      BY <1>1, <1>2, Types DEF Inv, UsedUp, Left, Behind
    <3>3. Len(line) + Left + Behind <= Len(file) /\ Len(buf') <= Len(file)
      BY <1>1, <2>2, Types DEF Inv, InFile
    <3> QED
      BY <1>1, <2>1, <2>2, <3>1, <3>2, <3>3, Types DEF InFile
  <2> QED
    BY <1>1, <1>2, <2>2, <2>3, <2>4 DEF Inv, UsedUp, Unbroken
<1>3. CASE /\ err' \in {"read", "badf"} /\ Return(FALSE) /\ UNCHANGED <<kpos, buf, pos>>
           /\ fails' \in 0 .. MaxFails
  <2>1. TypeOK'
    BY <1>1, <1>3 DEF TypeOK, Return
  <2> QED
    BY <1>1, <1>3, <2>1 DEF Inv, Window, UsedUp, Unbroken, InFile, Busy, Return
<1>4. MayFail => fails' \in 0 .. MaxFails
  BY <1>1, SizeAssumption DEF MayFail, TypeOK
<1>5. fails' = fails => fails' \in 0 .. MaxFails
  BY <1>1 DEF TypeOK
<1> QED
  BY <1>2, <1>3, <1>4, <1>5 DEF Refill

\* Every step preserves the invariant.
LEMMA InvNext ==
  ASSUME Inv, [Next]_vars
  PROVE  Inv'
<1>1. CASE UNCHANGED vars
  BY <1>1 DEF vars, Inv, TypeOK, Window, UsedUp, Unbroken, InFile, Busy, Left, Behind
<1> QED
  BY <1>1, OpenStep, IdleStep, ReadLineStep, ScanNewlineStep, ScanEndStep, RefillStep
  DEF Next, Step

\* The invariant holds in every reachable state.
LEMMA Invariant == Spec => []Inv
<1>1. Init => Inv
  BY InvInit
<1>2. Inv /\ [Next]_vars => Inv'
  BY InvNext
<1> QED
  BY <1>1, <1>2, PTL DEF Spec

\* The positions in the file and in the buffer stay within them, a string never holds more than
\* its capacity, and no counter or state leaves its range, for any file and any size of buffer
\* (textinfile.cpp, infile.cpp, iobuffer.cpp, utilities.cpp).
THEOREM TypeCorrect == Spec => []TypeOK
<1>1. Inv => TypeOK
  BY DEF Inv
<1> QED
  BY <1>1, Invariant, PTL

\* The buffer of an open file holds what lies in front of the kernel's position, however often
\* the file was opened and closed before and whatever failed (infile.cpp, lines 35-68).
THEOREM BufferTheorem == Spec => []BufferIsFile
<1>1. Inv => BufferIsFile
  <2> SUFFICES ASSUME Inv, open PROVE buf = SubSeq(file, kpos - Len(buf) + 1, kpos)
    BY DEF BufferIsFile
  <2> DEFINE m == kpos - Len(buf) + 1
             piece == SubSeq(file, m, kpos)
  <2>1. /\ file \in Seq(Nat) /\ Len(file) \in Nat /\ kpos \in 0 .. Len(file) /\ kpos \in Nat
        /\ buf \in Seq(Nat) /\ Len(buf) \in Nat /\ Len(buf) <= kpos
        /\ m \in Nat \ {0}
    BY Types DEF Inv, Window
  <2>2. /\ piece \in Seq(Nat) /\ Len(piece) = IF m <= kpos THEN kpos - m + 1 ELSE 0
        /\ \A i \in 1 .. kpos - m + 1 : piece[i] = file[m + i - 1]
    BY <2>1, Piece
  <2> HIDE DEF piece
  <2>3. Len(piece) = Len(buf) /\ \A i \in 1 .. Len(buf) : piece[i] = file[kpos - Len(buf) + i]
    <3>1. kpos - m + 1 = Len(buf) /\ \A i \in 1 .. Len(buf) : m + i - 1 = kpos - Len(buf) + i
      BY <2>1
    <3>2. Len(piece) = Len(buf)
      BY <2>1, <2>2
    <3> QED
      BY <2>2, <3>1, <3>2
  <2>4. \A i \in 1 .. Len(buf) : piece[i] = buf[i]
    BY <2>3 DEF Inv, Window
  <2>5. buf = piece
    BY <2>1, <2>2, <2>3, <2>4, SeqEqual
  <2> QED
    BY <2>5 DEF piece
<1> QED
  BY <1>1, Invariant, PTL

-----------------------------------------------------------------------------
(* The caller gets the lines of the file: every step of the text input is a *)
(* step of the LineReader, or none.                                         *)

(* What is still to be delivered, in three parts: what is held of the line  *)
(* that is being read, what is left of the buffer, and what is behind it in *)
(* the file.                                                                *)

Rest == IF Busy THEN line \o Ahead ELSE Ahead
Held == IF Busy THEN Len(line) ELSE 0

RestIs ==
  /\ Rest \in Seq(Nat) /\ Held \in Nat /\ Left \in Nat /\ Behind \in Nat
  /\ Len(Rest) = Held + Left + Behind
  /\ \A i \in 1 .. Held : Rest[i] = line[i]
  /\ \A i \in 1 .. Left : Rest[Held + i] = buf[pos + i]
  /\ \A i \in 1 .. Behind : Rest[Held + Left + i] = file[kpos + i]

\* The invariant gives the three parts, in this state ...
LEMMA RestNow == Inv => RestIs
<1> SUFFICES ASSUME Inv PROVE RestIs
  OBVIOUS
<1> DEFINE b == SubSeq(buf, pos + 1, Len(buf))
           f == IF open THEN SubSeq(file, kpos + 1, Len(file)) ELSE <<>>
<1>1. /\ file \in Seq(Nat) /\ Len(file) \in Nat /\ kpos \in Nat /\ kpos <= Len(file)
      /\ buf \in Seq(Nat) /\ Len(buf) \in Nat /\ pos \in Nat
      /\ line \in Seq(Nat) /\ Len(line) \in Nat
  BY Types DEF Inv
<1>2. Held \in Nat /\ Left \in Nat /\ Behind \in Nat
  BY <1>1 DEF Held, Left, Behind
<1>3. b \in Seq(Nat) /\ Len(b) = Left /\ \A i \in 1 .. Left : b[i] = buf[pos + i]
  <2>1. pos + 1 \in Nat \ {0} /\ Len(buf) \in 0 .. Len(buf)
    BY <1>1
  <2>2. /\ b \in Seq(Nat)
        /\ Len(b) = IF pos + 1 <= Len(buf) THEN Len(buf) - (pos + 1) + 1 ELSE 0
        /\ \A i \in 1 .. Len(buf) - (pos + 1) + 1 : b[i] = buf[pos + 1 + i - 1]
    BY <1>1, <2>1, Piece
  <2> HIDE DEF b
  <2>3. Len(b) = Left
    BY <1>1, <2>2 DEF Left
  <2>4. ASSUME NEW i \in 1 .. Left PROVE b[i] = buf[pos + i]
    <3>1. i \in 1 .. Len(buf) - (pos + 1) + 1 /\ pos + 1 + i - 1 = pos + i
      BY <1>1 DEF Left
    <3> QED
      BY <2>2, <3>1
  <2> QED
    BY <2>2, <2>3, <2>4
<1>4. f \in Seq(Nat) /\ Len(f) = Behind /\ \A i \in 1 .. Behind : f[i] = file[kpos + i]
  <2>1. CASE open
    <3> DEFINE g == SubSeq(file, kpos + 1, Len(file))
    <3>1. kpos + 1 \in Nat \ {0} /\ Len(file) \in 0 .. Len(file)
      BY <1>1
    <3>2. /\ g \in Seq(Nat)
          /\ Len(g) = IF kpos + 1 <= Len(file) THEN Len(file) - (kpos + 1) + 1 ELSE 0
          /\ \A i \in 1 .. Len(file) - (kpos + 1) + 1 : g[i] = file[kpos + 1 + i - 1]
      BY <1>1, <3>1, Piece
    <3>3. f = g
      BY <2>1
    <3> HIDE DEF g, f
    <3>4. Len(g) = Behind
      BY <1>1, <2>1, <3>2 DEF Behind
    <3>5. ASSUME NEW i \in 1 .. Behind PROVE g[i] = file[kpos + i]
      <4>1. i \in 1 .. Len(file) - (kpos + 1) + 1 /\ kpos + 1 + i - 1 = kpos + i
        BY <1>1, <2>1 DEF Behind
      <4> QED
        BY <3>2, <4>1
    <3> QED
      BY <3>2, <3>3, <3>4, <3>5
  <2>2. CASE ~open
    BY <2>2 DEF Behind
  <2> QED
    BY <2>1, <2>2
<1>5. Ahead = b \o f
  BY DEF Ahead
<1> HIDE DEF b, f
<1>6. /\ Ahead \in Seq(Nat) /\ Len(Ahead) = Left + Behind
      /\ \A i \in 1 .. Left + Behind : Ahead[i] = IF i <= Left THEN b[i] ELSE f[i - Left]
  <2>1. /\ b \o f \in Seq(Nat) /\ Len(b \o f) = Len(b) + Len(f)
        /\ \A i \in 1 .. Len(b) + Len(f) : (b \o f)[i] = IF i <= Len(b) THEN b[i] ELSE f[i - Len(b)]
    BY <1>3, <1>4, ConcatProperties
  <2> QED
    BY <1>3, <1>4, <1>5, <2>1
<1>7. /\ \A i \in 1 .. Left : Ahead[i] = buf[pos + i]
      /\ \A i \in 1 .. Behind : Ahead[Left + i] = file[kpos + i]
  <2>1. ASSUME NEW i \in 1 .. Left PROVE Ahead[i] = buf[pos + i]
    <3>1. i \in 1 .. Left + Behind /\ i <= Left
      BY <1>2
    <3> QED
      BY <1>3, <1>6, <3>1
  <2>2. ASSUME NEW i \in 1 .. Behind PROVE Ahead[Left + i] = file[kpos + i]
    <3> DEFINE j == Left + i
    <3>1. j \in 1 .. Left + Behind /\ ~(j <= Left) /\ j - Left = i
      BY <1>2
    <3> HIDE DEF j
    <3>2. Ahead[j] = file[kpos + i]
      BY <1>4, <1>6, <3>1
    <3> QED
      BY <3>2 DEF j
  <2> QED
    BY <2>1, <2>2
<1>8. CASE ~Busy
  <2>1. Rest = Ahead
    BY <1>8 DEF Rest
  <2>2. Held = 0
    BY <1>8 DEF Held
  <2>3. /\ 0 + Left + Behind = Left + Behind
        /\ \A i \in 1 .. Left : 0 + i = i
        /\ \A i \in 1 .. Behind : 0 + Left + i = Left + i
    BY <1>2
  <2> QED
    BY <1>2, <1>6, <1>7, <2>1, <2>2, <2>3 DEF RestIs
<1>9. CASE Busy
  <2>1. Rest = line \o Ahead /\ Held = Len(line)
    BY <1>9 DEF Rest, Held
  <2>2. /\ Rest \in Seq(Nat) /\ Len(Rest) = Len(line) + Len(Ahead)
        /\ \A i \in 1 .. Len(line) + Len(Ahead) :
             Rest[i] = IF i <= Len(line) THEN line[i] ELSE Ahead[i - Len(line)]
    BY <1>1, <1>6, <2>1, ConcatProperties
  <2>3. Len(Rest) = Held + Left + Behind /\ Len(Ahead) = Left + Behind
    BY <1>1, <1>2, <1>6, <2>1, <2>2
  <2>4. ASSUME NEW i \in 1 .. Held PROVE Rest[i] = line[i]
    <3>1. i \in 1 .. Len(line) + Len(Ahead) /\ i <= Len(line)
      <4>1. Len(Ahead) \in Nat /\ Len(line) \in Nat /\ Held = Len(line)
        BY <1>1, <1>2, <2>1, <2>3
      <4> QED
        BY <4>1
    <3> QED
      BY <2>2, <3>1
  <2>5. ASSUME NEW i \in 1 .. Left + Behind PROVE Rest[Held + i] = Ahead[i]
    <3> DEFINE j == Held + i
    <3>1. j \in 1 .. Len(line) + Len(Ahead) /\ ~(j <= Len(line)) /\ j - Len(line) = i
      BY <1>1, <1>2, <2>1, <2>3
    <3> HIDE DEF j
    <3>2. Rest[j] = Ahead[i]
      BY <2>2, <3>1
    <3> QED
      BY <3>2 DEF j
  <2>6. ASSUME NEW i \in 1 .. Left PROVE Rest[Held + i] = buf[pos + i]
    <3>1. i \in 1 .. Left + Behind
      BY <1>2
    <3> QED
      BY <1>7, <2>5, <3>1
  <2>7. ASSUME NEW i \in 1 .. Behind PROVE Rest[Held + Left + i] = file[kpos + i]
    <3>1. Left + i \in 1 .. Left + Behind /\ Held + (Left + i) = Held + Left + i
      BY <1>2
    <3> QED
      BY <1>7, <2>5, <3>1
  <2> QED
    BY <1>2, <2>2, <2>3, <2>4, <2>6, <2>7 DEF RestIs
<1> QED
  BY <1>8, <1>9

\* ... and in the next.
LEMMA RestNext == Inv' => RestIs'
BY RestNow, PTL

\* A sequence that agrees with the end of another is a suffix of it, and one that agrees with
\* its beginning a prefix.
LEMMA IsSuffix ==
  ASSUME NEW s \in Seq(Nat), NEW n \in 0 .. Len(s), NEW t \in Seq(Nat), Len(t) = Len(s) - n,
         \A i \in 1 .. Len(t) : t[i] = s[n + i]
  PROVE  t = Lines!From(s, n + 1)
<1> DEFINE u == SubSeq(s, n + 1, Len(s))
<1>1. n + 1 \in Nat \ {0} /\ Len(s) \in 0 .. Len(s) /\ n \in Nat /\ Len(s) \in Nat
  OBVIOUS
<1>2. /\ u \in Seq(Nat) /\ Len(u) = IF n + 1 <= Len(s) THEN Len(s) - (n + 1) + 1 ELSE 0
      /\ \A i \in 1 .. Len(s) - (n + 1) + 1 : u[i] = s[n + 1 + i - 1]
  BY <1>1, Piece
<1>3. u = Lines!From(s, n + 1)
  BY DEF Lines!From
<1> HIDE DEF u
<1>4. Len(u) = Len(t)
  BY <1>1, <1>2
<1>5. ASSUME NEW i \in 1 .. Len(t) PROVE t[i] = u[i]
  <2>1. i \in 1 .. Len(s) - (n + 1) + 1 /\ n + 1 + i - 1 = n + i
    BY <1>1
  <2> QED
    BY <1>2, <2>1
<1> QED
  BY <1>2, <1>3, <1>4, <1>5, SeqEqual

\* ... and one that agrees with its beginning a prefix.
LEMMA IsPrefix ==
  ASSUME NEW s \in Seq(Nat), NEW t \in Seq(Nat), Len(t) <= Len(s),
         \A i \in 1 .. Len(t) : t[i] = s[i]
  PROVE  t = SubSeq(s, 1, Len(t))
<1> DEFINE n == Len(t)  u == SubSeq(s, 1, n)
<1>1. n \in 0 .. Len(s) /\ n \in Nat
  OBVIOUS
<1>2. /\ u \in Seq(Nat) /\ Len(u) = IF 1 <= n THEN n - 1 + 1 ELSE 0
      /\ \A i \in 1 .. n - 1 + 1 : u[i] = s[1 + i - 1]
  BY <1>1, Piece
<1> HIDE DEF u
<1>3. Len(u) = n /\ \A i \in 1 .. n : u[i] = s[i]
  BY <1>1, <1>2
<1>4. t = u
  BY <1>2, <1>3, SeqEqual
<1> QED
  BY <1>4 DEF u

\* An open starts at the beginning of the file, or where the position left over from the
\* last reading is.
LEMMA OpenMaps ==
  ASSUME Inv, Inv', Open
  PROVE  Lines!Open
<1>1. /\ ~Busy /\ ~Busy' /\ file' = file /\ pos' = pos /\ line' = line /\ number' = number
      /\ result' \in BOOLEAN
  BY DEF Open, Return, Busy
<1>2. CASE UNCHANGED <<kpos, open, buf>>
  <2>1. Rest' = Rest
    BY <1>1, <1>2 DEF Rest, Ahead
  <2>2. \/ result' = TRUE /\ err' = err
        \/ result' = FALSE /\ err' # "none"
        \/ result' = TRUE /\ err' = "none"
    BY DEF Open, Return
  <2>3. (IF Busy THEN <<>> ELSE line)' = (IF Busy THEN <<>> ELSE line)
    BY <1>1
  <2>4. (pos # 0)' = (pos # 0) /\ Busy' = Busy
    BY <1>1 DEF Busy, Open, Return
  <2>5. /\ result' => (err # "none")' \in {err # "none", FALSE}
        /\ ~result' => (err # "none")' = TRUE
    BY <2>2
  <2> QED
    BY <1>1, <2>1, <2>3, <2>4, <2>5, Zenon DEF Lines!Open, Rest
<1>3. CASE ReadOk(0) /\ open' = TRUE /\ err' = "none" /\ Return(TRUE)
  <2>1. RestIs' /\ Inv /\ Inv'
    BY RestNext
  <2>2. /\ file \in Seq(Nat) /\ Len(file) \in Nat /\ pos \in Nat
    BY Types DEF Inv
  <2>3. /\ buf' \in Seq(Nat) /\ Len(buf') \in Nat /\ kpos' = Len(buf') /\ kpos' <= Len(file)
        /\ \A i \in 1 .. Len(buf') : buf'[i] = file[i]
    <3>1. TypeOK /\ 0 \in 0 .. Len(file)
      BY <2>2 DEF Inv
    <3>2. /\ buf' = Chunk(0) /\ kpos' = 0 + Len(Chunk(0))
      BY <1>3 DEF ReadOk
    <3>3. /\ Chunk(0) \in Seq(Nat) /\ 0 + Len(Chunk(0)) \in 0 .. Len(file)
          /\ \A i \in 1 .. Len(Chunk(0)) : Chunk(0)[i] = file[0 + i]
      BY <3>1, ChunkFacts
    <3> QED
      BY <2>2, <3>2, <3>3
  <2> DEFINE n == IF pos < Len(buf') THEN pos ELSE Len(buf')
  <2>4. Rest' = Lines!From(file, n + 1) /\ n \in 0 .. Len(file)
    <3>1. /\ Held' = 0 /\ Left' = Len(buf') - n /\ Behind' = Len(file) - Len(buf')
          /\ n \in 0 .. Len(file) /\ n <= Len(buf') /\ (Left' # 0 => n = pos)
      BY <1>1, <1>3, <2>2, <2>3 DEF Held, Left, Behind
    <3>2. /\ Rest' \in Seq(Nat) /\ Len(Rest') = Len(file) - n
          /\ \A i \in 1 .. Left' : Rest'[i] = buf'[pos + i]
          /\ \A i \in 1 .. Behind' : Rest'[Left' + i] = file[Len(buf') + i]
      <4>1. Len(Rest') = Held' + Left' + Behind' /\ Rest' \in Seq(Nat)
        BY <2>1 DEF RestIs
      <4>2. \A i \in 1 .. Left' : Rest'[0 + i] = buf'[pos' + i]
        BY <2>1, <3>1 DEF RestIs
      <4>3. \A i \in 1 .. Behind' : Rest'[0 + Left' + i] = file'[kpos' + i]
        BY <2>1, <3>1 DEF RestIs
      <4>4. /\ \A i \in 1 .. Left' : 0 + i = i
            /\ \A i \in 1 .. Behind' : 0 + Left' + i = Left' + i
        BY <2>2, <2>3, <3>1
      <4>5. Len(Rest') = Len(file) - n
        BY <2>2, <2>3, <3>1, <4>1
      <4> QED
        BY <1>1, <2>3, <4>1, <4>2, <4>3, <4>4, <4>5
    <3> HIDE DEF n
    <3>3. ASSUME NEW i \in 1 .. Len(Rest') PROVE Rest'[i] = file[n + i]
      <4>1. CASE i <= Left'
        <5>1. i \in 1 .. Left' /\ n = pos /\ pos + i \in 1 .. Len(buf')
          BY <2>2, <2>3, <3>1, <3>2, <4>1
        <5> QED
          BY <2>3, <3>2, <5>1
      <4>2. CASE ~(i <= Left')
        <5> DEFINE j == i - Left'
        <5>1. j \in 1 .. Behind' /\ Left' + j = i /\ Len(buf') + j = n + i
          BY <2>2, <2>3, <3>1, <3>2, <4>2
        <5> HIDE DEF j
        <5> QED
          BY <3>2, <5>1
      <4> QED
        BY <4>1, <4>2
    <3> QED
      BY <2>2, <3>1, <3>2, <3>3, IsSuffix
  <2>5. Rest' \in Lines!Suffixes(file)
    <3>1. n + 1 \in 1 .. Len(file) + 1
      BY <2>2, <2>4
    <3> QED
      BY <2>4, <3>1 DEF Lines!Suffixes
  <2>6. pos = 0 => Rest' = file
    <3> SUFFICES ASSUME pos = 0 PROVE Rest' = file
      OBVIOUS
    <3>1. n = 0 /\ n + 1 = 1
      BY <2>3
    <3> HIDE DEF n
    <3>2. Rest' = SubSeq(file, 1, Len(file))
      BY <2>4, <3>1 DEF Lines!From
    <3> QED
      BY <2>2, <3>2, SubSeqFull
  <2>7. result' = TRUE
    BY <1>3 DEF Return
  <2>8. (IF Busy THEN <<>> ELSE line)' = (IF Busy THEN <<>> ELSE line)
    BY <1>1
  <2>9. (pos # 0)' = (pos # 0) /\ Busy' = Busy
    BY <1>1 DEF Busy, Open, Return
  <2>10. (err # "none")' = FALSE
    BY <1>3
  <2>11. Rest' \in {Rest} \union (IF pos # 0 THEN Lines!Suffixes(file) ELSE {file})
    BY <2>5, <2>6
  <2> QED
    BY <1>1, <2>7, <2>8, <2>9, <2>10, <2>11, Zenon DEF Lines!Open, Rest
<1> QED
  BY <1>2, <1>3 DEF Open

\* After a close, what is left of the buffer is all that is left.
LEMMA CloseMaps ==
  ASSUME Inv, Inv', Close
  PROVE  Lines!Close
<1>1. /\ ~Busy /\ ~Busy' /\ UNCHANGED <<file, buf, pos, line, number, result>>
      /\ open' = FALSE /\ err' = "none"
  BY DEF Close, Busy
<1>2. RestIs /\ RestIs'
  BY RestNow, RestNext
<1>3. Held = 0 /\ Held' = 0 /\ Left' = Left /\ Behind' = 0
  BY <1>1 DEF Held, Left, Behind
<1>4. /\ Rest \in Seq(Nat) /\ Rest' \in Seq(Nat)
      /\ Len(Rest') = 0 + Left + 0 /\ Len(Rest) = 0 + Left + Behind /\ Left \in Nat /\ Behind \in Nat
      /\ \A i \in 1 .. Left : Rest'[0 + i] = buf[pos + i] /\ Rest[0 + i] = buf[pos + i]
  BY <1>1, <1>2, <1>3 DEF RestIs
<1>5. Len(Rest') <= Len(Rest) /\ \A i \in 1 .. Len(Rest') : Rest'[i] = Rest[i]
  <2>1. Len(Rest') = Left /\ Len(Rest') <= Len(Rest) /\ \A i \in 1 .. Left : 0 + i = i
    BY <1>4
  <2> QED
    BY <1>4, <2>1
<1>6. Rest' = SubSeq(Rest, 1, Len(Rest'))
  BY <1>4, <1>5, IsPrefix
<1>7. Rest' \in Lines!Prefixes(Rest)
  <2>1. Len(Rest') \in 0 .. Len(Rest)
    BY <1>4, <1>5
  <2> QED
    BY <1>6, <2>1 DEF Lines!Prefixes
<1>8. (IF Busy THEN <<>> ELSE line)' = (IF Busy THEN <<>> ELSE line)
  BY <1>1
<1>9. (pos # 0)' = (pos # 0) /\ Busy' = Busy /\ (err # "none")' = FALSE
  BY <1>1 DEF Busy, Close
<1> QED
  BY <1>1, <1>7, <1>8, <1>9, Zenon DEF Lines!Close, Rest

\* Asking for the position delivers nothing.
LEMMA FilePosMaps ==
  ASSUME FilePos
  PROVE  Lines!Tell
<1>1. /\ ~Busy /\ ~Busy' /\ UNCHANGED <<file, kpos, open, buf, pos, line, number, result>>
  BY DEF FilePos, Busy
<1>2. Rest' = Rest
  BY <1>1 DEF Rest, Ahead
<1>3. (IF Busy THEN <<>> ELSE line)' = (IF Busy THEN <<>> ELSE line)
  BY <1>1
<1>4. (pos # 0)' = (pos # 0) /\ Busy' = Busy /\ (err # "none")' \in BOOLEAN
  BY <1>1 DEF Busy, FilePos
<1> QED
  BY <1>1, <1>2, <1>3, <1>4, Zenon DEF Lines!Tell, Rest

\* A call asks for a line.
LEMMA ReadLineMaps ==
  ASSUME Inv, Inv', ReadLine
  PROVE  Lines!Ask
<1>1. /\ ~Busy /\ Busy' /\ UNCHANGED <<file, kpos, open, buf, pos, number, err, result>>
      /\ line' = <<>>
  BY DEF ReadLine, Busy
<1>2. RestIs /\ RestIs'
  BY RestNow, RestNext
<1>3. Rest' = Rest
  <2>1. Ahead' = Ahead /\ Rest = Ahead /\ Rest' = <<>> \o Ahead
    BY <1>1 DEF Rest, Ahead
  <2>2. Ahead \in Seq(Nat)
    BY <1>2, <2>1 DEF RestIs
  <2> QED
    BY <2>1, <2>2, ConcatEmptySeq
<1>4. (IF Busy THEN <<>> ELSE line)' = <<>>
  BY <1>1
<1>5. Busy' = TRUE /\ (err # "none")' = (err # "none") /\ (pos # 0)' = (pos # 0)
  BY <1>1
<1> QED
  BY <1>1, <1>3, <1>4, <1>5, Zenon DEF Lines!Ask, Rest

\* Files as long as the longest line that is not cut.
FilesFit == \A t \in Texts : Len(t) <= MaxSize

\* Positions in the third of three parts, and in the second of two.
LEMMA ThirdPart ==
  ASSUME NEW a \in Nat, NEW b \in Nat, NEW c \in Nat, NEW i \in 1 .. a + b + c, ~(i <= a + b)
  PROVE  i - (a + b) \in 1 .. c /\ a + b + (i - (a + b)) = i
OBVIOUS

\* ... and in the second of two.
LEMMA SecondPart ==
  ASSUME NEW n \in Nat, NEW a \in Nat, NEW c \in Nat, NEW i \in 1 .. a + c, ~(i <= a)
  PROVE  i - a \in 1 .. c /\ a + (i - a) = i /\ n + a + (i - a) = n + i
OBVIOUS

\* The line and what comes behind it make up what was to be delivered.
Splits ==
  /\ line' \in Seq(Nat) /\ Len(line') \in Nat /\ Left' \in Nat /\ Behind' \in Nat
  /\ Rest \in Seq(Nat) /\ Len(Rest) = Len(line') + Left' + Behind'
  /\ \A i \in 1 .. Len(line') : line'[i] = Rest[i]
  /\ \A i \in 1 .. Left' : buf'[pos' + i] = Rest[Len(line') + i]
  /\ \A i \in 1 .. Behind' : file'[kpos' + i] = Rest[Len(line') + Left' + i]

\* A piece of the buffer goes to the line.
LEMMA TakeSplits ==
  ASSUME Inv, Busy, FilesFit,
         NEW e \in pos + 1 .. Len(buf), Appended(SubSeq(buf, pos + 1, e)),
         pos' = e, UNCHANGED <<file, kpos, open, buf>>
  PROVE  Splits /\ Len(line') = Len(line) + (e - pos)
<1>1. RestIs /\ Held = Len(line)
  BY RestNow DEF Held
<1>2. /\ pos \in Nat /\ e \in Nat /\ Len(line) \in Nat /\ Len(buf) \in Nat /\ pos < e /\ e <= Len(buf)
      /\ kpos \in Nat /\ Len(file) \in Nat /\ kpos <= Len(file)
  BY Types DEF Inv
<1>3. /\ line' \in Seq(Nat) /\ Len(line') \in Nat
      /\ \A i \in 1 .. Len(line) : line'[i] = line[i]
      /\ \A i \in Len(line) + 1 .. Len(line') : line'[i] = buf[pos + (i - Len(line))]
      /\ Len(line) + (e - pos) <= MaxSize => Len(line') = Len(line) + (e - pos)
  BY TakeStep
<1>4. Left = Len(buf) - pos /\ Left' = Len(buf) - e /\ Behind' = Behind /\ Behind \in Nat
  BY <1>2 DEF Left, Behind
<1>5. Len(line') = Len(line) + (e - pos)
  <2>1. Len(line) + Left + Behind <= Len(file) /\ Len(file) <= MaxSize /\ MaxSize \in Nat
    BY SizeAssumption DEF Inv, InFile, FilesFit, TypeOK
  <2>2. Len(line) + (e - pos) <= MaxSize
    BY <1>2, <1>4, <2>1
  <2> QED
    BY <1>3, <2>2
<1>6. /\ Rest \in Seq(Nat) /\ Len(Rest) = Len(line) + Left + Behind
      /\ \A i \in 1 .. Len(line) : Rest[i] = line[i]
      /\ \A i \in 1 .. Left : Rest[Len(line) + i] = buf[pos + i]
      /\ \A i \in 1 .. Behind : Rest[Len(line) + Left + i] = file[kpos + i]
  BY <1>1 DEF RestIs
<1>7. ASSUME NEW i \in 1 .. Len(line') PROVE line'[i] = Rest[i]
  <2>1. CASE i <= Len(line)
    <3>1. i \in 1 .. Len(line)
      BY <1>2, <2>1
    <3> QED
      BY <1>3, <1>6, <3>1
  <2>2. CASE ~(i <= Len(line))
    <3> DEFINE j == i - Len(line)
    <3>1. i \in Len(line) + 1 .. Len(line') /\ j \in 1 .. Left /\ Len(line) + j = i
      BY <1>2, <1>3, <1>4, <1>5, <2>2
    <3>2. line'[i] = buf[pos + j]
      BY <1>3, <3>1
    <3> HIDE DEF j
    <3>3. Rest[Len(line) + j] = buf[pos + j]
      BY <1>6, <3>1
    <3> QED
      BY <3>1, <3>2, <3>3
  <2> QED
    BY <2>1, <2>2
<1>8. ASSUME NEW i \in 1 .. Left' PROVE buf'[pos' + i] = Rest[Len(line') + i]
  <2> DEFINE j == (e - pos) + i
  <2>1. j \in 1 .. Left /\ pos + j = e + i /\ Len(line) + j = Len(line') + i
    BY <1>2, <1>4, <1>5
  <2> HIDE DEF j
  <2>2. Rest[Len(line) + j] = buf[pos + j]
    BY <1>6, <2>1
  <2> QED
    BY <2>1, <2>2
<1>9. ASSUME NEW i \in 1 .. Behind' PROVE file'[kpos' + i] = Rest[Len(line') + Left' + i]
  <2>1. Len(line') + Left' + i = Len(line) + Left + i /\ i \in 1 .. Behind
    BY <1>2, <1>4, <1>5
  <2>2. Rest[Len(line) + Left + i] = file[kpos + i]
    BY <1>6, <2>1
  <2> QED
    BY <2>1, <2>2
<1>10. /\ Left' \in Nat /\ Behind' \in Nat
       /\ Len(Rest) = Len(line') + Left' + Behind'
  BY <1>2, <1>4, <1>5, <1>6
<1> QED
  BY <1>3, <1>5, <1>6, <1>7, <1>8, <1>9, <1>10 DEF Splits

\* Nothing goes to the line.
LEMMA StaySplits ==
  ASSUME Inv, Busy, line' = line, pos' = pos, UNCHANGED <<file, kpos, open, buf>>
  PROVE  Splits
<1>1. RestIs /\ Held = Len(line) /\ Left' = Left /\ Behind' = Behind
  BY RestNow DEF Held, Left, Behind
<1>2. line \in Seq(Nat) /\ Len(line) \in Nat
  BY Types DEF Inv
<1> QED
  BY <1>1, <1>2 DEF Splits, RestIs

\* While the line is not complete, nothing is delivered ...
LEMMA StillBusy ==
  ASSUME Inv', Splits, Busy'
  PROVE  Rest' = Rest
<1>1. RestIs' /\ Held' = Len(line')
  BY RestNext DEF Held
<1>2. /\ Rest' \in Seq(Nat) /\ Len(Rest') = Len(line') + Left' + Behind'
      /\ \A i \in 1 .. Len(line') : Rest'[i] = line'[i]
      /\ \A i \in 1 .. Left' : Rest'[Len(line') + i] = buf'[pos' + i]
      /\ \A i \in 1 .. Behind' : Rest'[Len(line') + Left' + i] = file'[kpos' + i]
  BY <1>1 DEF RestIs
<1>3. Rest \in Seq(Nat) /\ Len(Rest) = Len(Rest') /\ Len(line') \in Nat /\ Left' \in Nat /\ Behind' \in Nat
  BY <1>2 DEF Splits
<1>4. ASSUME NEW i \in 1 .. Len(Rest') PROVE Rest'[i] = Rest[i]
  <2>1. CASE i <= Len(line')
    <3>1. i \in 1 .. Len(line')
      BY <1>3, <2>1
    <3> QED
      BY <1>2, <3>1 DEF Splits
  <2>2. CASE ~(i <= Len(line')) /\ i <= Len(line') + Left'
    <3> DEFINE j == i - Len(line')
    <3>1. j \in 1 .. Left' /\ Len(line') + j = i
      BY <1>3, <2>2
    <3> HIDE DEF j
    <3>2. Rest'[Len(line') + j] = buf'[pos' + j] /\ Rest[Len(line') + j] = buf'[pos' + j]
      BY <1>2, <3>1 DEF Splits
    <3> QED
      BY <3>1, <3>2
  <2>3. CASE ~(i <= Len(line') + Left')
    <3> DEFINE j == i - (Len(line') + Left')
    <3>1. j \in 1 .. Behind' /\ Len(line') + Left' + j = i
      <4>1. i \in 1 .. Len(line') + Left' + Behind'
        BY <1>2
      <4>2. Len(line') \in Nat /\ Left' \in Nat /\ Behind' \in Nat
        BY <1>3
      <4> QED
        BY <2>3, <4>1, <4>2, ThirdPart
    <3> HIDE DEF j
    <3>2. /\ Rest'[Len(line') + Left' + j] = file'[kpos' + j]
          /\ Rest[Len(line') + Left' + j] = file'[kpos' + j]
      BY <1>2, <3>1 DEF Splits
    <3> QED
      BY <1>3, <3>1, <3>2
  <2> QED
    BY <2>1, <2>2, <2>3
<1> QED
  BY <1>2, <1>3, <1>4, SeqEqual

\* ... and when it is, it is the beginning of what was to be delivered, and the rest
\* is left.
LEMMA NowIdle ==
  ASSUME Inv', Splits, ~Busy'
  PROVE  /\ line' = SubSeq(Rest, 1, Len(line'))
         /\ Rest' = Lines!From(Rest, Len(line') + 1)
         /\ Len(line') <= Len(Rest)
<1>1. RestIs' /\ Held' = 0
  BY RestNext DEF Held
<1>2. /\ line' \in Seq(Nat) /\ Len(line') \in Nat /\ Left' \in Nat /\ Behind' \in Nat
      /\ Rest \in Seq(Nat) /\ Len(Rest) = Len(line') + Left' + Behind'
  BY DEF Splits
<1>3. /\ Rest' \in Seq(Nat) /\ Len(Rest') = Left' + Behind'
      /\ \A i \in 1 .. Left' : Rest'[i] = buf'[pos' + i]
      /\ \A i \in 1 .. Behind' : Rest'[Left' + i] = file'[kpos' + i]
  <2>1. /\ Rest' \in Seq(Nat) /\ Len(Rest') = 0 + Left' + Behind'
        /\ \A i \in 1 .. Left' : Rest'[0 + i] = buf'[pos' + i]
        /\ \A i \in 1 .. Behind' : Rest'[0 + Left' + i] = file'[kpos' + i]
    BY <1>1 DEF RestIs
  <2>2. /\ 0 + Left' + Behind' = Left' + Behind'
        /\ \A i \in 1 .. Left' : 0 + i = i
        /\ \A i \in 1 .. Behind' : 0 + Left' + i = Left' + i
    BY <1>2
  <2> QED
    BY <2>1, <2>2
<1>4. Len(line') <= Len(Rest) /\ Len(line') \in 0 .. Len(Rest) /\ Len(Rest') = Len(Rest) - Len(line')
  BY <1>2, <1>3
<1>5. line' = SubSeq(Rest, 1, Len(line'))
  BY <1>2, <1>4, IsPrefix DEF Splits
<1>6. ASSUME NEW i \in 1 .. Len(Rest') PROVE Rest'[i] = Rest[Len(line') + i]
  <2>1. CASE i <= Left'
    <3>1. i \in 1 .. Left'
      BY <1>2, <2>1
    <3> QED
      BY <1>3, <3>1 DEF Splits
  <2>2. CASE ~(i <= Left')
    <3> DEFINE j == i - Left'
    <3>1. j \in 1 .. Behind' /\ Left' + j = i /\ Len(line') + Left' + j = Len(line') + i
      <4>1. i \in 1 .. Left' + Behind'
        BY <1>3
      <4> QED
        BY <1>2, <2>2, <4>1, SecondPart
    <3> HIDE DEF j
    <3>2. Rest'[Left' + j] = file'[kpos' + j] /\ Rest[Len(line') + Left' + j] = file'[kpos' + j]
      BY <1>3, <3>1 DEF Splits
    <3> QED
      BY <3>1, <3>2
  <2> QED
    BY <2>1, <2>2
<1>7. Rest' = Lines!From(Rest, Len(line') + 1)
  BY <1>2, <1>3, <1>4, <1>6, IsSuffix
<1> QED
  BY <1>4, <1>5, <1>7

\* A newline in the buffer is the first newline of what was to be delivered.
LEMMA ScanNewlineMaps ==
  ASSUME Inv, Inv', FilesFit, ScanNewline
  PROVE  Lines!Deliver
<1> DEFINE e == Min(Breaks)
<1>1. /\ Busy /\ ~Busy' /\ Breaks # {} /\ result' = TRUE
      /\ UNCHANGED <<file, kpos, open, buf, err>> /\ number' = number + 1
      /\ pos' = e /\ Appended(SubSeq(buf, pos + 1, e))
  BY DEF ScanNewline, Busy, Return
<1>2. /\ e \in pos + 1 .. Len(buf) /\ buf[e] = Newline
      /\ \A k \in pos + 1 .. e - 1 : buf[k] # Newline
  BY <1>1, BreakFacts DEF Inv
<1> HIDE DEF e
<1>3. Splits /\ Len(line') = Len(line) + (e - pos)
  BY <1>1, <1>2, TakeSplits
<1>4. /\ line' = SubSeq(Rest, 1, Len(line')) /\ Rest' = Lines!From(Rest, Len(line') + 1)
      /\ Len(line') <= Len(Rest)
  BY <1>1, <1>3, NowIdle
<1>5. /\ pos \in Nat /\ e \in Nat /\ Len(line) \in Nat /\ pos < e /\ e <= Len(buf)
      /\ Len(buf) \in Nat /\ Left = Len(buf) - pos
      /\ Rest \in Seq(Nat) /\ Len(Rest) \in Nat /\ Len(line') \in Nat /\ Held = Len(line)
  <2>1. /\ pos \in Nat /\ Len(line) \in Nat /\ Len(buf) \in Nat
    BY Types DEF Inv
  <2>2. Rest \in Seq(Nat) /\ Len(Rest) \in Nat /\ Len(line') \in Nat
    BY <1>3 DEF Splits
  <2>3. e \in Nat /\ pos < e /\ e <= Len(buf)
    BY <1>2, <2>1
  <2>4. Left = Len(buf) - pos
    BY <2>1, <2>3 DEF Left
  <2>5. Held = Len(line)
    BY <1>1 DEF Held
  <2> QED
    BY <2>1, <2>2, <2>3, <2>4, <2>5
<1>6. /\ \A i \in 1 .. Len(line) : Rest[i] # Newline
      /\ \A i \in 1 .. Left : Rest[Len(line) + i] = buf[pos + i]
  <2>1. /\ \A i \in 1 .. Held : Rest[i] = line[i]
        /\ \A i \in 1 .. Left : Rest[Held + i] = buf[pos + i]
    BY RestNow DEF RestIs
  <2>2. \A i \in 1 .. Len(line) : line[i] # Newline
    BY <1>1 DEF Inv, Unbroken
  <2>3. Held = Len(line)
    BY <1>5
  <2> QED
    BY <2>1, <2>2, <2>3
<1>7. Len(line') \in Lines!Ends(Rest)
  <2> DEFINE j == e - pos
  <2>1. j \in 1 .. Left /\ Len(line) + j = Len(line') /\ pos + j = e
    BY <1>3, <1>5
  <2> HIDE DEF j
  <2>2. Rest[Len(line')] = Newline
    BY <1>2, <1>6, <2>1
  <2>3. Len(line') \in DOMAIN Rest
    BY <1>4, <1>5, <2>1
  <2> QED
    BY <2>2, <2>3 DEF Lines!Ends
<1>8. ASSUME NEW i \in Lines!Ends(Rest) PROVE Len(line') <= i
  <2>1. i \in 1 .. Len(Rest) /\ Rest[i] = Newline /\ i \in Nat
    BY <1>5 DEF Lines!Ends
  <2> SUFFICES ASSUME i < Len(line') PROVE FALSE
    BY <1>5, <2>1
  <2>2. CASE i <= Len(line)
    <3>1. i \in 1 .. Len(line)
      BY <1>5, <2>1, <2>2
    <3> QED
      BY <1>6, <2>1, <3>1
  <2>3. CASE ~(i <= Len(line))
    <3> DEFINE j == i - Len(line)
    <3>1. j \in 1 .. Left /\ Len(line) + j = i /\ pos + j \in pos + 1 .. e - 1
      BY <1>3, <1>5, <2>1, <2>3
    <3> HIDE DEF j
    <3> QED
      BY <1>2, <1>6, <2>1, <3>1
  <2> QED
    BY <2>2, <2>3
<1>9. Len(line') = CHOOSE j \in Lines!Ends(Rest) : \A i \in Lines!Ends(Rest) : j <= i
  <2>1. \A j \in Lines!Ends(Rest) : j \in Nat
    BY <1>5 DEF Lines!Ends
  <2>2. \A j \in Lines!Ends(Rest) : (\A i \in Lines!Ends(Rest) : j <= i) => j = Len(line')
    BY <1>5, <1>7, <1>8, <2>1
  <2> QED
    BY <1>7, <1>8, <2>2
<1>10. Rest # <<>>
  BY <1>4, <1>5, <1>3
<1>11. /\ (IF Busy THEN <<>> ELSE line)' = line' /\ Busy' = FALSE
       /\ (pos # 0)' \in BOOLEAN /\ (err # "none")' = (err # "none")
       /\ Lines!Ends(Rest) # {}
  BY <1>1, <1>7
<1> DEFINE k == IF Lines!Ends(Rest) = {} THEN Len(Rest)
                ELSE CHOOSE j \in Lines!Ends(Rest) : \A i \in Lines!Ends(Rest) : j <= i
<1>12. k = Len(line')
  BY <1>9, <1>11
<1>13. /\ (IF Busy THEN <<>> ELSE line)' = SubSeq(Rest, 1, k)
       /\ Rest' = Lines!From(Rest, k + 1)
       /\ number' = IF Lines!Ends(Rest) = {} THEN number ELSE number + 1
  BY <1>1, <1>4, <1>11, <1>12
<1> QED
  BY <1>1, <1>10, <1>11, <1>13, Zenon DEF Lines!Deliver, Rest

\* At the end of the buffer, the file ends with this line, or with none, or more is read.
LEMMA ScanEndMaps ==
  ASSUME Inv, Inv', FilesFit, ScanEnd
  PROVE  Lines!Deliver \/ Lines!End \/ Lines!Ahead
<1>1. /\ Busy /\ Breaks = {} /\ UNCHANGED <<file, kpos, open, buf, number, err>>
  BY DEF ScanEnd, Busy
<1>2. /\ pos \in Nat /\ Len(line) \in Nat /\ Len(buf) \in Nat /\ Len(file) \in Nat /\ kpos \in Nat
      /\ Len(buf) <= MemSize /\ MemSize \in Nat
  BY Types DEF Inv
<1>3. Splits
  <2>1. CASE pos < Len(buf)
    <3> DEFINE e == Len(buf)
    <3>1. e \in pos + 1 .. Len(buf) /\ Appended(SubSeq(buf, pos + 1, e)) /\ pos' = e
      BY <1>2, <2>1 DEF ScanEnd
    <3> HIDE DEF e
    <3> QED
      BY <1>1, <3>1, TakeSplits
  <2>2. CASE ~(pos < Len(buf))
    BY <1>1, <2>2, StaySplits DEF ScanEnd
  <2> QED
    BY <2>1, <2>2
<1>4. (pos # 0)' \in BOOLEAN /\ (err # "none")' = (err # "none")
  BY <1>1
<1>5. CASE ~(Len(buf) < MemSize)
  <2>1. Busy' /\ result' = result
    BY <1>5 DEF ScanEnd, Busy
  <2>2. Rest' = Rest
    BY <1>3, <2>1, StillBusy
  <2>3. (IF Busy THEN <<>> ELSE line)' = (IF Busy THEN <<>> ELSE line)
    BY <1>1, <2>1
  <2>4. Busy' = Busy
    BY <1>1, <2>1 DEF Busy
  <2> QED
    BY <1>1, <1>4, <2>1, <2>2, <2>3, <2>4, Zenon DEF Lines!Ahead, Rest
<1>6. CASE Len(buf) < MemSize
  <2>1. ~Busy' /\ result' = (line' # <<>>)
    BY <1>6 DEF ScanEnd, Busy, Return
  <2>2. Left' = 0 /\ Behind' = 0
    <3>1. Left' = 0
      BY <1>1, <1>2 DEF ScanEnd, Left
    <3>2. Behind' = 0
      BY <1>1, <1>2, <1>6 DEF Inv, Window, Behind
    <3> QED
      BY <3>1, <3>2
  <2>3. /\ line' = SubSeq(Rest, 1, Len(line')) /\ Rest' = Lines!From(Rest, Len(line') + 1)
    BY <1>3, <2>1, NowIdle
  <2>4. /\ Len(line') = Len(Rest) /\ Rest \in Seq(Nat) /\ line' \in Seq(Nat) /\ Len(Rest) \in Nat
    BY <1>3, <2>2 DEF Splits
  <2>5. line' = Rest
    BY <2>3, <2>4, SubSeqFull
  <2>6. Lines!Ends(Rest) = {}
    <3> SUFFICES ASSUME NEW i \in Lines!Ends(Rest) PROVE FALSE
      OBVIOUS
    <3>1. i \in 1 .. Len(Rest) /\ Rest[i] = Newline /\ i \in Nat
      BY <2>4 DEF Lines!Ends
    <3>2. /\ \A k \in 1 .. Len(line) : Rest[k] # Newline
          /\ \A k \in 1 .. Left : Rest[Len(line) + k] = buf[pos + k]
          /\ Len(Rest) = Len(line) + Left + Behind
      BY <1>1, RestNow DEF RestIs, Inv, Unbroken, Held
    <3>3. Behind = 0 /\ Left \in Nat /\ Left = IF pos < Len(buf) THEN Len(buf) - pos ELSE 0
      BY <1>1, <1>2, <1>6 DEF Inv, Window, Behind, Left
    <3>4. CASE i <= Len(line)
      <4>1. i \in 1 .. Len(line)
        BY <1>2, <3>1, <3>4
      <4> QED
        BY <3>1, <3>2, <4>1
    <3>5. CASE ~(i <= Len(line))
      <4> DEFINE j == i - Len(line)
      <4>1. j \in 1 .. Left /\ Len(line) + j = i /\ pos + j \in pos + 1 .. Len(buf)
        BY <1>2, <3>1, <3>2, <3>3, <3>5
      <4> HIDE DEF j
      <4>2. buf[pos + j] # Newline
        BY <1>1, <4>1, BreakFacts DEF Inv
      <4> QED
        BY <3>1, <3>2, <4>1, <4>2
    <3> QED
      BY <3>4, <3>5
  <2>7. Busy' = FALSE /\ (IF Busy THEN <<>> ELSE line)' = line' /\ (IF Busy THEN <<>> ELSE line) = <<>>
    BY <1>1, <2>1
  <2>8. CASE line' = <<>>
    <3>1. Rest = <<>> /\ result' = FALSE /\ Rest' = Rest
      <4>1. Len(Rest) = 0 /\ Rest = <<>>
        BY <2>5, <2>8
      <4>2. Rest' = SubSeq(Rest, 1, Len(Rest))
        BY <2>3, <2>4, <4>1 DEF Lines!From
      <4> QED
        BY <2>1, <2>4, <2>8, <4>1, <4>2, SubSeqFull
    <3> QED
      BY <1>1, <1>4, <2>7, <2>8, <3>1, Zenon DEF Lines!End, Rest
  <2>9. CASE line' # <<>>
    <3>1. result' = TRUE /\ Rest # <<>>
      BY <2>1, <2>5, <2>9
    <3> DEFINE k == IF Lines!Ends(Rest) = {} THEN Len(Rest)
                    ELSE CHOOSE j \in Lines!Ends(Rest) : \A i \in Lines!Ends(Rest) : j <= i
    <3>2. k = Len(line')
      BY <2>4, <2>6
    <3>3. /\ (IF Busy THEN <<>> ELSE line)' = SubSeq(Rest, 1, k)
          /\ Rest' = Lines!From(Rest, k + 1)
          /\ number' = IF Lines!Ends(Rest) = {} THEN number ELSE number + 1
      BY <1>1, <2>3, <2>6, <2>7, <3>2
    <3> QED
      BY <1>1, <1>4, <2>7, <3>1, <3>3, Zenon DEF Lines!Deliver, Rest
  <2> QED
    BY <2>8, <2>9
<1> QED
  BY <1>5, <1>6

\* Reading ahead shows nowhere, and a read that fails delivers a piece of a line.
LEMMA RefillMaps ==
  ASSUME Inv, Inv', Refill
  PROVE  Lines!Ahead \/ Lines!Fail
<1>1. /\ Busy /\ pc = "read" /\ UNCHANGED <<file, open, line, number>>
  BY DEF Refill, Busy
<1>2. /\ line \in Seq(Nat) /\ Len(line) \in Nat /\ file \in Seq(Nat) /\ Len(file) \in Nat
      /\ kpos \in Nat /\ kpos \in 0 .. Len(file) /\ pos \in Nat /\ Len(buf) \in Nat
  BY Types DEF Inv
<1>3. CASE open /\ ReadOk(kpos) /\ pos' = 0 /\ pc' = "scan" /\ UNCHANGED <<result, err, fails>>
  <2>1. RestIs /\ Held = Len(line) /\ Left = 0 /\ Behind = Len(file) - kpos
    BY <1>1, <1>2, <1>3, RestNow DEF Held, Left, Behind, Inv, UsedUp
  <2>2. /\ buf' \in Seq(Nat) /\ Len(buf') \in Nat
        /\ kpos' = kpos + Len(buf') /\ kpos' \in 0 .. Len(file)
        /\ \A i \in 1 .. Len(buf') : buf'[i] = file[kpos + i]
    <3>1. buf' = Chunk(kpos) /\ kpos' = kpos + Len(Chunk(kpos)) /\ TypeOK
      BY <1>3 DEF ReadOk, Inv
    <3>2. /\ Chunk(kpos) \in Seq(Nat) /\ kpos + Len(Chunk(kpos)) \in 0 .. Len(file)
          /\ \A i \in 1 .. Len(Chunk(kpos)) : Chunk(kpos)[i] = file[kpos + i]
      BY <1>2, <3>1, ChunkFacts
    <3>3. Len(Chunk(kpos)) \in Nat
      BY <3>2
    <3> QED
      BY <3>1, <3>2, <3>3, Zenon
  <2>3. Left' = Len(buf') /\ Behind' = Len(file) - kpos' /\ Left' \in Nat /\ Behind' \in Nat
    BY <1>1, <1>2, <1>3, <2>2 DEF Left, Behind
  <2>4. /\ Rest \in Seq(Nat) /\ Len(Rest) = Len(line) + Behind
        /\ \A i \in 1 .. Len(line) : Rest[i] = line[i]
        /\ \A i \in 1 .. Behind : Rest[Len(line) + i] = file[kpos + i]
    <3>1. /\ Rest \in Seq(Nat) /\ Len(Rest) = Len(line) + 0 + Behind
          /\ \A i \in 1 .. Len(line) : Rest[i] = line[i]
          /\ \A i \in 1 .. Behind : Rest[Len(line) + 0 + i] = file[kpos + i]
      BY <2>1 DEF RestIs
    <3>2. Len(line) + 0 = Len(line)
      BY <1>2
    <3> QED
      BY <3>1, <3>2
  <2>5. ASSUME NEW i \in 1 .. Left' PROVE buf'[pos' + i] = Rest[Len(line') + i]
    <3>1. i \in 1 .. Behind /\ i \in 1 .. Len(buf') /\ pos' + i = i
      BY <1>2, <1>3, <2>1, <2>2, <2>3
    <3> QED
      BY <1>1, <2>2, <2>4, <3>1
  <2>6. ASSUME NEW i \in 1 .. Behind' PROVE file'[kpos' + i] = Rest[Len(line') + Left' + i]
    <3> DEFINE j == Len(buf') + i
    <3>1. j \in 1 .. Behind /\ kpos + j = kpos' + i /\ Len(line) + j = Len(line) + Left' + i
      BY <1>2, <2>1, <2>2, <2>3
    <3> HIDE DEF j
    <3>2. Rest[Len(line) + j] = file[kpos + j]
      BY <2>4, <3>1
    <3> QED
      BY <1>1, <3>1, <3>2
  <2>7. Splits
    <3>1. Len(Rest) = Len(line') + Left' + Behind'
      BY <1>1, <1>2, <2>1, <2>2, <2>3, <2>4
    <3> QED
      BY <1>1, <1>2, <2>3, <2>4, <2>5, <2>6, <3>1 DEF Splits
  <2>8. Busy' = Busy /\ Busy'
    BY <1>1, <1>3 DEF Busy
  <2>9. Rest' = Rest
    BY <2>7, <2>8, StillBusy
  <2>10. (IF Busy THEN <<>> ELSE line)' = (IF Busy THEN <<>> ELSE line)
    BY <1>1, <2>8
  <2>11. (pos # 0)' \in BOOLEAN /\ (err # "none")' = (err # "none")
    BY <1>3
  <2> QED
    BY <1>1, <1>3, <2>8, <2>9, <2>10, <2>11, Zenon DEF Lines!Ahead, Rest
<1>4. CASE err' \in {"read", "badf"} /\ Return(FALSE) /\ UNCHANGED <<kpos, buf, pos>>
  <2>1. Splits /\ ~Busy' /\ result' = FALSE
    BY <1>1, <1>4, StaySplits DEF Busy, Return
  <2>2. /\ line' = SubSeq(Rest, 1, Len(line')) /\ Rest' = Lines!From(Rest, Len(line') + 1)
        /\ Len(line') <= Len(Rest) /\ Len(line') = Len(line)
    BY <1>1, <2>1, NowIdle
  <2>3. Len(line') \in Lines!Broken(Rest)
    <3>1. \A i \in 1 .. Len(line) : Rest[i] # Newline
      BY <1>1, RestNow DEF RestIs, Held, Inv, Unbroken
    <3> QED
      BY <2>2, <3>1 DEF Lines!Broken, Lines!Ends
  <2>4. (IF Busy THEN <<>> ELSE line)' = line' /\ Busy' = FALSE
    BY <2>1
  <2>5. (pos # 0)' = (pos # 0) /\ (err # "none")' = TRUE
    BY <1>4
  <2>6. \E k \in Lines!Broken(Rest) :
          /\ (IF Busy THEN <<>> ELSE line)' = SubSeq(Rest, 1, k)
          /\ Rest' = Lines!From(Rest, k + 1)
    BY <2>2, <2>3, <2>4
  <2> QED
    BY <1>1, <2>1, <2>4, <2>5, <2>6, Zenon DEF Lines!Fail, Rest
<1> QED
  BY <1>3, <1>4 DEF Refill

\* Every step of the text input is one of the LineReader, or a stutter.
LEMMA StepMaps ==
  ASSUME Inv, Inv', FilesFit, [Next]_vars
  PROVE  [Lines!Next]_Lines!vars
<1>1. CASE UNCHANGED vars
  BY <1>1 DEF vars, Lines!vars, Busy, Ahead
<1>2. CASE Open
  BY <1>2, OpenMaps DEF Lines!Next
<1>3. CASE Close
  BY <1>3, CloseMaps DEF Lines!Next
<1>4. CASE FilePos
  BY <1>4, FilePosMaps DEF Lines!Next
<1>5. CASE ReadLine
  BY <1>5, ReadLineMaps DEF Lines!Next
<1>6. CASE ScanNewline
  BY <1>6, ScanNewlineMaps DEF Lines!Next
<1>7. CASE ScanEnd
  BY <1>7, ScanEndMaps DEF Lines!Next
<1>8. CASE Refill
  BY <1>8, RefillMaps DEF Lines!Next
<1> QED
  BY <1>1, <1>2, <1>3, <1>4, <1>5, <1>6, <1>7, <1>8 DEF Next, Step

\* It starts with nothing to deliver, as the LineReader does.
LEMMA InitMaps ==
  ASSUME Init
  PROVE  Lines!Init
BY DEF Init, Lines!Init, Busy, Ahead

\* As long as no file is longer than maxBufferSize, the caller gets the lines of the file, whole,
\* in order and each once, with the right numbers, whatever the size of the buffer and wherever
\* reads fail; a second open may start anywhere (textinfile.cpp, lines 34-71).
THEOREM DeliversTheorem ==
  ASSUME FilesFit
  PROVE  Spec => DeliversLines
<1>1. Init => Lines!Init
  BY InitMaps
<1>2. Inv /\ Inv' /\ [Next]_vars => [Lines!Next]_Lines!vars
  BY StepMaps
<1> QED
  BY <1>1, <1>2, Invariant, PTL DEF Spec, DeliversLines, Lines!Spec
=============================================================================
