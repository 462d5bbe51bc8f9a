------------------------- MODULE ForthMemoryProofs -------------------------
(***************************************************************************)
(* The registers of the virtual machine stay in their regions for every    *)
(* block, every return stack size and every program (ForthMemory).         *)
(*                                                                         *)
(* InBounds is inductive only together with two facts: DP stays on a cell  *)
(* boundary (_CREATE checks a size and moves DP to a rounded address: the  *)
(* two agree only then), and the layout of the block.  The lemmas state    *)
(* what each check macro guarantees and that the checks of each word of    *)
(* the table cover its use of the stacks.  Checks compute modulo the word: *)
(* those of the table are for a few cells and cannot wrap around, those of *)
(* PICK, ROLL and CALLC can.                                               *)
(***************************************************************************)
EXTENDS ForthMemory, TLAPS

\* What the proof of a step needs to know about a signature: the checks are for a
\* few cells.
Natural(w) ==
  /\ w.unf \in 0 .. 7 /\ w.ovf \in 0 .. 2 /\ w.pop \in Nat /\ w.push \in Nat
  /\ w.runf \in 0 .. 1 /\ w.rovf \in 0 .. 1 /\ w.rpop \in Nat /\ w.rpush \in Nat
  /\ w.dsp \in 0 .. 3 /\ w.dput \in Nat

\* The checks of a word cover what it does to PSP ...
ParamCovered(w) == w.pop <= w.unf /\ w.push <= w.pop + w.ovf
\* ... to RSP ...
ReturnCovered(w) == w.rpop <= w.runf /\ w.rpush <= w.rpop + w.rovf
\* ... and to DP.
DictCovered(w) == w.dput <= w.dsp

\* The layout of the block: the bounds are numbers, in order, the first is on a cell
\* boundary, and there is room for eight cells on both sides before a word wraps.
LEMMA Layout ==
  /\ DSPCLWR \in Nat /\ DSPCUPR \in Nat /\ STKLWR \in Nat
  /\ STKUPR \in Nat /\ RSTKLWR \in Nat /\ RSTKUPR \in Nat
  /\ DSPCLWR <= DSPCUPR /\ DSPCUPR = STKLWR /\ STKLWR <= STKUPR
  /\ STKUPR = RSTKLWR /\ RSTKLWR + Cell <= RSTKUPR
  /\ DSPCLWR % Cell = 0
  /\ DSPCLWR = MemAddr /\ 16 <= DSPCLWR /\ WordMod \in Nat
  /\ RSTKUPR <= WordMod \div 2 /\ RSTKUPR + 64 <= WordMod
<1>1. /\ MemAddr \in Nat /\ MemSize \in Nat /\ RStkSize \in Nat
      /\ MemAddr % 8 = 0 /\ 8 <= RStkSize /\ RStkSize <= MemSize
      /\ 16 <= MemAddr /\ WordMod \in Nat /\ 128 <= WordMod
      /\ MemAddr + MemSize <= WordMod \div 2
  BY MemoryAssumption DEF Cell
<1>2. PICK half \in Nat : half = (STKUPR - MemAddr) \div 2 /\ 2 * half <= STKUPR - MemAddr
  BY <1>1 DEF STKUPR, RSTKUPR
<1>3. DSPCUPR = MemAddr + half
  BY <1>2 DEF DSPCUPR
<1>4. MemAddr + MemSize + 64 <= WordMod
  BY <1>1
<1> QED
  BY <1>1, <1>2, <1>3, <1>4 DEF DSPCLWR, STKLWR, STKUPR, RSTKLWR, RSTKUPR, Cell

\* A remainder is a number, and a number below the modulus is its own remainder.
LEMMA WrapNat ==
  ASSUME NEW a \in Nat
  PROVE  Wrap(a) \in Nat /\ (a < WordMod => Wrap(a) = a)
BY Layout DEF Wrap

\* Every word of CheckedWords makes checks that cover its effect.
LEMMA CheckedSound ==
  ASSUME NEW w \in CheckedWords
  PROVE  Natural(w) /\ ParamCovered(w) /\ ReturnCovered(w) /\ DictCovered(w)
<1> USE DEF Sig, CSig, Natural, ParamCovered, ReturnCovered, DictCovered
<1>1. CASE w \in Arithmetic
  BY <1>1 DEF Arithmetic
<1>2. CASE w \in Comparison
  BY <1>2 DEF Comparison
<1>3. CASE w \in BitAndMemory
  BY <1>3 DEF BitAndMemory
<1>4. CASE w \in StackWords
  BY <1>4 DEF StackWords
<1>5. CASE w \in Floating
  BY <1>5 DEF Floating
<1>6. CASE w \in Variables
  BY <1>6 DEF Variables
<1>7. CASE w \in InputOutput
  BY <1>7 DEF InputOutput
<1>8. CASE w \in Parsing
  BY <1>8 DEF Parsing
<1>9. CASE w \in NumberOutput
  BY <1>9 DEF NumberOutput
<1>10. CASE w \in Threading
  BY <1>10 DEF Threading
<1>11. CASE w \in Compiling
  <2>1. CASE w \in CSig({"COMMA"}, 1, 1, 0, 0, 0, 0, 1)
                    \union CSig({"COMPILE"}, 0, 0, 0, 0, 0, 0, 1)
    BY <2>1
  <2>2. CASE w \in CSig({"IF", "UNLESS", "WHILE"}, 0, 0, 0, 1, 0, 1, 3)
                    \union CSig({"BEGIN"}, 0, 0, 0, 1, 0, 1, 0)
    BY <2>2
  <2>3. CASE w \in CSig({"ELSE"}, 0, 0, 1, 0, 1, 1, 2)
                    \union CSig({"THEN"}, 0, 0, 1, 0, 1, 0, 0)
    BY <2>3
  <2>4. CASE w \in CSig({"AGAIN"}, 0, 0, 1, 0, 1, 0, 2)
                    \union CSig({"UNTIL"}, 0, 0, 1, 0, 1, 0, 3)
    BY <2>4
  <2> QED
    BY <1>11, <2>1, <2>2, <2>3, <2>4 DEF Compiling
<1> QED
  BY <1>1, <1>2, <1>3, <1>4, <1>5, <1>6, <1>7, <1>8, <1>9, <1>10, <1>11
  DEF CheckedWords

-----------------------------------------------------------------------------
(* The inductive invariant. *)

Registers == psp \in Nat /\ rsp \in Nat /\ dp \in Nat

Aligned == dp % Cell = 0

IInv ==
  /\ Registers
  /\ InBounds
  /\ Aligned

\* The checks for a few cells, made with a pointer that is in its region, compare
\* addresses that have not wrapped around.
LEMMA FewCells ==
  ASSUME NEW p \in Nat, STKLWR <= p, p <= STKUPR
  PROVE  /\ \A n \in 0 .. 7 : CHKUNF(p, n) <=> p + 8 * n <= STKUPR
         /\ \A n \in 0 .. 2 : CHKOVF(p, n) <=> p - 8 * n >= STKLWR
<1>1. ASSUME NEW n \in 0 .. 7 PROVE Wrap(p + 8 * n) = p + 8 * n
  BY <1>1, WrapNat, Layout DEF Cell
<1>2. ASSUME NEW n \in 0 .. 2 PROVE Wrap(p - 8 * n) = p - 8 * n
  BY <1>2, WrapNat, Layout DEF Cell
<1> QED
  BY <1>1, <1>2 DEF CHKUNF, CHKOVF, Cell

LEMMA FewReturns ==
  ASSUME IInv
  PROVE  /\ \A n \in 0 .. 1 : RCHKUNF(n) <=> rsp + 8 * n <= RSTKUPR
         /\ \A n \in 0 .. 1 : RCHKOVF(n) <=> rsp - 8 * n >= RSTKLWR
<1> USE DEF IInv, Registers, InBounds, Cell
<1>1. ASSUME NEW n \in 0 .. 1 PROVE Wrap(rsp + 8 * n) = rsp + 8 * n
  BY <1>1, WrapNat, Layout
<1>2. ASSUME NEW n \in 0 .. 1 PROVE Wrap(rsp - 8 * n) = rsp - 8 * n
  BY <1>2, WrapNat, Layout
<1> QED
  BY <1>1, <1>2 DEF RCHKUNF, RCHKOVF

LEMMA FewEntries ==
  ASSUME IInv, NEW n \in 0 .. 5
  PROVE  DSPCOVF(n) <=> dp + 8 * n <= DSPCUPR
<1>1. Wrap(dp + 8 * n) = dp + 8 * n
  BY WrapNat, Layout DEF IInv, Registers, InBounds, Cell
<1> QED
  BY <1>1 DEF DSPCOVF, Cell

\* When no check of a word fails, each check that the word makes has passed.
LEMMA ChecksPassed ==
  ASSUME IInv, NEW w, Natural(w), FailedCheck(w) = "no"
  PROVE  /\ w.unf > 0 => psp + 8 * w.unf <= STKUPR
         /\ w.ovf > 0 => psp - 8 * w.ovf >= STKLWR
         /\ w.runf > 0 => rsp + 8 * w.runf <= RSTKUPR
         /\ w.rovf > 0 => rsp - 8 * w.rovf >= RSTKLWR
         /\ w.dsp > 0 => dp + 8 * w.dsp <= DSPCUPR
<1>1. /\ w.unf > 0 => CHKUNF(psp, w.unf)
      /\ w.ovf > 0 => CHKOVF(psp, w.ovf)
      /\ w.runf > 0 => RCHKUNF(w.runf)
      /\ w.rovf > 0 => RCHKOVF(w.rovf)
      /\ w.dsp > 0 => DSPCOVF(w.dsp)
  BY DEF FailedCheck
<1>2. psp \in Nat /\ STKLWR <= psp /\ psp <= STKUPR
  BY DEF IInv, Registers, InBounds
<1>3. w.dsp \in 0 .. 5
  BY DEF Natural
<1> QED
  BY <1>1, <1>2, <1>3, FewCells, FewReturns, FewEntries DEF Natural

\* PSP after a word: in bounds when the word checks for all the cells it pops, or
\* pushes at least as many as it pops.
LEMMA ParamStep ==
  ASSUME IInv, NEW w, Natural(w), FailedCheck(w) = "no",
         w.push <= w.pop + w.ovf, w.pop <= w.unf \/ w.pop <= w.push
  PROVE  LET p == psp + Cell * w.pop - Cell * w.push
         IN  p \in Nat /\ STKLWR <= p /\ p <= STKUPR
<1>1. /\ w.unf > 0 => psp + 8 * w.unf <= STKUPR
      /\ w.ovf > 0 => psp - 8 * w.ovf >= STKLWR
  BY ChecksPassed
<1> QED
  BY <1>1, Layout DEF IInv, Registers, InBounds, Natural, Cell

\* RSP after a word: in bounds, or one cell out when it pops one cell unchecked.
LEMMA ReturnStep ==
  ASSUME IInv, NEW w, Natural(w), FailedCheck(w) = "no",
         w.rpush <= w.rpop + w.rovf,
         w.rpop <= w.runf \/ (w.runf > 0 /\ w.rpop = w.runf + 1)
  PROVE  LET r == rsp + Cell * w.rpop - Cell * w.rpush
         IN  r \in Nat /\ RSTKLWR <= r /\ r <= RSTKUPR + Cell
<1>1. /\ w.runf > 0 => rsp + 8 * w.runf <= RSTKUPR
      /\ w.rovf > 0 => rsp - 8 * w.rovf >= RSTKLWR
  BY ChecksPassed
<1> QED
  BY <1>1, Layout DEF IInv, Registers, InBounds, Natural, Cell

\* DP after a word.
LEMMA DictStep ==
  ASSUME IInv, NEW w, Natural(w), FailedCheck(w) = "no", w.dput <= w.dsp
  PROVE  LET d == dp + Cell * w.dput
         IN  d \in Nat /\ DSPCLWR <= d /\ d <= DSPCUPR /\ d % Cell = 0
<1>1. w.dsp > 0 => dp + 8 * w.dsp <= DSPCUPR
  BY ChecksPassed
<1> QED
  BY <1>1, Layout DEF IInv, Registers, InBounds, Aligned, Natural, Cell

\* Rounding an address up to a cell: a multiple of the cell, less than a cell away.
LEMMA RoundUpFacts ==
  ASSUME NEW a \in Nat
  PROVE  /\ RoundUp(a) \in Nat /\ RoundUp(a) % Cell = 0
         /\ a <= RoundUp(a) /\ RoundUp(a) <= a + 7
BY DEF RoundUp, Cell

\* From an aligned address, rounding the sum rounds the summand.
LEMMA RoundUpAligned ==
  ASSUME NEW a \in Nat, NEW n \in Nat, a % Cell = 0
  PROVE  RoundUp(a + n) = a + RoundUp(n)
BY DEF RoundUp, Cell

-----------------------------------------------------------------------------

\* The nucleus starts with empty stacks.
LEMMA IInvInit == Init => IInv
BY Layout DEF Init, IInv, Registers, InBounds, Aligned, Cell

\* Each step preserves the invariant: the stop of the program with PSP in its
\* region,
LEMMA IInvStop ==
  ASSUME IInv, NEW reason, NEW p \in Nat, STKLWR <= p, p <= STKUPR, StopAt(reason, p)
  PROVE  IInv'
BY DEF StopAt, IInv, Registers, InBounds, Aligned, DSPCLWR, DSPCUPR, STKLWR,
       STKUPR, RSTKLWR, RSTKUPR

\* also where PSP has not moved,
LEMMA IInvHere ==
  ASSUME IInv, NEW reason, Stop(reason)
  PROVE  IInv'
BY IInvStop DEF Stop, IInv, Registers, InBounds

\* a word of the machine,
LEMMA IInvExec ==
  ASSUME IInv, NEW w \in Words, Exec(w)
  PROVE  IInv'
<1>1. CASE FailedCheck(w) # "no"
  BY <1>1, IInvHere DEF Exec
<1>2. CASE FailedCheck(w) = "no"
  <2>1. /\ psp' = psp + Cell * w.pop - Cell * w.push
        /\ rsp' = rsp + Cell * w.rpop - Cell * w.rpush
        /\ dp' = dp + Cell * w.dput
    BY <1>2 DEF Exec
  <2>2. /\ Natural(w) /\ DictCovered(w)
        /\ w.push <= w.pop + w.ovf
        /\ w.pop <= w.unf \/ w.pop <= w.push
        /\ w.rpush <= w.rpop + w.rovf
        /\ w.rpop <= w.runf \/ (w.runf > 0 /\ w.rpop = w.runf + 1)
    <3>1. CASE w \in CheckedWords
      BY <3>1, CheckedSound DEF ParamCovered, ReturnCovered
    <3>2. CASE w \in Extract
      BY <3>2 DEF Extract, Sig, Natural, DictCovered
    <3>3. CASE w \in Repeat
      BY <3>3 DEF Repeat, CSig, Natural, DictCovered
    <3> QED
      BY <3>1, <3>2, <3>3 DEF Words
  <2>3. psp' \in Nat /\ STKLWR <= psp' /\ psp' <= STKUPR
    BY <1>2, <2>1, <2>2, ParamStep
  <2>4. rsp' \in Nat /\ RSTKLWR <= rsp' /\ rsp' <= RSTKUPR + Cell
    BY <1>2, <2>1, <2>2, ReturnStep
  <2>5. dp' \in Nat /\ DSPCLWR <= dp' /\ dp' <= DSPCUPR /\ dp' % Cell = 0
    BY <1>2, <2>1, <2>2, DictStep DEF DictCovered
  <2> QED
    BY <2>3, <2>4, <2>5 DEF IInv, Registers, InBounds, Aligned
<1> QED
  BY <1>1, <1>2

\* A step that leaves the dictionary and the return stack as they are.
LEMMA IInvParam ==
  ASSUME IInv, psp' \in Nat, STKLWR <= psp', psp' <= STKUPR, rsp' = rsp, dp' = dp
  PROVE  IInv'
BY DEF IInv, Registers, InBounds, Aligned, DSPCLWR, DSPCUPR, STKLWR, STKUPR,
       RSTKLWR, RSTKUPR

\* The size of a ROLL, also of a negative one.
RollSize(n) == IF IsNegative(n) THEN WordMod - n ELSE n

LEMMA RollSizeNat == ASSUME NEW n \in Counts PROVE RollSize(n) \in Nat
BY InputAssumption, MemoryAssumption DEF RollSize

\* a word that takes its count from the stack, whatever word the count is,
LEMMA IInvStack ==
  ASSUME IInv, NEW n \in Counts, Pick(n) \/ Roll(n) \/ CallC(n)
  PROVE  IInv'
<1>1. psp \in Nat /\ STKLWR <= psp /\ psp <= STKUPR /\ n \in Nat
  BY InputAssumption DEF IInv, Registers, InBounds
<1>2. /\ CHKUNF(psp, 1) => psp + 8 <= STKUPR
      /\ CHKUNF(psp, 2) => psp + 16 <= STKUPR
  BY <1>1, FewCells
<1>3. CASE Pick(n)
  <2>1. Stop("stkunf") \/ (psp' = psp /\ rsp' = rsp /\ dp' = dp)
    BY <1>3 DEF Pick, registers
  <2> QED
    BY <2>1, <1>1, IInvHere, IInvParam
<1>4. CASE Roll(n)
  <2>1. \/ Stop("stkunf")
        \/ CHKUNF(psp, 1) /\ StopAt("stkunf", psp + 8)
        \/ CHKUNF(psp, 1) /\ psp' = psp + 8 /\ rsp' = rsp /\ dp' = dp
    BY <1>4 DEF Roll, Cell
  <2>2. CASE Stop("stkunf")
    BY <2>2, IInvHere
  <2>3. CASE CHKUNF(psp, 1) /\ StopAt("stkunf", psp + 8)
    <3>1. psp + 8 \in Nat /\ STKLWR <= psp + 8 /\ psp + 8 <= STKUPR
      BY <2>3, <1>1, <1>2, Layout
    <3> QED
      BY <2>3, <3>1, IInvStop
  <2>4. CASE CHKUNF(psp, 1) /\ psp' = psp + 8 /\ rsp' = rsp /\ dp' = dp
    <3>1. psp' \in Nat /\ STKLWR <= psp' /\ psp' <= STKUPR
      BY <2>4, <1>1, <1>2, Layout
    <3> QED
      BY <2>4, <3>1, IInvParam
  <2> QED
    BY <2>1, <2>2, <2>3, <2>4
<1>5. CASE CallC(n)
  <2> DEFINE args == psp + 16
             top  == args + 8 * n
  <2>1. args \in Nat /\ top \in Nat /\ args <= top
    BY <1>1
  <2>2. \/ Stop("stkunf")
        \/ CHKUNF(psp, 2) /\ StopAt("stkunf", args)
        \/ CHKUNF(psp, 2) /\ psp' = args /\ rsp' = rsp /\ dp' = dp
        \/ /\ CHKUNF(psp, 2) /\ CHKUNF(args, n) /\ ~WalksOff(args, n)
           /\ \/ StopAt("stkovf", top)
              \/ psp' = top - 8 /\ rsp' = rsp /\ dp' = dp
    BY <1>5 DEF CallC, Cell
  <2>3. CHKUNF(psp, 2) => STKLWR <= args /\ args <= STKUPR
    BY <1>1, <1>2, Layout
  <2>4. CHKUNF(args, n) /\ ~WalksOff(args, n) => top <= STKUPR
    BY <2>1, WrapNat, Layout DEF CHKUNF, WalksOff, Cell
  <2> HIDE DEF top
  <2>5. CASE Stop("stkunf")
    BY <2>5, IInvHere
  <2>6. CASE CHKUNF(psp, 2) /\ StopAt("stkunf", args)
    BY <2>1, <2>3, <2>6, IInvStop
  <2>7. CASE CHKUNF(psp, 2) /\ psp' = args /\ rsp' = rsp /\ dp' = dp
    BY <2>1, <2>3, <2>7, IInvParam
  <2>8. CASE /\ CHKUNF(psp, 2) /\ CHKUNF(args, n) /\ ~WalksOff(args, n)
             /\ StopAt("stkovf", top)
    <3>1. STKLWR <= top /\ top <= STKUPR
      BY <2>1, <2>3, <2>4, <2>8, Layout
    <3> QED
      BY <2>1, <2>8, <3>1, IInvStop
  <2>9. CASE /\ CHKUNF(psp, 2) /\ CHKUNF(args, n) /\ ~WalksOff(args, n)
             /\ psp' = top - 8 /\ rsp' = rsp /\ dp' = dp
    <3>1. psp' \in Nat /\ STKLWR <= psp' /\ psp' <= STKUPR
      BY <1>1, <2>1, <2>3, <2>4, <2>9, Layout
    <3> QED
      BY <2>9, <3>1, IInvParam
  <2> QED
    BY <2>2, <2>5, <2>6, <2>7, <2>8, <2>9
<1> QED
  BY <1>3, <1>4, <1>5

\* a user variable,
LEMMA IInvDoUser ==
  ASSUME IInv, NEW c \in BOOLEAN, DoUser(c)
  PROVE  IInv'
<1>1. psp \in Nat /\ STKLWR <= psp /\ psp <= STKUPR
  BY DEF IInv, Registers, InBounds
<1>2. CHKOVF(psp, 1) => psp - 8 \in Nat /\ STKLWR <= psp - 8 /\ psp - 8 <= STKUPR
  BY <1>1, FewCells, Layout
<1>3. CASE Stop("stkovf")
  BY <1>3, IInvHere
<1>4. CASE CHKOVF(psp, 1) /\ StopAt("rstkovf", psp - 8)
  BY <1>2, <1>4, IInvStop
<1>5. CASE /\ CHKOVF(psp, 1) /\ psp' = psp - 8 /\ dp' = dp
           /\ (c /\ RCHKOVF(1) /\ rsp' = rsp - 8) \/ rsp' = rsp
  <2>1. RCHKOVF(1) => rsp - 8 >= RSTKLWR
    BY FewReturns
  <2> QED
    BY <1>2, <1>5, <2>1, Layout DEF IInv, Registers, InBounds, Aligned, Cell
<1> QED
  BY <1>3, <1>4, <1>5 DEF DoUser, Cell

\* The size that _CREATE checks is the distance it moves DP, because DP is aligned.
LEMMA CreateMoves ==
  ASSUME IInv, NEW n \in NameLens, Create(n), ~(\E r : Stop(r))
  PROVE  \E size \in Nat :
           /\ size % Cell = 0 /\ dp' = dp + size /\ dp + size <= DSPCUPR
           /\ psp + 2 * Cell <= STKUPR /\ psp' = psp + Cell /\ rsp' = rsp
<1> DEFINE len == IF n <= NameLimit THEN n ELSE NameLimit
           size == RoundUp(Cell + 1 + len)
<1>1. len \in 0 .. 31
  BY InputAssumption DEF NameLimit
<1>2. size \in Nat /\ size % Cell = 0 /\ size \div Cell \in 0 .. 5
  <2>1. Cell + 1 + len \in Nat /\ Cell + 1 + len <= 40
    BY <1>1 DEF Cell
  <2>2. size \in Nat /\ size % Cell = 0 /\ size <= 47
    BY <2>1, RoundUpFacts
  <2> QED
    BY <2>2 DEF Cell
<1>3. /\ CHKUNF(psp, 2) /\ DSPCOVF(size \div Cell)
      /\ dp' = RoundUp(dp + Cell + 1 + len)
      /\ psp' = psp + Cell /\ rsp' = rsp
  BY DEF Create
<1>4. dp' = dp + size
  <2>1. Cell + 1 + len \in Nat /\ dp \in Nat /\ dp % Cell = 0
    BY <1>1 DEF IInv, Registers, Aligned, Cell
  <2>2. RoundUp(dp + (Cell + 1 + len)) = dp + size
    BY <2>1, RoundUpAligned
  <2>3. dp + (Cell + 1 + len) = dp + Cell + 1 + len
    BY <2>1, <1>1 DEF Cell
  <2> QED
    BY <1>3, <2>2, <2>3
<1>5. dp + size <= DSPCUPR
  <2>1. dp + 8 * (size \div Cell) <= DSPCUPR
    BY <1>2, <1>3, FewEntries
  <2>2. 8 * (size \div Cell) = size
    BY <1>2 DEF Cell
  <2> QED
    BY <2>1, <2>2
<1>6. psp + 2 * Cell <= STKUPR
  BY <1>3, FewCells DEF IInv, Registers, InBounds, Cell
<1> HIDE DEF len, size
<1> QED
  BY <1>2, <1>3, <1>4, <1>5, <1>6

\* the definition of a name,
LEMMA IInvCreate ==
  ASSUME IInv, NEW n \in NameLens, Create(n)
  PROVE  IInv'
<1>1. CASE \E r : Stop(r)
  BY <1>1, IInvHere
<1>2. CASE ~(\E r : Stop(r))
  BY <1>2, CreateMoves, Layout DEF IInv, Registers, InBounds, Aligned, Cell
<1> QED
  BY <1>1, <1>2

\* What the shift of ALLOT leaves is a number of whole cells.
LEMMA TimesCellNat ==
  ASSUME NEW n \in AllotCounts
  PROVE  \E k \in Nat : TimesCell(n) = Cell * k /\ TimesCell(n) \div Cell = k
<1> DEFINE k == n % (WordMod \div Cell)
<1>1. k \in Nat
  <2>1. n \in Nat /\ WordMod \div 8 \in Nat /\ WordMod \div 8 > 0
    BY InputAssumption, MemoryAssumption
  <2> QED
    BY <2>1 DEF Cell
<1>2. TimesCell(n) = 8 * k
  BY DEF TimesCell, Cell
<1> HIDE DEF k
<1> QED
  BY <1>1, <1>2 DEF Cell

\* The bytes ALLOT adds are those it checked, whatever the shift dropped, and the
\* sum does not wrap around.
LEMMA AllotMoves ==
  ASSUME IInv, NEW n \in AllotCounts, Allot(n)
  PROVE  \/ \E r, p : (p = psp \/ (psp + 8 <= STKUPR /\ p = psp + 8))
                      /\ r \in Reasons \ {"no"} /\ StopAt(r, p)
         \/ /\ psp + 8 <= STKUPR /\ psp' = psp + 8 /\ rsp' = rsp /\ stop' = stop
            /\ \E k \in Nat : /\ TimesCell(n) = 8 * k
                              /\ dp' = dp + 8 * k /\ dp' <= DSPCUPR
            /\ ptouch' = {psp} /\ picked' = {} /\ rtouch' = {} /\ dtouch' = {}
            /\ allotted' = Cells(dp, n) /\ ~IsNegative(n)
<1>1. psp \in Nat /\ STKLWR <= psp /\ psp <= STKUPR /\ dp \in Nat
  BY DEF IInv, Registers, InBounds
<1>2. CHKUNF(psp, 1) => psp + 8 <= STKUPR
  BY <1>1, FewCells
<1>3. CASE /\ CHKUNF(psp, 1) /\ ~IsNegative(n) /\ ~IsNegative(TimesCell(n))
           /\ DSPCOVF(TimesCell(n) \div Cell)
  <2>1. PICK k \in Nat : TimesCell(n) = 8 * k /\ TimesCell(n) \div Cell = k
    BY TimesCellNat DEF Cell
  <2>2. 8 * k < WordMod \div 2
    BY <1>3, <2>1, Layout DEF IsNegative
  <2>3. dp + 8 * k \in Nat /\ dp + 8 * k < WordMod
    BY <1>1, <2>1, <2>2, Layout DEF IInv, InBounds, Cell
  <2>4. Wrap(dp + 8 * k) = dp + 8 * k
    BY <2>3, WrapNat
  <2>5. dp + 8 * k <= DSPCUPR
    BY <1>3, <2>1, <2>4 DEF DSPCOVF, Cell
  <2>6. /\ dp' = dp + 8 * k /\ psp' = psp + 8 /\ rsp' = rsp /\ stop' = stop
        /\ ptouch' = {psp} /\ picked' = {} /\ rtouch' = {} /\ dtouch' = {}
        /\ allotted' = Cells(dp, n)
    BY <1>3, <2>1, <2>4 DEF Allot, Touch, Cell
  <2> QED
    BY <1>2, <1>3, <2>1, <2>5, <2>6
<1>4. CASE ~CHKUNF(psp, 1)
  BY <1>4 DEF Allot, Stop, Reasons
<1>5. CASE /\ CHKUNF(psp, 1)
           /\ \/ IsNegative(n) \/ IsNegative(TimesCell(n))
              \/ ~DSPCOVF(TimesCell(n) \div Cell)
  <2>1. StopAt("negallot", psp + 8) \/ StopAt("dspcovf", psp + 8)
    BY <1>5 DEF Allot, Cell
  <2> QED
    BY <1>2, <1>5, <2>1 DEF Reasons
<1> QED
  BY <1>3, <1>4, <1>5

\* a reservation,
LEMMA IInvAllot ==
  ASSUME IInv, NEW n \in AllotCounts, Allot(n)
  PROVE  IInv'
<1>1. psp \in Nat /\ STKLWR <= psp /\ psp <= STKUPR
  BY DEF IInv, Registers, InBounds
<1>2. CASE \E r, p : (p = psp \/ (psp + 8 <= STKUPR /\ p = psp + 8)) /\ StopAt(r, p)
  BY <1>1, <1>2, IInvStop, Layout
<1>3. CASE /\ psp + 8 <= STKUPR /\ psp' = psp + 8 /\ rsp' = rsp
           /\ \E k \in Nat : dp' = dp + 8 * k /\ dp' <= DSPCUPR
  BY <1>1, <1>3, Layout DEF IInv, Registers, InBounds, Aligned, Cell
<1> QED
  BY <1>2, <1>3, AllotMoves

\* and so every step.
LEMMA IInvNext == IInv /\ [Next]_vars => IInv'
<1> SUFFICES ASSUME IInv, [Next]_vars PROVE IInv'
  OBVIOUS
<1>1. ASSUME NEW w \in Words, Exec(w) PROVE IInv'
  BY <1>1, IInvExec
<1>2. ASSUME NEW n \in Counts, Pick(n) \/ Roll(n) \/ CallC(n) PROVE IInv'
  BY <1>2, IInvStack
<1>3. ASSUME NEW c \in BOOLEAN, DoUser(c) PROVE IInv'
  BY <1>3, IInvDoUser
<1>4. ASSUME NEW n \in NameLens, Create(n) PROVE IInv'
  BY <1>4, IInvCreate
<1>5. ASSUME NEW n \in AllotCounts, Allot(n) PROVE IInv'
  BY <1>5, IInvAllot
<1>6. CASE Quit
  BY <1>6, IInvHere DEF Quit
<1>7. CASE UNCHANGED vars
  BY <1>7 DEF vars, registers, IInv, Registers, InBounds, Aligned, DSPCLWR, DSPCUPR,
              STKLWR, STKUPR, RSTKLWR, RSTKUPR
<1> QED
  BY <1>1, <1>2, <1>3, <1>4, <1>5, <1>6, <1>7 DEF Next

-----------------------------------------------------------------------------
(* The cells a word uses. *)

\* n cells from a lie between a and a + 8 * n.
LEMMA CellsRange ==
  ASSUME NEW a \in Nat, NEW n \in Nat, NEW c \in Cells(a, n)
  PROVE  c \in Nat /\ a <= c /\ c + Cell <= a + Cell * n
<1>1. PICK k \in 0 .. n - 1 : c = a + 8 * k
  BY DEF Cells, Cell
<1> QED
  BY <1>1 DEF Cell

\* What a step has to establish about the parameter stack, the cell that PICK
\* copies, the return stack and the dictionary.
ParamUse ==
  /\ ptouch \subseteq Nat
  /\ stop # "fault" => \A a \in ptouch : STKLWR <= a /\ a <= STKUPR
PickUse == \A a \in picked : a \in Nat /\ a <= STKUPR
ReturnUse == \A a \in rtouch : a \in Nat /\ RSTKLWR <= a /\ a <= RSTKUPR
DictUse == dtouch \subseteq Nat /\ allotted \subseteq Nat

Use == ParamUse /\ PickUse /\ ReturnUse /\ DictUse /\ stop \in Reasons

\* Nothing is in use at first.
LEMMA UseInit == Init => Use
BY DEF Init, Use, ParamUse, PickUse, ReturnUse, DictUse, Reasons

\* What an action knows in its own terms is the invariant of the next state.
LEMMA UseStep ==
  ASSUME ptouch' \subseteq Nat, picked' \subseteq Nat, rtouch' \subseteq Nat,
         dtouch' \subseteq Nat, allotted' \subseteq Nat, stop' \in Reasons,
         stop' # "fault" => \A a \in ptouch' : STKLWR <= a /\ a <= STKUPR,
         \A a \in picked' : a <= STKUPR,
         \A a \in rtouch' : RSTKLWR <= a /\ a <= RSTKUPR
  PROVE  Use'
BY DEF Use, ParamUse, PickUse, ReturnUse, DictUse, STKLWR, STKUPR, RSTKLWR, RSTKUPR,
       DSPCUPR

\* The same for the use of the memory: a running machine stops,
LEMMA UseStop ==
  ASSUME Use, stop = "no", NEW reason \in Reasons, NEW p, StopAt(reason, p)
  PROVE  Use'
<1>1. /\ ptouch' = ptouch /\ picked' = picked /\ rtouch' = rtouch
      /\ dtouch' = dtouch /\ allotted' = allotted /\ stop' = reason
  BY DEF StopAt, used
<1> QED
  BY <1>1, UseStep DEF Use, ParamUse, PickUse, ReturnUse, DictUse

\* a word of the machine,
LEMMA UseExec ==
  ASSUME IInv, Use, NEW w \in Words, Exec(w)
  PROVE  Use'
<1>1. CASE FailedCheck(w) # "no"
  <2>1. FailedCheck(w) \in Reasons
    BY DEF FailedCheck, Reasons
  <2> QED
    BY <1>1, <2>1, UseStop DEF Exec, Stop
<1>2. CASE FailedCheck(w) = "no"
  <2>1. /\ psp' = psp + Cell * w.pop - Cell * w.push
        /\ rsp' = rsp + Cell * w.rpop - Cell * w.rpush
        /\ ptouch' = Cells(psp, w.pop) \union Cells(psp', w.push)
        /\ rtouch' = Cells(rsp, w.rpop) \union Cells(rsp', w.rpush)
        /\ dtouch' = Cells(dp, w.dput)
        /\ stop' = stop
    BY <1>2 DEF Exec, Touch
  <2>2. /\ Natural(w)
        /\ w.pop <= w.unf \/ w.pop = 1
        /\ w.rpop <= w.runf \/ (w.runf > 0 /\ w.rpop = w.runf + 1)
    <3>1. CASE w \in CheckedWords
      BY <3>1, CheckedSound DEF ParamCovered, ReturnCovered
    <3>2. CASE w \in Extract
      BY <3>2 DEF Extract, Sig, Natural
    <3>3. CASE w \in Repeat
      BY <3>3 DEF Repeat, CSig, Natural
    <3> QED
      BY <3>1, <3>2, <3>3 DEF Words
  <2>3. psp \in Nat /\ rsp \in Nat /\ dp \in Nat
    BY DEF IInv, Registers
  <2>4. IInv'
    BY IInvExec
  <2>5. ASSUME NEW a \in ptouch' PROVE a \in Nat /\ STKLWR <= a /\ a <= STKUPR
    <3>1. STKLWR <= psp /\ psp <= STKUPR /\ psp' \in Nat /\ STKLWR <= psp'
      BY <2>4 DEF IInv, Registers, InBounds, STKLWR, STKUPR, DSPCUPR, RSTKUPR
    <3>2. psp + Cell * w.pop <= STKUPR + Cell
      <4>1. w.unf > 0 => psp + 8 * w.unf <= STKUPR
        BY <1>2, <2>2, ChecksPassed
      <4> QED
        BY <4>1, <2>2, <2>3, <3>1, Layout DEF Natural, Cell
    <3>3. CASE a \in Cells(psp, w.pop)
      BY <3>1, <3>2, <3>3, <2>2, <2>3, CellsRange, Layout DEF Natural, Cell
    <3>4. CASE a \in Cells(psp', w.push)
      <4>1. a \in Nat /\ psp' <= a /\ a + Cell <= psp' + Cell * w.push
        BY <3>1, <3>4, <2>2, CellsRange DEF Natural
      <4>2. psp' + Cell * w.push = psp + Cell * w.pop
        BY <2>1, <2>2, <2>3 DEF Natural, Cell
      <4> QED
        BY <4>1, <4>2, <3>1, <3>2, <2>2, <2>3, Layout DEF Natural, Cell
    <3> QED
      BY <2>1, <3>3, <3>4
  <2>6. ASSUME NEW a \in rtouch' PROVE a \in Nat /\ RSTKLWR <= a /\ a <= RSTKUPR
    <3>1. RSTKLWR <= rsp /\ rsp <= RSTKUPR + Cell /\ rsp' \in Nat /\ RSTKLWR <= rsp'
      BY <2>4 DEF IInv, Registers, InBounds, RSTKLWR, STKUPR, RSTKUPR
    <3>2. rsp + Cell * w.rpop <= RSTKUPR + Cell
      <4>1. w.runf > 0 => rsp + 8 * w.runf <= RSTKUPR
        BY <1>2, <2>2, ChecksPassed
      <4> QED
        BY <4>1, <2>2, <2>3, <3>1, Layout DEF Natural, Cell
    <3>3. CASE a \in Cells(rsp, w.rpop)
      BY <3>1, <3>2, <3>3, <2>2, <2>3, CellsRange, Layout DEF Natural, Cell
    <3>4. CASE a \in Cells(rsp', w.rpush)
      <4>1. a \in Nat /\ rsp' <= a /\ a + Cell <= rsp' + Cell * w.rpush
        BY <3>1, <3>4, <2>2, CellsRange DEF Natural
      <4>2. rsp' + Cell * w.rpush = rsp + Cell * w.rpop
        BY <2>1, <2>2, <2>3 DEF Natural, Cell
      <4> QED
        BY <4>1, <4>2, <3>1, <3>2, <2>2, <2>3, Layout DEF Natural, Cell
    <3> QED
      BY <2>1, <3>3, <3>4
  <2>7. ASSUME NEW a \in dtouch' PROVE a \in Nat
    BY <2>1, <2>2, <2>3, <2>7, CellsRange DEF Natural
  <2>8. stop' \in Reasons /\ picked' = {} /\ allotted' = {}
    BY <1>2 DEF Exec, Touch, Reasons
  <2> QED
    BY <2>5, <2>6, <2>7, <2>8, UseStep
<1> QED
  BY <1>1, <1>2

\* A walk is over addresses; one that does not go off stays between its ends.
LEMMA WalkFacts ==
  ASSUME NEW a \in Nat, NEW n \in Nat, NEW c \in Walk(a, n)
  PROVE  c \in Nat /\ (~WalksOff(a, n - 1) => a <= c /\ c <= a + 8 * (n - 1))
<1>1. PICK k \in 0 .. n - 1 : c = Wrap(a + 8 * k)
  BY DEF Walk, Cell
<1>2. a + 8 * k \in Nat /\ (~WalksOff(a, n - 1) => a + 8 * k < WordMod)
  BY <1>1, Layout DEF WalksOff, Cell
<1> QED
  BY <1>1, <1>2, WrapNat

\* A step that uses the parameter stack only.
LEMMA UseParam ==
  ASSUME Use, ptouch' \subseteq Nat, picked' = {}, rtouch' = {}, dtouch' = {},
         allotted' = {}, stop' \in Reasons,
         stop' # "fault" => \A a \in ptouch' : STKLWR <= a /\ a <= STKUPR
  PROVE  Use'
BY UseStep

\* PICK: the cell it copies is a cell from above the bound at most,
LEMMA UsePick ==
  ASSUME IInv, Use, NEW n \in Counts, Pick(n)
  PROVE  Use'
<1>1. psp \in Nat /\ STKLWR <= psp /\ psp <= STKUPR /\ n \in Nat /\ stop = "no"
  BY InputAssumption DEF IInv, Registers, InBounds, Pick
<1>2. CASE Stop("stkunf")
  BY <1>1, <1>2, UseStop DEF Stop, Reasons
<1>3. CASE /\ CHKUNF(psp, n) /\ stop' \in {"no", "fault"}
           /\ Touch({psp}, {Wrap(psp + 8 * n)}, {}, {}, {})
  <2>1. Wrap(psp + 8 * n) \in Nat /\ Wrap(psp + 8 * n) <= STKUPR
    BY <1>1, <1>3, WrapNat DEF CHKUNF, Cell
  <2> QED
    BY <1>1, <1>3, <2>1, UseStep DEF Touch, Reasons
<1> QED
  BY <1>2, <1>3 DEF Pick, Cell

\* ROLL: the cells it moves when the walk over them stays in the process,
LEMMA UseRoll ==
  ASSUME IInv, Use, NEW n \in Counts, Roll(n)
  PROVE  Use'
<1> DEFINE size == RollSize(n)
           top  == psp + 8
<1>1. /\ psp \in Nat /\ STKLWR <= psp /\ psp <= STKUPR /\ stop = "no"
      /\ size \in Nat /\ top \in Nat
  BY RollSizeNat DEF IInv, Registers, InBounds, Roll
<1>2. \/ Stop("stkunf") \/ StopAt("stkunf", top)
      \/ /\ size > 1 => CHKUNF(top, size - 1)
         /\ Touch({psp} \union (IF size > 1 THEN Walk(top, size) ELSE {}),
                  {}, {}, {}, {})
         /\ stop' = IF WalksOff(top, size - 1) THEN "fault" ELSE "no"
  BY DEF Roll, RollSize, Cell
<1> HIDE DEF size
<1>3. CASE Stop("stkunf") \/ StopAt("stkunf", top)
  BY <1>1, <1>3, UseStop DEF Stop, Reasons
<1>4. CASE /\ size > 1 => CHKUNF(top, size - 1)
           /\ Touch({psp} \union (IF size > 1 THEN Walk(top, size) ELSE {}),
                    {}, {}, {}, {})
           /\ stop' = IF WalksOff(top, size - 1) THEN "fault" ELSE "no"
  <2>1. ASSUME NEW a \in ptouch' PROVE a = psp \/ (size > 1 /\ a \in Walk(top, size))
    BY <1>4, <2>1 DEF Touch
  <2>2. ptouch' \subseteq Nat
    BY <1>1, <2>1, WalkFacts
  <2>3. ASSUME NEW a \in ptouch', stop' # "fault" PROVE STKLWR <= a /\ a <= STKUPR
    <3>1. ~WalksOff(top, size - 1)
      BY <1>4, <2>3
    <3>2. CASE size > 1 /\ a \in Walk(top, size)
      <4>1. top <= a /\ a <= top + 8 * (size - 1)
        BY <1>1, <3>1, <3>2, WalkFacts
      <4>2. top + 8 * (size - 1) \in Nat /\ top + 8 * (size - 1) < WordMod
        BY <1>1, <3>1, <3>2, Layout DEF WalksOff, Cell
      <4>3. top + 8 * (size - 1) <= STKUPR
        <5>1. Wrap(top + 8 * (size - 1)) <= STKUPR
          BY <1>4, <3>2 DEF CHKUNF, Cell
        <5> QED
          BY <4>2, <5>1, WrapNat
      <4>4. a \in Nat
        BY <1>1, <3>2, WalkFacts
      <4> QED
        BY <1>1, <4>1, <4>2, <4>3, <4>4, Layout
    <3> QED
      BY <1>1, <2>1, <2>3, <3>2
  <2>4. /\ picked' = {} /\ rtouch' = {} /\ dtouch' = {} /\ allotted' = {}
        /\ stop' \in Reasons
    BY <1>4 DEF Touch, Reasons
  <2> QED
    BY <2>2, <2>3, <2>4, UseParam
<1> QED
  BY <1>2, <1>3, <1>4

\* CALLC: its arguments, with the count and the address of the function,
LEMMA UseCallC ==
  ASSUME IInv, Use, NEW n \in Counts, CallC(n)
  PROVE  Use'
<1> DEFINE args == psp + 16
<1>1. /\ psp \in Nat /\ STKLWR <= psp /\ psp <= STKUPR /\ stop = "no"
      /\ n \in Nat /\ args \in Nat
  BY InputAssumption DEF IInv, Registers, InBounds, CallC
<1>2. \/ \E r \in {"stkunf", "stkovf"} : \E p : StopAt(r, p)
      \/ /\ Touch(Cells(psp, 2) \union Walk(args, n), {}, {}, {}, {}) /\ stop' = "fault"
      \/ /\ CHKUNF(args, n) /\ ~WalksOff(args, n)
         /\ Touch(Cells(psp, n + 2), {}, {}, {}, {}) /\ stop' = stop
  BY DEF CallC, Stop, Cell
<1>3. CASE \E r \in {"stkunf", "stkovf"} : \E p : StopAt(r, p)
  BY <1>1, <1>3, UseStop DEF Reasons
<1>4. CASE Touch(Cells(psp, 2) \union Walk(args, n), {}, {}, {}, {}) /\ stop' = "fault"
  <2>1. ptouch' \subseteq Nat
    BY <1>1, <1>4, WalkFacts, CellsRange DEF Touch
  <2> QED
    BY <1>4, <2>1, UseParam DEF Touch, Reasons
<1>5. CASE /\ CHKUNF(args, n) /\ ~WalksOff(args, n)
           /\ Touch(Cells(psp, n + 2), {}, {}, {}, {}) /\ stop' = stop
  <2>1. args + 8 * n <= STKUPR
    BY <1>1, <1>5, WrapNat, Layout DEF CHKUNF, WalksOff, Cell
  <2>2. ASSUME NEW a \in ptouch' PROVE a \in Nat /\ STKLWR <= a /\ a <= STKUPR
    <3>1. a \in Cells(psp, n + 2) /\ n + 2 \in Nat
      BY <1>1, <1>5, <2>2 DEF Touch
    <3>2. a \in Nat /\ psp <= a /\ a + 8 <= psp + 8 * (n + 2)
      BY <1>1, <3>1, CellsRange DEF Cell
    <3> QED
      BY <1>1, <2>1, <3>2, Layout
  <2> QED
    BY <1>1, <1>5, <2>2, UseParam DEF Touch, Reasons
<1> QED
  BY <1>2, <1>3, <1>4, <1>5

\* a user variable,
LEMMA UseDoUser ==
  ASSUME IInv, Use, NEW c \in BOOLEAN, DoUser(c)
  PROVE  Use'
<1>1. /\ psp \in Nat /\ STKLWR <= psp /\ psp <= STKUPR /\ stop = "no"
  BY DEF IInv, Registers, InBounds, DoUser
<1>2. CASE \E r \in {"stkovf", "rstkovf"} : \E p : StopAt(r, p)
  BY <1>1, <1>2, UseStop DEF Reasons
<1>3. CASE ~(\E r \in {"stkovf", "rstkovf"} : \E p : StopAt(r, p))
  <2>1. /\ CHKOVF(psp, 1) /\ ptouch' = {psp - 8}
        /\ rtouch' = {} \/ (RCHKOVF(1) /\ rtouch' = {rsp - 8})
        /\ picked' = {} /\ dtouch' = {} /\ allotted' = {} /\ stop' = stop
    BY <1>3 DEF DoUser, Stop, Touch, Cell
  <2>2. psp - 8 \in Nat /\ STKLWR <= psp - 8 /\ psp - 8 <= STKUPR
    BY <1>1, <2>1, FewCells, Layout
  <2>3. RCHKOVF(1) => rsp - 8 \in Nat /\ RSTKLWR <= rsp - 8 /\ rsp - 8 <= RSTKUPR
    BY FewReturns, Layout DEF IInv, Registers, InBounds, Cell
  <2> QED
    BY <1>1, <2>1, <2>2, <2>3, UseStep DEF Reasons
<1> QED
  BY <1>2, <1>3

\* _CREATE,
LEMMA UseCreate ==
  ASSUME IInv, Use, NEW n \in NameLens, Create(n)
  PROVE  Use'
<1>1. /\ psp \in Nat /\ STKLWR <= psp /\ psp <= STKUPR /\ dp \in Nat /\ stop = "no"
  BY DEF IInv, Registers, InBounds, Create
<1>2. CASE \E r : Stop(r)
  <2>1. \E r \in Reasons : Stop(r)
    BY <1>2 DEF Create, Stop, StopAt, Reasons
  <2> QED
    BY <1>1, <2>1, UseStop DEF Stop
<1>3. CASE ~(\E r : Stop(r))
  <2>1. PICK size \in Nat : dp' = dp + size /\ psp + 16 <= STKUPR
    BY <1>3, CreateMoves DEF Cell
  <2>2. /\ ptouch' = Cells(psp, 2) /\ picked' = {} /\ rtouch' = {} /\ allotted' = {}
        /\ dtouch' = Cells(dp, (dp' - dp) \div Cell) /\ stop' = stop
    BY <1>3 DEF Create, Touch
  <2>3. (dp' - dp) \div Cell \in Nat
    BY <1>1, <2>1 DEF Cell
  <2>4. ASSUME NEW a \in ptouch' PROVE a \in Nat /\ STKLWR <= a /\ a <= STKUPR
    BY <1>1, <2>1, <2>2, <2>4, CellsRange, Layout DEF Cell
  <2>5. ASSUME NEW a \in dtouch' PROVE a \in Nat
    BY <1>1, <2>2, <2>3, <2>5, CellsRange
  <2> QED
    BY <1>1, <2>2, <2>4, <2>5, UseStep DEF Reasons
<1> QED
  BY <1>2, <1>3

\* ALLOT,
LEMMA UseAllot ==
  ASSUME IInv, Use, NEW n \in AllotCounts, Allot(n)
  PROVE  Use'
<1>1. /\ psp \in Nat /\ STKLWR <= psp /\ psp <= STKUPR /\ dp \in Nat /\ stop = "no"
      /\ n \in Nat
  BY InputAssumption DEF IInv, Registers, InBounds, Allot
<1>2. CASE \E r \in Reasons : \E p : StopAt(r, p)
  BY <1>1, <1>2, UseStop
<1>3. CASE /\ ptouch' = {psp} /\ picked' = {} /\ rtouch' = {} /\ dtouch' = {}
           /\ allotted' = Cells(dp, n) /\ stop' = stop
  <2>1. allotted' \subseteq Nat
    BY <1>1, <1>3, CellsRange
  <2> QED
    BY <1>1, <1>3, <2>1, UseStep DEF Reasons
<1> QED
  BY <1>2, <1>3, AllotMoves

\* every step.
LEMMA UseNext == IInv /\ Use /\ [Next]_vars => Use'
<1> SUFFICES ASSUME IInv, Use, [Next]_vars PROVE Use'
  OBVIOUS
<1>1. ASSUME NEW w \in Words, Exec(w) PROVE Use'
  BY <1>1, UseExec
<1>2. ASSUME NEW n \in Counts, Pick(n) \/ Roll(n) \/ CallC(n) PROVE Use'
  BY <1>2, UsePick, UseRoll, UseCallC
<1>3. ASSUME NEW c \in BOOLEAN, DoUser(c) PROVE Use'
  BY <1>3, UseDoUser
<1>4. ASSUME NEW n \in NameLens, Create(n) PROVE Use'
  BY <1>4, UseCreate
<1>5. ASSUME NEW n \in AllotCounts, Allot(n) PROVE Use'
  BY <1>5, UseAllot
<1>6. CASE Quit
  BY <1>6, UseStop DEF Quit, Stop, Reasons
<1>7. CASE UNCHANGED vars
  BY <1>7, UseStep DEF vars, used, Use, ParamUse, PickUse, ReturnUse, DictUse
<1> QED
  BY <1>1, <1>2, <1>3, <1>4, <1>5, <1>6, <1>7 DEF Next

-----------------------------------------------------------------------------
(* What is compiled at HERE. *)

\* One step of the dictionary: HERE stays or grows, and what is compiled lies
\* between the old HERE and the new one.
Grows == stop' = "no" => /\ dp <= dp'
                         /\ \A a \in dtouch' : dp <= a /\ a + Cell <= dp'

\* A step that compiles k cells and moves DP over them.
LEMMA GrowsCells ==
  ASSUME IInv, NEW k \in Nat, dtouch' = Cells(dp, k), dp' = dp + Cell * k
  PROVE  Grows
<1>1. dp \in Nat
  BY DEF IInv, Registers
<1>2. ASSUME NEW a \in dtouch' PROVE dp <= a /\ a + Cell <= dp'
  BY <1>1, <1>2, CellsRange DEF Cell
<1> QED
  BY <1>1, <1>2 DEF Grows, Cell

\* A step that compiles nothing and leaves HERE or moves it up.
LEMMA GrowsNothing ==
  ASSUME IInv, dtouch' = {}, dp' = dp \/ \E k \in Nat : dp' = dp + 8 * k
  PROVE  Grows
BY DEF Grows, IInv, Registers

\* The definition of a name compiles the cells of its header.
LEMMA GrowsCreate ==
  ASSUME IInv, NEW n \in NameLens, Create(n)
  PROVE  Grows
<1>1. CASE \E r : Stop(r)
  <2>1. PICK r : Stop(r)
    BY <1>1
  <2>2. psp' = psp /\ psp \in Nat
    BY <2>1 DEF Stop, StopAt, IInv, Registers
  <2>3. Stop("stkunf") \/ Stop("dspcovf")
    BY <2>2 DEF Create, Cell
  <2> QED
    BY <2>3 DEF Stop, StopAt, Grows
<1>2. CASE ~(\E r : Stop(r))
  <2>1. PICK size \in Nat : size % Cell = 0 /\ dp' = dp + size
    BY <1>2, CreateMoves
  <2>2. dtouch' = Cells(dp, (dp' - dp) \div Cell) /\ dp \in Nat
    BY <1>2 DEF Create, Touch, IInv, Registers
  <2>3. size \div Cell \in Nat /\ size = Cell * (size \div Cell) /\ dp' - dp = size
    BY <2>1, <2>2 DEF Cell
  <2> QED
    BY <2>1, <2>2, <2>3, GrowsCells
<1> QED
  BY <1>1, <1>2

\* Every step of the machine.
LEMMA GrowsNext ==
  ASSUME IInv, Next
  PROVE  Grows
<1>1. ASSUME NEW r, NEW p, r # "no", StopAt(r, p) PROVE Grows
  BY <1>1 DEF StopAt, Grows
<1>2. ASSUME NEW w \in Words, Exec(w) PROVE Grows
  <2>1. CASE FailedCheck(w) # "no"
    BY <1>1, <1>2, <2>1 DEF Exec, Stop
  <2>2. CASE FailedCheck(w) = "no"
    <3>1. dtouch' = Cells(dp, w.dput) /\ dp' = dp + Cell * w.dput
      BY <1>2, <2>2 DEF Exec, Touch
    <3>2. w.dput \in Nat
      BY <1>2, CheckedSound DEF Words, Extract, Repeat, Sig, CSig, Natural
    <3> QED
      BY <3>1, <3>2, GrowsCells
  <2> QED
    BY <2>1, <2>2
<1>3. ASSUME NEW n \in Counts, Pick(n) \/ Roll(n) \/ CallC(n) PROVE Grows
  <2>1. \/ \E r \in {"stkunf", "stkovf"} : \E p : StopAt(r, p)
        \/ dtouch' = {} /\ dp' = dp
    BY <1>3 DEF Pick, Roll, CallC, Stop, Touch, registers
  <2> QED
    BY <1>1, <2>1, GrowsNothing
<1>4. ASSUME NEW c \in BOOLEAN, DoUser(c) PROVE Grows
  <2>1. \/ \E r \in {"stkovf", "rstkovf"} : \E p : StopAt(r, p)
        \/ dtouch' = {} /\ dp' = dp
    BY <1>4 DEF DoUser, Stop, Touch
  <2> QED
    BY <1>1, <2>1, GrowsNothing
<1>5. ASSUME NEW n \in NameLens, Create(n) PROVE Grows
  BY <1>5, GrowsCreate
<1>6. ASSUME NEW n \in AllotCounts, Allot(n) PROVE Grows
  BY <1>1, <1>6, AllotMoves, GrowsNothing
<1>7. CASE Quit
  BY <1>1, <1>7 DEF Quit, Stop
<1> QED
  BY <1>2, <1>3, <1>4, <1>5, <1>6, <1>7 DEF Next

-----------------------------------------------------------------------------
(* The cells that ALLOT is asked for. *)

\* No count that ALLOT accepts loses a bit when it is multiplied by the cell size.
AllotExact == \A n \in AllotCounts : IsNegative(n) \/ n < WordMod \div Cell

\* ALLOT reserves what it is asked for,
LEMMA ReservedAllot ==
  ASSUME IInv, CellsReserved, AllotExact, NEW n \in AllotCounts, Allot(n)
  PROVE  CellsReserved'
<1>1. CASE \E r, p : StopAt(r, p)
  BY <1>1 DEF StopAt, used, CellsReserved, DSPCLWR, DSPCUPR, STKUPR, RSTKUPR
<1>2. CASE ~(\E r, p : StopAt(r, p))
  <2>1. PICK k \in Nat : /\ TimesCell(n) = 8 * k /\ dp' = dp + 8 * k
                         /\ dp' <= DSPCUPR /\ allotted' = Cells(dp, n)
                         /\ ~IsNegative(n)
    BY <1>2, AllotMoves
  <2>2. n \in Nat /\ n < WordMod \div Cell /\ WordMod \div Cell \in Nat
    BY <2>1, InputAssumption, MemoryAssumption DEF AllotExact, Cell
  <2>3. n % (WordMod \div Cell) = n
    <3> DEFINE m == WordMod \div Cell
    <3>1. n \in Nat /\ m \in Nat /\ n < m
      BY <2>2
    <3> HIDE DEF m
    <3>2. n % m = n
      BY <3>1
    <3> QED
      BY <3>2 DEF m
  <2>4. dp' = dp + 8 * n
    BY <2>1, <2>2, <2>3 DEF TimesCell, Cell
  <2>5. dp \in Nat /\ DSPCLWR \in Nat /\ DSPCLWR <= dp
    BY Layout DEF IInv, Registers, InBounds
  <2>6. ASSUME NEW a \in allotted' PROVE DSPCLWR <= a /\ a + Cell <= dp'
    BY <2>1, <2>2, <2>4, <2>5, <2>6, CellsRange DEF Cell
  <2> QED
    BY <2>1, <2>6 DEF CellsReserved, DSPCLWR, DSPCUPR, STKUPR, RSTKUPR
<1> QED
  BY <1>1, <1>2

\* and no other word is asked for cells.
LEMMA ReservedNext ==
  IInv /\ CellsReserved /\ AllotExact /\ [Next]_vars => CellsReserved'
<1> SUFFICES ASSUME IInv, CellsReserved, AllotExact, [Next]_vars PROVE CellsReserved'
  OBVIOUS
<1>1. ASSUME allotted' = {} PROVE CellsReserved'
  BY <1>1 DEF CellsReserved
<1>2. ASSUME NEW r, NEW p, StopAt(r, p) PROVE CellsReserved'
  BY <1>2 DEF StopAt, used, CellsReserved, DSPCLWR, DSPCUPR, STKUPR, RSTKUPR
<1>3. ASSUME NEW w \in Words, Exec(w) PROVE CellsReserved'
  BY <1>1, <1>2, <1>3 DEF Exec, Stop, Touch
<1>4. ASSUME NEW n \in Counts, Pick(n) \/ Roll(n) \/ CallC(n) PROVE CellsReserved'
  BY <1>1, <1>2, <1>4 DEF Pick, Roll, CallC, Stop, Touch
<1>5. ASSUME NEW c \in BOOLEAN, DoUser(c) PROVE CellsReserved'
  BY <1>1, <1>2, <1>5 DEF DoUser, Stop, Touch
<1>6. ASSUME NEW n \in NameLens, Create(n) PROVE CellsReserved'
  BY <1>1, <1>2, <1>6 DEF Create, Stop, Touch
<1>7. ASSUME NEW n \in AllotCounts, Allot(n) PROVE CellsReserved'
  BY <1>7, ReservedAllot
<1>8. CASE Quit
  BY <1>2, <1>8 DEF Quit, Stop
<1>9. CASE UNCHANGED vars
  BY <1>9 DEF vars, registers, used, CellsReserved, DSPCLWR, DSPCUPR, STKUPR, RSTKUPR
<1> QED
  BY <1>3, <1>4, <1>5, <1>6, <1>7, <1>8, <1>9 DEF Next

-----------------------------------------------------------------------------
(* Theorems. *)

\* The inductive invariant holds in every reachable state.
THEOREM Inductive == Spec => []IInv
BY IInvInit, IInvNext, PTL DEF Spec

\* Whatever the program and the sizes, DP, PSP and RSP stay in their regions of
\* the block (RSP up to the one cell of REPEAT's missing check).
THEOREM BoundsTheorem == Spec => []InBounds
<1>1. IInv => InBounds
  BY DEF IInv
<1> QED
  BY <1>1, Inductive, PTL

\* Whatever words the counts are, no word that goes on uses a cell more than one above
\* its stack (PICK, ROLL, FEXTRACT and REPEAT reach that one), and none but PICK a
\* cell below.
THEOREM SlackTheorem == Spec => []OneCellSlack
<1>1. Use => OneCellSlack
  BY DEF Use, ParamUse, PickUse, ReturnUse, OneCellSlack
<1> QED
  BY <1>1, UseInit, UseNext, Inductive, PTL DEF Spec

\* Type correctness: the registers are addresses and the machine stops for one of
\* the reasons of ERREND, at QUIT or at an address without memory.
THEOREM TypeTheorem == Spec => []TypeOK
<1>1. IInv /\ Use => TypeOK
  BY DEF IInv, Registers, Use, ParamUse, PickUse, ReturnUse, DictUse, TypeOK
<1> QED
  BY <1>1, UseInit, UseNext, Inductive, PTL DEF Spec

\* Whatever is compiled, created or allotted, with any count: HERE never moves back and
\* nothing is compiled below the HERE that a word found.
THEOREM DictionaryTheorem == Spec => DictionaryGrows
<1>1. IInv /\ [Next]_vars =>
        [stop' = "no" => /\ dp <= dp'
                         /\ \A a \in dtouch' : dp <= a /\ a + Cell <= dp']_vars
  BY GrowsNext DEF Grows
<1> QED
  BY <1>1, Inductive, PTL DEF Spec, DictionaryGrows

\* As long as no count of ALLOT loses a bit in the multiplication (line 3408), the
\* cells it was asked for lie in the dictionary and below HERE.
THEOREM ReservedTheorem == AllotExact => (Spec => []CellsReserved)
<1> SUFFICES ASSUME AllotExact PROVE Spec => []CellsReserved
  OBVIOUS
<1>1. Init => CellsReserved
  BY DEF Init, CellsReserved
<1>2. IInv /\ CellsReserved /\ [Next]_vars => CellsReserved'
  BY ReservedNext
<1> QED
  BY <1>1, <1>2, Inductive, PTL DEF Spec
============================================================================
