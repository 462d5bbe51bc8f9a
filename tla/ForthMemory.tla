---------------------------- MODULE ForthMemory ----------------------------
(***************************************************************************)
(* The memory block of the FORTH virtual machine (fvm_asm.nasm).           *)
(*                                                                         *)
(* fvm_run gets one block and divides it into the dictionary space, which  *)
(* grows upwards, the parameter stack, which grows downwards towards it,   *)
(* and the return stack at the top.  Three registers walk through the      *)
(* block: DP (rbx), PSP (r15) and RSP (r14).  Nothing but the check macros *)
(* CHKUNF, CHKOVF, RCHKUNF, RCHKOVF and DSPCOVF, which every word places   *)
(* by hand, keeps the registers apart.                                     *)
(*                                                                         *)
(* A word written in assembly is represented by its signature: the checks  *)
(* it makes and the cells it then reads, writes and moves over.  What the  *)
(* cells hold is left out: a program is any sequence of words, and a count *)
(* it takes from the stack is any word, negative or huge.                  *)
(***************************************************************************)
EXTENDS Integers

CONSTANTS
  MemAddr,     \* address of the memory block                 (rdi of fvm_run)
  MemSize,     \* its size in bytes                           (rsi of fvm_run)
  RStkSize,    \* size of the return stack in bytes           (rdx of fvm_run)
  WordMod,     \* 2 ^ (number of bits of a register)
  Counts,      \* counts given to PICK, ROLL and CALLC, as unsigned words
  AllotCounts, \* counts given to ALLOT, as unsigned words
  NameLens     \* lengths given to _CREATE

Cell == 8

\* The block is aligned to cells, begins behind the null pointer, holds at least
\* the QUIT entry of the return stack, and lies in the lower half of the address
\* space, where a process has its memory; an address holds whole bytes and reaches
\* beyond the cells of one word.  The caller in test_fvm.c has the block from malloc.
ASSUME MemoryAssumption ==
  /\ MemAddr \in Nat /\ MemAddr % Cell = 0 /\ 2 * Cell <= MemAddr
  /\ MemSize \in Nat /\ RStkSize \in Nat
  /\ Cell <= RStkSize /\ RStkSize <= MemSize
  /\ WordMod \in Nat /\ 128 <= WordMod /\ WordMod % Cell = 0
  /\ MemAddr + MemSize <= WordMod \div 2

ASSUME InputAssumption ==
  /\ Counts \subseteq 0 .. WordMod - 1
  /\ AllotCounts \subseteq 0 .. WordMod - 1
  /\ NameLens \subseteq Nat

-----------------------------------------------------------------------------
(* The division of the block, lines 186-239. *)

RSTKUPR == MemAddr + MemSize
STKUPR  == RSTKUPR - RStkSize
RSTKLWR == STKUPR
DSPCLWR == MemAddr
DSPCUPR == MemAddr + (STKUPR - MemAddr) \div 2
STKLWR  == DSPCUPR

VARIABLES
  psp,    \* r15, the parameter stack pointer
  rsp,    \* r14, the return stack pointer
  dp,     \* rbx, the dictionary pointer
  ptouch, \* addresses of the cells the last word used relative to PSP
  picked, \* ... of the cell that PICK copied
  rtouch, \* ... of the cells used relative to RSP
  dtouch, \* ... of the cells compiled at DP
  allotted, \* ... of the cells at DP that ALLOT was asked for
  stop    \* "no" while the machine runs, else why it stopped

registers == <<psp, rsp, dp>>
used == <<ptouch, picked, rtouch, dtouch, allotted>>
vars == <<registers, used, stop>>

\* The messages of ERREND, QUIT, and an access to an address without memory.
Reasons == {"no", "quit", "stkovf", "stkunf", "rstkovf", "rstkunf",
            "dspcovf", "negallot", "fault"}

\* n cells upwards from address a.
Cells(a, n) == {a + Cell * k : k \in 0 .. n - 1}

-----------------------------------------------------------------------------
(* The check macros.  Each computes one end of the accessed cells, modulo  *)
(* the word, and compares it unsigned with one bound; a failed check       *)
(* leaves through ERREND and ends fvm_run.                                 *)

Wrap(a) == a % WordMod

\* Mutants: a check that never fails, and checks for one cell less.
CHKOVF_Never(p, n) == TRUE
CHKUNF_OffByOne(p, n) == Wrap(p + Cell * (n - 1)) <= STKUPR
RCHKUNF_OffByOne(n) == Wrap(rsp + Cell * (n - 1)) <= RSTKUPR

CHKOVF(p, n)  == Wrap(p - Cell * n) >= STKLWR
CHKUNF(p, n)  == Wrap(p + Cell * n) <= STKUPR
RCHKOVF(n)    == Wrap(rsp - Cell * n) >= RSTKLWR
RCHKUNF(n)    == Wrap(rsp + Cell * n) <= RSTKUPR
DSPCOVF(n)    == Wrap(dp + Cell * n) <= DSPCUPR

\* ERREND: the message goes to stderr and fvm_term unwinds the machine.  Words that
\* drop or push a cell before a check that fails leave PSP moved to p.
StopAt(reason, p) ==
  /\ stop' = reason /\ psp' = p
  /\ UNCHANGED <<rsp, dp, used>>

Stop(reason) == StopAt(reason, psp)

\* What a word uses that is not stopped by a check.
Touch(pt, pk, rt, dt, al) ==
  /\ ptouch' = pt /\ picked' = pk /\ rtouch' = rt /\ dtouch' = dt
  /\ allotted' = al

\* n cells from address a whose end lies beyond the word: a walk over them goes
\* through the upper half, where the process has no memory.
Walk(a, n) == {Wrap(a + Cell * k) : k \in 0 .. n - 1}
WalksOff(a, n) == a + Cell * n >= WordMod

-----------------------------------------------------------------------------
(* Signatures.  unf, ovf, runf, rovf and dsp are the arguments of the      *)
(* checks, 0 where the word has no such check.  pop and push are the cells *)
(* used above the old and the new PSP, rpop and rpush those of RSP, dput   *)
(* the cells stored at DP.                                                 *)

Sig(names, unf, ovf, pop, push) ==
  [word : names, unf : {unf}, ovf : {ovf}, pop : {pop}, push : {push},
   runf : {0}, rovf : {0}, rpop : {0}, rpush : {0}, dsp : {0}, dput : {0}]

CSig(names, unf, pop, runf, rovf, rpop, rpush, dsp) ==
  [word : names, unf : {unf}, ovf : {0}, pop : {pop}, push : {0},
   runf : {runf}, rovf : {rovf}, rpop : {rpop}, rpush : {rpush},
   dsp : {dsp}, dput : {dsp}]

Arithmetic ==
  Sig({"+", "-", "*", "/", "U/", "MOD", "UMOD"}, 2, 0, 2, 1)
    \union Sig({"1+", "1-"}, 1, 0, 1, 1)
    \union Sig({"*/", "U*/"}, 3, 0, 3, 1)
    \union Sig({"/MOD", "U/MOD"}, 2, 0, 2, 2)

Comparison ==
  Sig({"<0", "<=0", ">0", "U>0", ">=0", "=0", "<>0"}, 1, 0, 1, 1)
    \union Sig({"<", "U<", "<=", "U<=", ">", "U>", ">=", "U>=", "=", "<>"},
               2, 0, 2, 1)

BitAndMemory ==
  Sig({"NEG", "NOT", "@", "CELLS"}, 1, 0, 1, 1)
    \union Sig({"AND", "OR", "XOR", "NAND", "NOR", "XNOR"}, 2, 0, 2, 1)
    \union Sig({"!"}, 2, 0, 2, 0)
    \union Sig({"CELL"}, 0, 1, 0, 1)

StackWords ==
  Sig({"LIT"}, 0, 1, 0, 1)
    \union Sig({"DUP"}, 1, 1, 1, 2)
    \union Sig({"SWAP"}, 2, 0, 2, 2)
    \union Sig({"ROT"}, 3, 0, 3, 3)
    \union Sig({"OVER"}, 2, 1, 2, 3)
    \union Sig({"DROP"}, 1, 0, 1, 0)

Floating ==
  Sig({"I2F", "F2I", "FRNDMODE", "FRNDINT", "FNEG", "FABS"}, 1, 0, 1, 1)
    \union Sig({"F+", "F-", "F*", "F/", "FMOD", "FCOMP", "FPOWL"}, 2, 0, 2, 1)

Variables ==
  Sig({">LATEST", "HERE", "?FREEDSP", ">IN", ">MAX", ">INP", ">OUT", "BASE",
       "INP", "NAME", "DOT", ">MANTISSA", ">FRACTION", ">FRACNDIG",
       ">EXPONENT", "?PUTBACK", "?IMMEDIATE"}, 0, 1, 0, 1)

InputOutput ==
  Sig({"?ERR0", "SX3264", "ZX3264", "C@", "?SPC"}, 1, 0, 1, 1)
    \union Sig({"SYSREAD", "SYSWRITE"}, 3, 0, 3, 1)
    \union Sig({"?SKIP", "?JUMP", "INCR", "CINCR", "DECR", "CDECR", ">PUTBACK"},
               1, 0, 1, 0)
    \union Sig({"C!"}, 2, 0, 2, 0)

Parsing ==
  Sig({">UPPER", ">LOWER", ">CFA", "CHKPTR"}, 1, 0, 1, 1)
    \union Sig({"?MATCHDEF"}, 3, 1, 3, 4)
    \union Sig({"DIGIT"}, 1, 1, 1, 2)
    \union Sig({"FLOG"}, 2, 0, 2, 1)
    \union Sig({"GETREAL"}, 0, 2, 0, 2)

NumberOutput ==
  Sig({"FIXUPEXP"}, 7, 0, 7, 2)
    \union Sig({"FTRUNC", "DIG2CHR", "FEXAM", "?FSIGN", "ZSTRLEN"}, 1, 0, 1, 1)
    \union Sig({"DIG!"}, 3, 0, 3, 2)
    \union Sig({"DOT!", "MINUS!", "EXPIND!"}, 2, 0, 2, 2)
    \union Sig({"CMOVE", "MOVE"}, 3, 0, 3, 0)
    \union Sig({"EVAL"}, 2, 0, 2, 0)
    \union Sig({"PREP", "PREP2", ">ADDRESS0"}, 0, 1, 0, 1)

\* FEXTRACT replaces one number by two and checks only for room.
Extract == Sig({"FEXTRACT"}, 0, 1, 1, 2)

\* fvm_docol, EXIT, >R, R>, RUNCODE.
Threading ==
  CSig({"DOCOL"}, 0, 0, 0, 1, 0, 1, 0)
    \union CSig({"EXIT"}, 0, 0, 1, 0, 1, 0, 0)
    \union CSig({">R"}, 1, 1, 0, 1, 0, 1, 0)
    \union Sig({"RUNCODE"}, 1, 0, 1, 0)
    \union [word : {"R>"}, unf : {0}, ovf : {1}, pop : {0}, push : {1},
            runf : {1}, rovf : {0}, rpop : {1}, rpush : {0},
            dsp : {0}, dput : {0}]

\* The words that compile into the dictionary, and the control structures,
\* whose marks travel over the return stack.
Compiling ==
  CSig({"COMMA"}, 1, 1, 0, 0, 0, 0, 1)
    \union CSig({"COMPILE"}, 0, 0, 0, 0, 0, 0, 1)
    \union CSig({"IF", "UNLESS", "WHILE"}, 0, 0, 0, 1, 0, 1, 3)
    \union CSig({"ELSE"}, 0, 0, 1, 0, 1, 1, 2)
    \union CSig({"THEN"}, 0, 0, 1, 0, 1, 0, 0)
    \union CSig({"BEGIN"}, 0, 0, 0, 1, 0, 1, 0)
    \union CSig({"AGAIN"}, 0, 0, 1, 0, 1, 0, 2)
    \union CSig({"UNTIL"}, 0, 0, 1, 0, 1, 0, 3)

\* REPEAT takes two marks off the return stack and checks for one.
Repeat == CSig({"REPEAT"}, 0, 0, 1, 0, 2, 0, 2)

\* The words whose checks cover what they do.
CheckedWords ==
  Arithmetic \union Comparison \union BitAndMemory \union StackWords
    \union Floating \union Variables \union InputOutput \union Parsing
    \union NumberOutput \union Threading \union Compiling

Words == CheckedWords \union Extract \union Repeat

-----------------------------------------------------------------------------
(* Actions. *)

Init ==
  /\ psp = STKUPR
  /\ rsp = RSTKUPR - Cell        \* the QUIT entry
  /\ dp = DSPCLWR
  /\ ptouch = {} /\ picked = {} /\ rtouch = {} /\ dtouch = {} /\ allotted = {}
  /\ stop = "no"

\* The check of word w that fails, or "no".  A word makes at most two of them;
\* WHILE, AGAIN, UNTIL and REPEAT look at the return stack before the dictionary,
\* IF, UNLESS and ELSE after it.
DictionaryFirst == {"IF", "UNLESS", "ELSE"}

FailedCheck(w) ==
  LET param == IF w.unf > 0 /\ ~CHKUNF(psp, w.unf) THEN "stkunf"
               ELSE IF w.ovf > 0 /\ ~CHKOVF(psp, w.ovf) THEN "stkovf" ELSE "no"
      ret   == IF w.runf > 0 /\ ~RCHKUNF(w.runf) THEN "rstkunf"
               ELSE IF w.rovf > 0 /\ ~RCHKOVF(w.rovf) THEN "rstkovf" ELSE "no"
      dict  == IF w.dsp > 0 /\ ~DSPCOVF(w.dsp) THEN "dspcovf" ELSE "no"
  IN  IF param # "no" THEN param
      ELSE IF w.word \in DictionaryFirst /\ dict # "no" THEN dict
      ELSE IF ret # "no" THEN ret ELSE dict

\* A word of the table: its checks, then its effect.
Exec(w) ==
  /\ stop = "no"
  /\ IF FailedCheck(w) # "no" THEN Stop(FailedCheck(w))
     ELSE /\ psp' = psp + Cell * w.pop - Cell * w.push
          /\ rsp' = rsp + Cell * w.rpop - Cell * w.rpush
          /\ dp' = dp + Cell * w.dput
          /\ Touch(Cells(psp, w.pop) \union Cells(psp', w.push), {},
                   Cells(rsp, w.rpop) \union Cells(rsp', w.rpush),
                   Cells(dp, w.dput), {})
          /\ UNCHANGED stop

IsNegative_Never(n) == FALSE
IsNegative(n) == n >= WordMod \div 2

\* PICK ( n -- nth ) checks with n still on the stack, so n cells above PSP
\* pass although the cell it reads is the one after them, and only from above, so
\* a count that wraps around passes as well.  Memory in front of the block may be
\* the process's or not.
Pick(n) ==
  LET a == Wrap(psp + Cell * n)
  IN  /\ stop = "no"
      /\ IF ~CHKUNF(psp, 1) \/ ~CHKUNF(psp, n) THEN Stop("stkunf")
         ELSE /\ Touch({psp}, {a}, {}, {}, {})
              /\ stop' \in IF a < MemAddr THEN {"no", "fault"} ELSE {"no"}
              /\ UNCHANGED registers

\* ROLL ( n -- ), and with a negative count in the other direction over the same
\* cells: the count is dropped, then all cells but one are checked, all are moved.
Roll(n) ==
  LET size == IF IsNegative(n) THEN WordMod - n ELSE n
      top  == psp + Cell
      moved == IF size > 1 THEN Walk(top, size) ELSE {}
  IN  /\ stop = "no"
      /\ IF ~CHKUNF(psp, 1) THEN Stop("stkunf")
         ELSE IF size > 1 /\ ~CHKUNF(top, size - 1) THEN StopAt("stkunf", top)
         ELSE /\ psp' = top
              /\ Touch({psp} \union moved, {}, {}, {}, {})
              /\ stop' = IF WalksOff(top, size - 1) THEN "fault" ELSE "no"
              /\ UNCHANGED <<rsp, dp>>

\* CALLC ( args... n func -- result ): the C function gets n cells.
CallC(n) ==
  LET args == psp + 2 * Cell
      top  == args + Cell * n
  IN  /\ stop = "no"
      /\ IF ~CHKUNF(psp, 2) THEN Stop("stkunf")
         ELSE IF ~CHKUNF(args, n) THEN StopAt("stkunf", args)
         ELSE IF WalksOff(args, n)
         THEN /\ psp' = args /\ stop' = "fault"
              /\ Touch(Cells(psp, 2) \union Walk(args, n), {}, {}, {}, {})
              /\ UNCHANGED <<rsp, dp>>
         ELSE IF ~CHKOVF(top, 1) THEN StopAt("stkovf", top)
         ELSE /\ psp' = top - Cell
              /\ Touch(Cells(psp, n + 2), {}, {}, {}, {})
              /\ UNCHANGED <<rsp, dp, stop>>

\* fvm_douser: a created word pushes its parameter field and, when DOES> left
\* code for it, enters that code.
DoUser(hasCode) ==
  /\ stop = "no"
  /\ IF ~CHKOVF(psp, 1) THEN Stop("stkovf")
     ELSE IF hasCode /\ ~RCHKOVF(1) THEN StopAt("rstkovf", psp - Cell)
     ELSE /\ psp' = psp - Cell
          /\ rsp' = IF hasCode THEN rsp - Cell ELSE rsp
          /\ Touch({psp'}, {}, IF hasCode THEN {rsp'} ELSE {}, {}, {})
          /\ UNCHANGED <<dp, stop>>

\* _CREATE ( addr len -- here ): link, length byte and name, padded to a cell.
\* The size is checked in cells from DP, the new DP is rounded as an address.
RoundUp(a) == Cell * ((a + Cell - 1) \div Cell)
NameLimit == 31

Create(n) ==
  LET len  == IF n <= NameLimit THEN n ELSE NameLimit
      size == RoundUp(Cell + 1 + len)
  IN  /\ stop = "no"
      /\ IF ~CHKUNF(psp, 2) THEN Stop("stkunf")
         ELSE IF ~DSPCOVF(size \div Cell) THEN Stop("dspcovf")
         ELSE /\ dp' = RoundUp(dp + Cell + 1 + len)
              /\ psp' = psp + Cell
              /\ Touch(Cells(psp, 2), {}, {}, Cells(dp, (dp' - dp) \div Cell), {})
              /\ UNCHANGED <<rsp, stop>>

\* shl rdx,3: the top three bits of the word are lost.
TimesCell(n) == Cell * (n % (WordMod \div Cell))

\* ALLOT ( n -- ), n an unsigned word.  The sign is tested before and after the
\* multiplication; the cells it is asked for are the n cells from DP.
Allot(n) ==
  LET bytes == TimesCell(n)
      top   == psp + Cell
  IN  /\ stop = "no"
      /\ IF ~CHKUNF(psp, 1) THEN Stop("stkunf")
         ELSE IF IsNegative(n) \/ IsNegative(bytes) THEN StopAt("negallot", top)
         ELSE IF ~DSPCOVF(bytes \div Cell) THEN StopAt("dspcovf", top)
         ELSE /\ dp' = Wrap(dp + bytes)
              /\ psp' = top
              /\ Touch({psp}, {}, {}, {}, Cells(dp, n))
              /\ UNCHANGED <<rsp, stop>>

Quit == stop = "no" /\ Stop("quit")

Next ==
  \/ \E w \in Words : Exec(w)
  \/ \E n \in Counts : Pick(n) \/ Roll(n) \/ CallC(n)
  \/ \E c \in BOOLEAN : DoUser(c)
  \/ \E n \in NameLens : Create(n)
  \/ \E n \in AllotCounts : Allot(n)
  \/ Quit

Spec == Init /\ [][Next]_vars

-----------------------------------------------------------------------------
(* Properties. *)

TypeOK ==
  /\ psp \in Nat /\ rsp \in Nat /\ dp \in Nat
  /\ ptouch \subseteq Nat /\ picked \subseteq Nat /\ rtouch \subseteq Nat
  /\ dtouch \subseteq Nat /\ allotted \subseteq Nat
  /\ stop \in Reasons

(***************************************************************************)
(* Whatever the program, the three registers stay apart: the dictionary    *)
(* ends below the middle of the block, the parameter stack stays between   *)
(* the middle and the return stack, and RSP leaves the block by one cell   *)
(* at most, which is what REPEAT's single check permits (README line 30:   *)
(* "Bounds checking for parameter and return stack and dictionary          *)
(* pointers").                                                             *)
(***************************************************************************)
InBounds ==
  /\ DSPCLWR <= dp /\ dp <= DSPCUPR
  /\ STKLWR <= psp /\ psp <= STKUPR
  /\ RSTKLWR <= rsp /\ rsp <= RSTKUPR + Cell

(***************************************************************************)
(* The cells a word uses, whatever count it is given: never below its      *)
(* stack, never more than one cell above it.  PICK, ROLL, FEXTRACT and     *)
(* REPEAT need that one cell.  Two things are exempt, and no others: the   *)
(* cell that PICK copies may lie anywhere below, and a word that faults    *)
(* has walked through the whole address space.                             *)
(***************************************************************************)
OneCellSlack ==
  /\ stop # "fault" => \A a \in ptouch : STKLWR <= a /\ a <= STKUPR
  /\ \A a \in picked : a <= STKUPR
  /\ \A a \in rtouch : RSTKLWR <= a /\ a <= RSTKUPR

(***************************************************************************)
(* What lies in the dictionary stays there: whatever a program compiles,   *)
(* creates or allots, HERE never moves back, and a word that goes on has   *)
(* compiled between the old HERE and the new one only.  The sign tests of  *)
(* ALLOT (lines 3405-3412) and the check of _CREATE (line 2833) are for    *)
(* this.                                                                   *)
(***************************************************************************)
DictionaryGrows ==
  [][stop' = "no" => /\ dp <= dp'
                     /\ \A a \in dtouch' : dp <= a /\ a + Cell <= dp']_vars

(***************************************************************************)
(* What README line 30 promises without slack: every cell that any word    *)
(* uses is a cell of its own stack.                                        *)
(***************************************************************************)
BoundsChecked ==
  /\ \A a \in ptouch \union picked : STKLWR <= a /\ a + Cell <= STKUPR
  /\ \A a \in rtouch : RSTKLWR <= a /\ a + Cell <= RSTKUPR

(***************************************************************************)
(* What line 3394 says of ALLOT ("reserve n words of space at HERE"): the  *)
(* n cells it was asked for lie in the dictionary space and below the new  *)
(* HERE.                                                                   *)
(***************************************************************************)
CellsReserved ==
  \A a \in allotted : DSPCLWR <= a /\ a + Cell <= dp /\ dp <= DSPCUPR
============================================================================
