--------------------------- MODULE ForthCompiler ---------------------------
(***************************************************************************)
(* The colon compiler and the inner interpreter of the FORTH virtual       *)
(* machine (fvm_asm.nasm): : ; [ ] IMMEDIATE HIDE UNHIDE, the control      *)
(* structures, [COMPILE], FIND and INTERPRET on the compiling side, NEXT,  *)
(* fvm_docol, EXIT, JUMP and ?JUMP on the running side; CREATE, VARIABLE,  *)
(* DOES> and fvm_douser, which do both: a running word adds a word to the  *)
(* dictionary and gives it code.                                           *)
(*                                                                         *)
(* A control structure leaves the address of the operand it has to patch,  *)
(* or of its loop, on the return stack, on top of the return addresses of  *)
(* the interpreter itself.  A return address of the interpreter and of     *)
(* QUIT lies in read-only memory; those of compiled code are addresses of  *)
(* cells.                                                                  *)
(*                                                                         *)
(* Memory is the sequence of compiled cells; headers of the dictionary are *)
(* the separate sequence `words`.  "x" and "flag" stand for all words that *)
(* only act and that leave a value; the bounds of the dictionary are those *)
(* of ForthMemory.  What the system's own words put on the stacks and take *)
(* back before they end is left out.  A text names no word like one of     *)
(* the system's (where one would, the model has no step), compiles with    *)
(* [COMPILE] only its own and primitives, and uses : and ] outside of      *)
(* definitions.                                                            *)
(***************************************************************************)
EXTENDS Integers, SequencesExt

CONSTANTS
  Programs,   \* the texts to compile and run, sequences of tokens
  Names,      \* names of defined words
  RStkCells,  \* cells of the return stack
  PStkCells   \* cells of the parameter stack

\* The return stack holds the two addresses of the interpreter.
ASSUME SizeAssumption == RStkCells \in Nat \ {0, 1} /\ PStkCells \in Nat

\* The system's words: those that run in compiled code, and those the interpreter
\* runs at once.
Primitives == {"x", "flag", "DROP", "CREATE", "VARIABLE", "DOES>", "[COMPILE]"}
Compilers == {":", ";", "[", "]", "IMMEDIATE", "HIDE", "UNHIDE", "IF", "UNLESS", "ELSE",
              "THEN", "BEGIN", "AGAIN", "UNTIL", "WHILE", "REPEAT"}
Tokens == Names \union Primitives \union Compilers

\* The other contents of a cell.
Kinds == {"call", "operand", "docol", "douser", "EXIT", "?FALSE", "?TRUE", "JUMP", "?JUMP"}

ASSUME TextAssumption ==
  Programs \subseteq Seq(Tokens) /\ Names \intersect (Primitives \union Compilers \union Kinds) = {}

VARIABLES
  prog,    \* the text
  ip,      \* the token WORD reads next
  mem,     \* the compiled cells
  words,   \* the headers, the last one is LATEST
  iscomp,  \* ISCOMP (ISIMMED is its negation)
  wp,      \* r13, the cell to execute next, or Interp inside INTERPRET
  rstk,    \* the return stack, top first
  pstk,    \* the parameter stack, top first: 0 is false, other numbers are true
  status   \* "run", or why the machine stopped

vars == <<prog, ip, mem, words, iscomp, wp, rstk, pstk, status>>

\* Read-only code: the loop of INTERPRET behind RUNCODE, the EXIT behind INTERPRET
\* in _INTERPRET, and _QUIT.  fvm_run starts with the last on the return stack, and
\* INTERPRET pushes the one before.
Interp == -3
OuterExit == -1
QuitAddr == -2
Frame == <<OuterExit, QuitAddr>>

Init ==
  /\ prog \in Programs /\ ip = 1
  /\ mem = <<>> /\ words = <<>> /\ iscomp = FALSE
  /\ wp = Interp /\ rstk = Frame
  /\ pstk = <<>> /\ status = "run"

-----------------------------------------------------------------------------
(* Memory. *)

\* A cell is the address of a word's code, of a primitive or of a definition, or
\* an address that the word before it uses.  tok is the token it was compiled for.
Prim(w) == [op |-> w, arg |-> 0, tok |-> ip]
Call(a) == [op |-> "call", arg |-> a, tok |-> ip]
Operand(a) == [op |-> "operand", arg |-> a, tok |-> ip]

Here == Len(mem) + 1
Writable(a) == a > 0
Patch(m, a, v) ==
  IF a \in DOMAIN m THEN [m EXCEPT ![a] = [@ EXCEPT !.op = "operand", !.arg = v]] ELSE m

Stop(why) ==
  /\ status' = why
  /\ UNCHANGED <<prog, ip, mem, words, iscomp, wp, rstk, pstk>>

\* RCHKUNF, RCHKOVF.
RoomOnReturn == Len(rstk) < RStkCells

-----------------------------------------------------------------------------
(* INTERPRET: the words the interpreter reads and runs at once. *)

Token == prog[ip]
Read(w) == status = "run" /\ wp = Interp /\ ip <= Len(prog) /\ Token \in w
Took(n) == ip' = ip + n /\ UNCHANGED <<prog, wp, status>>

\* ?MATCHDEF and FIND: from the latest header backwards, hidden ones left out.
Find(w) ==
  LET hits == {k \in DOMAIN words : words[k].name = w /\ ~words[k].hidden}
  IN  IF hits = {} THEN 0 ELSE Max(hits)

\* : ( CCREATE, DOCOL, hidden, compile mode )
Colon ==
  /\ Read({":"}) /\ ~iscomp
  /\ IF ip = Len(prog) THEN Stop("end")
     ELSE /\ prog[ip + 1] \in Names /\ Took(2)
          /\ words' = Append(words, [name |-> prog[ip + 1], cfa |-> Here,
                                     hidden |-> TRUE, immediate |-> FALSE])
          /\ mem' = Append(mem, Prim("docol"))
          /\ iscomp' = TRUE
          /\ UNCHANGED <<rstk, pstk>>

OnLatest(field, value) == words' = [words EXCEPT ![Len(words)][field] = value]

\* ; compiles EXIT, shows the latest word and leaves compile mode.  As long as
\* nothing is defined the latest word is one of the read-only system.
Semicolon ==
  /\ Read({";"})
  /\ IF words = <<>> THEN Stop("fault")
     ELSE /\ Took(1)
          /\ mem' = Append(mem, Prim("EXIT"))
          /\ OnLatest("hidden", FALSE)
          /\ iscomp' = FALSE
          /\ UNCHANGED <<rstk, pstk>>

Mark ==
  /\ Read({"IMMEDIATE", "HIDE", "UNHIDE"})
  /\ IF words = <<>> THEN Stop("fault")
     ELSE /\ Took(1)
          /\ OnLatest(IF Token = "IMMEDIATE" THEN "immediate" ELSE "hidden",
                      Token # "UNHIDE")
          /\ UNCHANGED <<mem, iscomp, rstk, pstk>>

\* [ is immediate, ] is run by the interpreter outside compile mode only.
Bracket ==
  /\ Read({"[", "]"}) /\ (Token = "]" => ~iscomp) /\ Took(1)
  /\ iscomp' = (Token = "]")
  /\ UNCHANGED <<mem, words, rstk, pstk>>

\* Mutant: no check of the return stack.
If_Unchecked ==
  /\ Read({"IF", "UNLESS"}) /\ Took(1)
  /\ mem' = mem \o <<Prim(IF Token = "IF" THEN "?FALSE" ELSE "?TRUE"),
                    Prim("?JUMP"), Operand(0)>>
  /\ rstk' = <<Here + 2>> \o rstk
  /\ UNCHANGED <<words, iscomp, pstk>>

\* IF and UNLESS leave the address of the operand to patch.
If ==
  /\ Read({"IF", "UNLESS"})
  /\ IF ~RoomOnReturn THEN Stop("rstkovf")
     ELSE /\ Took(1)
          /\ mem' = mem \o <<Prim(IF Token = "IF" THEN "?FALSE" ELSE "?TRUE"),
                            Prim("?JUMP"), Operand(0)>>
          /\ rstk' = <<Here + 2>> \o rstk
          /\ UNCHANGED <<words, iscomp, pstk>>

\* Mutant: the operand is patched before the jump over the ELSE part is compiled.
Else_Early ==
  /\ Read({"ELSE"})
  /\ IF rstk = <<>> THEN Stop("rstkunf")
     ELSE IF ~Writable(Head(rstk)) THEN Stop("fault")
     ELSE /\ Took(1)
          /\ mem' = Patch(mem, Head(rstk), Here) \o <<Prim("JUMP"), Operand(0)>>
          /\ rstk' = <<Here + 1>> \o Tail(rstk)
          /\ UNCHANGED <<words, iscomp, pstk>>

\* ELSE patches that operand to the cell behind its own jump, and leaves its own.
Else ==
  /\ Read({"ELSE"})
  /\ IF rstk = <<>> THEN Stop("rstkunf")
     ELSE IF ~Writable(Head(rstk)) THEN Stop("fault")
     ELSE /\ Took(1)
          /\ mem' = Patch(mem \o <<Prim("JUMP"), Operand(0)>>, Head(rstk), Here + 2)
          /\ rstk' = <<Here + 1>> \o Tail(rstk)
          /\ UNCHANGED <<words, iscomp, pstk>>

Then ==
  /\ Read({"THEN"})
  /\ IF rstk = <<>> THEN Stop("rstkunf")
     ELSE IF ~Writable(Head(rstk)) THEN Stop("fault")
     ELSE /\ Took(1)
          /\ mem' = Patch(mem, Head(rstk), Here)
          /\ rstk' = Tail(rstk)
          /\ UNCHANGED <<words, iscomp, pstk>>

Begin ==
  /\ Read({"BEGIN"})
  /\ IF ~RoomOnReturn THEN Stop("rstkovf")
     ELSE /\ Took(1) /\ rstk' = <<Here>> \o rstk
          /\ UNCHANGED <<mem, words, iscomp, pstk>>

\* AGAIN and UNTIL jump to whatever address is on the return stack.
Loop ==
  /\ Read({"AGAIN", "UNTIL"})
  /\ IF rstk = <<>> THEN Stop("rstkunf")
     ELSE /\ Took(1)
          /\ mem' = mem \o (IF Token = "AGAIN" THEN <<Prim("JUMP")>>
                            ELSE <<Prim("?FALSE"), Prim("?JUMP")>>)
                        \o <<Operand(Head(rstk))>>
          /\ rstk' = Tail(rstk)
          /\ UNCHANGED <<words, iscomp, pstk>>

While ==
  /\ Read({"WHILE"})
  /\ IF ~RoomOnReturn THEN Stop("rstkovf")
     ELSE /\ Took(1)
          /\ mem' = mem \o <<Prim("?FALSE"), Prim("?JUMP"), Operand(0)>>
          /\ rstk' = <<Here + 2>> \o rstk
          /\ UNCHANGED <<words, iscomp, pstk>>

\* Mutants: the loop address is taken and not the other one, so the exit of the
\* loop stays open; one address stays on the return stack.
Repeat_NoPatch ==
  /\ Read({"REPEAT"})
  /\ IF rstk = <<>> THEN Stop("rstkunf")
     ELSE IF Len(rstk) = 1 THEN Stop("fault")
     ELSE /\ Took(1)
          /\ mem' = mem \o <<Prim("JUMP"), Operand(rstk[2])>>
          /\ rstk' = Tail(Tail(rstk))
          /\ UNCHANGED <<words, iscomp, pstk>>

Repeat_OneMark ==
  /\ Read({"REPEAT"})
  /\ IF rstk = <<>> THEN Stop("rstkunf")
     ELSE IF Len(rstk) = 1 \/ ~Writable(Head(rstk)) THEN Stop("fault")
     ELSE /\ Took(1)
          /\ mem' = Patch(mem \o <<Prim("JUMP"), Operand(rstk[2])>>, rstk[1], Here + 2)
          /\ rstk' = Tail(rstk)
          /\ UNCHANGED <<words, iscomp, pstk>>

\* REPEAT checks for one address and takes two.
Repeat ==
  /\ Read({"REPEAT"})
  /\ IF rstk = <<>> THEN Stop("rstkunf")
     ELSE IF Len(rstk) = 1 \/ ~Writable(Head(rstk)) THEN Stop("fault")
     ELSE /\ Took(1)
          /\ mem' = Patch(mem \o <<Prim("JUMP"), Operand(rstk[2])>>, rstk[1], Here + 2)
          /\ rstk' = Tail(Tail(rstk))
          /\ UNCHANGED <<words, iscomp, pstk>>

-----------------------------------------------------------------------------
(* Words that run, for the interpreter and in compiled code: i is the next *)
(* token of the text, back the address to go on at.                        *)

\* Nothing but the place changes.
Pass(i, back) ==
  ip' = i /\ wp' = back /\ UNCHANGED <<prog, mem, words, iscomp, rstk, pstk, status>>

\* The primitives change the parameter stack only.
Leave(v, i, back) ==
  IF Len(pstk) >= PStkCells THEN Stop("stkovf")
  ELSE /\ pstk' = <<v>> \o pstk /\ ip' = i /\ wp' = back
       /\ UNCHANGED <<prog, mem, words, iscomp, rstk, status>>

Act(w, i, back) ==
  CASE w = "x" -> Pass(i, back)
    [] w = "flag" -> \E v \in {0, -1} : Leave(v, i, back)
    [] w = "DROP" ->
         IF pstk = <<>> THEN Stop("stkunf")
         ELSE /\ pstk' = Tail(pstk) /\ ip' = i /\ wp' = back
              /\ UNCHANGED <<prog, mem, words, iscomp, rstk, status>>

\* CREATE and VARIABLE make a visible word: the codeword fvm_douser, an empty code
\* pointer, and one cell for a VARIABLE.
Create(w, i, back) ==
  IF i > Len(prog) THEN Stop("end")
  ELSE /\ prog[i] \in Names
       /\ words' = Append(words, [name |-> prog[i], cfa |-> Here,
                                  hidden |-> FALSE, immediate |-> FALSE])
       /\ LET cell(op) == [op |-> op, arg |-> 0, tok |-> i]
          IN  mem' = mem \o <<cell("douser"), cell("operand")>>
                         \o (IF w = "VARIABLE" THEN <<cell("operand")>> ELSE <<>>)
       /\ ip' = i + 1 /\ wp' = back
       /\ UNCHANGED <<prog, iscomp, rstk, pstk, status>>

\* Mutant: the code pointer is that of the first word of the text.
Does_First(i, back) ==
  IF words # <<>> /\ mem[Head(words).cfa].op = "douser"
  THEN IF rstk = <<>> THEN Stop("rstkunf")
       ELSE /\ mem' = Patch(mem, Head(words).cfa + 1, back)
            /\ wp' = Head(rstk) /\ rstk' = Tail(rstk) /\ ip' = i
            /\ UNCHANGED <<prog, words, iscomp, pstk, status>>
  ELSE Pass(i, back)

\* DOES> gives the code behind it to LATEST if that is a created word, and returns
\* for the word it stands in; else it does nothing.
Does(i, back) ==
  IF words # <<>> /\ mem[Last(words).cfa].op = "douser"
  THEN IF rstk = <<>> THEN Stop("rstkunf")
       ELSE /\ mem' = Patch(mem, Last(words).cfa + 1, back)
            /\ wp' = Head(rstk) /\ rstk' = Tail(rstk) /\ ip' = i
            /\ UNCHANGED <<prog, words, iscomp, pstk, status>>
  ELSE Pass(i, back)

\* [COMPILE]: 'CFA takes the next word from the text, a name or a primitive, which is
\* dropped outside compile mode.
CodeFor(t) == IF t \in Names THEN Call(words[Find(t)].cfa) ELSE Prim(t)

BCompile(i, back) ==
  IF i > Len(prog) THEN Stop("end")
  ELSE IF prog[i] \in Names /\ Find(prog[i]) = 0 THEN Stop("notfound")
  ELSE /\ ip' = i + 1 /\ wp' = back
       /\ mem' = IF iscomp THEN Append(mem, CodeFor(prog[i])) ELSE mem
       /\ UNCHANGED <<prog, words, iscomp, rstk, pstk, status>>

System(w, i, back) ==
  CASE w \in {"x", "flag", "DROP"} -> Act(w, i, back)
    [] w \in {"CREATE", "VARIABLE"} -> Create(w, i, back)
    [] w = "DOES>" -> Does(i, back)
    [] w = "[COMPILE]" -> BCompile(i, back)

\* The word at cfa starts.  fvm_docol runs the cells behind the codeword;
\* fvm_douser leaves the address of the parameter field and runs the code of DOES>.  A
\* codeword that a stray mark was patched over is no code.
Begun(code, i, back) ==
  /\ wp' = code /\ rstk' = <<back>> \o rstk /\ ip' = i
  /\ UNCHANGED <<prog, mem, words, iscomp, status>>

Invoke(cfa, i, back) ==
  IF mem[cfa].op = "docol"
  THEN IF ~RoomOnReturn THEN Stop("rstkovf") ELSE Begun(cfa + 1, i, back) /\ UNCHANGED pstk
  ELSE IF mem[cfa].op # "douser" THEN Stop("fault")
  ELSE IF mem[cfa + 1].arg = 0 \/ Len(pstk) >= PStkCells THEN Leave(cfa + 2, i, back)
  ELSE IF ~RoomOnReturn THEN Stop("rstkovf")
  ELSE Begun(mem[cfa + 1].arg, i, back) /\ pstk' = <<cfa + 2>> \o pstk

\* INTERPRET: an unknown word ends the machine; in compile mode one that is not
\* immediate is compiled; else it runs (RUNCODE).
Word ==
  /\ Read(Names \union Primitives)
  /\ IF Token \notin Primitives /\ Find(Token) = 0 THEN Stop("unknown")
     ELSE IF iscomp /\ (Token \in Primitives \/ ~words[Find(Token)].immediate)
     THEN Took(1) /\ mem' = Append(mem, CodeFor(Token)) /\ UNCHANGED <<words, iscomp, rstk, pstk>>
     ELSE IF Token \in Primitives THEN System(Token, ip + 1, Interp)
     ELSE Invoke(words[Find(Token)].cfa, ip + 1, Interp)

\* The text is used up: WORD ends the machine.
EndOfText ==
  status = "run" /\ wp = Interp /\ ip > Len(prog) /\ Stop("end")

-----------------------------------------------------------------------------
(* NEXT: the inner interpreter executes the cell at wp. *)

Goto(a) == wp' = a /\ UNCHANGED <<prog, ip, mem, words, iscomp, rstk>>

CodeAt(a) ==
  CASE a \in DOMAIN mem -> mem[a].op
    [] a = OuterExit -> "EXIT"
    [] a = QuitAddr -> "QUIT"
    [] OTHER -> "garbage"

At(ops) == status = "run" /\ wp # Interp /\ CodeAt(wp) \in ops

RunSystem == At(Primitives) /\ System(mem[wp].op, ip, wp + 1)

RunCall == At({"call"}) /\ Invoke(mem[wp].arg, ip, wp + 1)

RunExit ==
  /\ At({"EXIT"})
  /\ IF rstk = <<>> THEN Stop("rstkunf")
     ELSE /\ wp' = Head(rstk) /\ rstk' = Tail(rstk)
          /\ UNCHANGED <<prog, ip, mem, words, iscomp, pstk, status>>

RunTest ==
  /\ At({"?FALSE", "?TRUE"})
  /\ IF pstk = <<>> THEN Stop("stkunf")
     ELSE /\ Goto(wp + 1)
          /\ pstk' = <<IF (mem[wp].op = "?TRUE") = (Head(pstk) # 0) THEN -1 ELSE 0>>
                       \o Tail(pstk)
          /\ UNCHANGED status

\* A jump takes the address from the cell behind it.
Target == IF mem[wp].op = "JUMP" \/ Head(pstk) # 0 THEN mem[wp + 1].arg ELSE wp + 2

RunJump ==
  /\ At({"JUMP", "?JUMP"})
  /\ IF mem[wp].op = "?JUMP" /\ pstk = <<>> THEN Stop("stkunf")
     ELSE /\ Goto(Target)
          /\ pstk' = IF mem[wp].op = "JUMP" THEN pstk ELSE Tail(pstk)
          /\ UNCHANGED status

RunQuit == At({"QUIT"}) /\ Stop("end")

\* No code: an operand, the codeword of a definition, memory not yet compiled.
RunGarbage == At({"operand", "docol", "douser", "garbage"}) /\ Stop("fault")

Next ==
  \/ Colon \/ Semicolon \/ Mark \/ Bracket \/ Word \/ EndOfText
  \/ If \/ Else \/ Then \/ Begin \/ Loop \/ While \/ Repeat
  \/ RunSystem \/ RunCall \/ RunExit \/ RunTest \/ RunJump \/ RunQuit \/ RunGarbage

Spec == Init /\ [][Next]_vars

-----------------------------------------------------------------------------
(* The state in terms of the text (SourceForth): addresses become the      *)
(* tokens they were compiled for.  While a word runs, its return addresses *)
(* lie above that of the interpreter; below are those of open structures.  *)

TokenOf(a) == IF a \in DOMAIN mem THEN mem[a].tok ELSE 0

Frames ==
  LET interps == {k \in DOMAIN rstk : rstk[k] = Interp}
  IN  SubSeq(rstk, 1, IF interps = {} THEN Len(rstk) ELSE Min(interps) - 1)

\* The test of a structure is ?FALSE or ?TRUE and a ?JUMP: before the latter the flag
\* is taken and the way decided.
Decided == wp \in DOMAIN mem /\ mem[wp].op = "?JUMP" /\ pstk # <<>>

Calls ==
  IF wp = Interp THEN <<>>
  ELSE <<TokenOf(IF Decided THEN Target ELSE wp)>>
         \o [k \in DOMAIN Frames |-> TokenOf(Frames[k])]

\* The address of a parameter field is the token that names its word.
Values ==
  LET stack == IF Decided THEN Tail(pstk) ELSE pstk
  IN  [k \in DOMAIN stack |-> IF stack[k] > 0 THEN TokenOf(stack[k] - 2) ELSE stack[k]]

\* The created words by that token, with the code DOES> gave them.
Made ==
  LET created == {a \in DOMAIN mem : mem[a].op = "douser"}
  IN  [i \in {mem[a].tok : a \in created} |->
         TokenOf(mem[1 + CHOOSE a \in created : mem[a].tok = i].arg)]

Source == INSTANCE SourceForth WITH calls <- Calls, pstk <- Values, made <- Made

-----------------------------------------------------------------------------
(* Properties. *)

Cells == [op : Tokens \union Kinds, arg : Int, tok : Nat]
Headers == [name : Tokens, cfa : Nat, hidden : BOOLEAN, immediate : BOOLEAN]

\* Cells with which the one behind them is used as well.
Paired == {"JUMP", "?JUMP", "douser"}

TypeOK ==
  /\ prog \in Programs /\ ip \in Nat \ {0} /\ iscomp \in BOOLEAN
  /\ mem \in Seq(Cells) /\ words \in Seq(Headers)
  /\ \A a \in DOMAIN mem :
       /\ mem[a].tok \in DOMAIN prog
       /\ mem[a].op = "call" => mem[a].arg \in DOMAIN mem
       /\ mem[a].op \in Paired => a + 1 \in DOMAIN mem
  /\ \A k \in DOMAIN words : words[k].cfa \in DOMAIN mem
  /\ wp \in Int /\ rstk \in Seq(Int) /\ Len(rstk) <= RStkCells
  /\ pstk \in Seq(Int) /\ Len(pstk) <= PStkCells
  /\ status \in {"run", "end", "unknown", "notfound", "stkunf", "stkovf", "rstkunf",
                 "rstkovf", "fault"}

(***************************************************************************)
(* The compiled program does what its text says: the same words act in the *)
(* same order, names mean the definitions that were visible, and a program *)
(* stops exactly when the text, an unknown word or a full stack ends it.   *)
(***************************************************************************)
RunsTheText == Source!Spec

(***************************************************************************)
(* In a definition that its ; has completed every jump goes to a cell of   *)
(* the same definition (lines 3477-3679).                                  *)
(***************************************************************************)
CodeOf(k) ==
  words[k].cfa .. (IF k = Len(words) THEN Len(mem) ELSE words[k + 1].cfa - 1)

Completed(k) == k < Len(words) \/ ~(\E i \in ip .. Len(prog) : prog[i] = ";")

JumpsResolved ==
  Source!WellFormed =>
    \A k \in DOMAIN words : Completed(k) =>
      \A a \in CodeOf(k) : mem[a].op \in {"JUMP", "?JUMP"} =>
        LET target == mem[a + 1].arg
        IN  /\ mem[a + 1].op = "operand"
            /\ target \in CodeOf(k) \ {words[k].cfa}
            /\ mem[target].op # "operand"

(***************************************************************************)
(* When the interpreter reads, the return stack holds its own two return   *)
(* addresses and above them exactly one address for each structure that is *)
(* open in the text, two for a loop with WHILE: the structures never take  *)
(* the interpreter's return address.                                       *)
(***************************************************************************)
MarksMatchText ==
  Source!WellFormed /\ status = "run" /\ wp = Interp =>
    /\ Len(rstk) = 2 + Source!Open(ip)
    /\ IsSuffix(Frame, rstk)
    /\ \A k \in 1 .. Source!Open(ip) : rstk[k] \in 1 .. Here
=============================================================================
