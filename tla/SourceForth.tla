---------------------------- MODULE SourceForth ----------------------------
(***************************************************************************)
(* The meaning of a FORTH program as its text gives it: which definition a *)
(* name stands for, where a control structure continues, what runs while   *)
(* another word is being compiled.  Everything is read off the text; there *)
(* is no dictionary, no code and no return stack.  ForthCompiler           *)
(* implements this module.                                                 *)
(*                                                                         *)
(* The rules are those of the comments in fvm_asm.nasm: created words and  *)
(* DOES> lines 2869-2891 and 2948-2988, control structures                 *)
(* lines 3423-3470 and 3551-3592, hidden and immediate words 3053-3108 and *)
(* 4492-4527.                                                              *)
(***************************************************************************)
EXTENDS Integers, Sequences, FiniteSetsExt

CONSTANTS
  Names,      \* names of defined words
  RStkCells,  \* cells of the return stack
  PStkCells   \* cells of the parameter stack

Openers == {"IF", "UNLESS", "BEGIN"}
Closers == {"THEN", "AGAIN", "UNTIL", "REPEAT"}
Structure == Openers \union Closers \union {"ELSE", "WHILE"}
Flagging == {"IMMEDIATE", "HIDE", "UNHIDE"}
Creating == {"CREATE", "VARIABLE"}
\* A word that acts, one that leaves some flag, one that takes a value, and those that
\* make words.
Actions == {"x", "flag", "DROP", "DOES>"} \union Creating
Tokens == Names \union Actions \union Structure \union Flagging
            \union {":", ";", "[", "]", "[COMPILE]"}

VARIABLES
  prog,    \* the text, a sequence of tokens
  ip,      \* the next token the interpreter looks at
  made,    \* the created words: the token that named each, and where DOES> continues
  calls,   \* where the active words are, innermost first
  pstk,    \* the parameter stack: 0 and -1 are flags, i > 0 the field of the word at i
  status   \* "run", or how the program ended

vars == <<prog, ip, made, calls, pstk, status>>

Pos == 1 .. Len(prog)
Is(i, S) == i \in Pos /\ prog[i] \in S

-----------------------------------------------------------------------------
(* Definitions and names. *)

\* Between : or ] and the next ; or [ words are compiled.
Compiling(i) ==
  LET switches == {j \in 1 .. i - 1 : Is(j, {":", ";", "[", "]"})}
  IN  switches # {} /\ prog[Max(switches)] \in {":", "]"}

IsDef(k) == Is(k, {":"}) /\ k + 1 \in Pos
Ends(k) == {j \in Pos : j > k /\ prog[j] = ";"}
Complete(k, i) == \E j \in Ends(k) : j < i

Defined == {k \in Pos : IsDef(k)} \union DOMAIN made
NameOf(k) == IF k \in DOMAIN made THEN prog[k] ELSE prog[k + 1]

\* The word that is the latest one at token i.
Since(k, i, S) == {j \in k .. i - 1 : Is(j, S)}
Latest(k, i) == k \in Defined /\ k < i
LastWhileLatest(k, i) ==
  LET later == {j \in k + 1 .. i - 1 : j \in Defined}
  IN  IF later = {} THEN i ELSE Min(later)

\* A definition can be found from its ; on, or from UNHIDE, until HIDE; a created word
\* from the start.
Found(k, i) ==
  LET events == Since(k, LastWhileLatest(k, i), {":", ";", "HIDE", "UNHIDE"})
  IN  IF events = {} THEN k \in DOMAIN made ELSE prog[Max(events)] \in {";", "UNHIDE"}

\* A name stands for the latest definition that can be found.
Candidates(w, i) ==
  {k \in Defined : k < i /\ NameOf(k) = w /\ Found(k, i)}
Known(w, i) == Candidates(w, i) # {}
Meaning(w, i) == Max(Candidates(w, i))

ImmediateDef(k, i) == Since(k, LastWhileLatest(k, i), {"IMMEDIATE"}) # {}

\* Whether the interpreter compiles the word at token i, or runs it.
Compiled(i) ==
  /\ Compiling(i) /\ Is(i, Names \union Actions)
  /\ \/ Is(i, Actions)
     \/ ~Known(prog[i], i)
     \/ ~ImmediateDef(Meaning(prog[i], i), i)

Runs(i) ==
  /\ Is(i, Names \union Actions) /\ ~Is(i - 1, {":"})
  /\ ~Compiled(i)

\* Tokens with a meaning when a definition runs.
HasCode(i) ==
  \/ Compiled(i)
  \/ Is(i, {"IF", "UNLESS", "ELSE", "AGAIN", "UNTIL", "WHILE", "REPEAT", ";"})

\* The first such token from i on.
Land(i) == Min({j \in Pos : j >= i /\ HasCode(j)})

-----------------------------------------------------------------------------
(* Control structures. *)

Count(S, lo, hi) == Cardinality({j \in lo .. hi : Is(j, S)})

\* The token that closes the structure opened at i, and the one that opens the
\* structure around or closed at j.
CloserOf(i) ==
  Min({j \in Pos : /\ j > i /\ prog[j] \in Closers
                   /\ Count(Openers, i, j) = Count(Closers, i, j)})
OpenAt(j) ==
  {i \in 1 .. j - 1 : /\ Is(i, Openers)
                      /\ \A h \in i .. j - 1 : Count(Openers, i, h) > Count(Closers, i, h)}
OpenerOf(j) == Max(OpenAt(j))

\* The ELSE or WHILE of the structure opened at i.
Middles(i) == {j \in i + 1 .. CloserOf(i) : Is(j, {"ELSE", "WHILE"}) /\ OpenerOf(j) = i}

Balanced(k, e) ==
  /\ \A j \in k .. e : Is(j, Closers \union {"ELSE", "WHILE"}) => OpenAt(j) \ (1 .. k) # {}
  /\ Count(Openers, k, e) = Count(Closers, k, e)
  /\ \A i \in k .. e : Is(i, Openers) =>
       LET mids == {prog[j] : j \in Middles(i)}
       IN  CASE prog[i] # "BEGIN" ->
                  Is(CloserOf(i), {"THEN"}) /\ mids \subseteq {"ELSE"}
                    /\ Cardinality(Middles(i)) <= 1
             [] prog[i] = "BEGIN" /\ mids = {} -> Is(CloserOf(i), {"AGAIN", "UNTIL"})
             [] OTHER -> Is(CloserOf(i), {"REPEAT"}) /\ mids = {"WHILE"}
                           /\ Cardinality(Middles(i)) = 1

\* A text the rules give a meaning to: structures are balanced and stand in
\* definitions, no definition begins in another one, not even behind a [, [ and ]
\* come in pairs, and only complete definitions run.
\* [COMPILE] takes its word from the text when it runs: it has no static meaning.
\* A text that makes words runs nothing inside a definition, so that no word is made there.
Makes == \E i \in Pos : Is(i, Creating)

WellFormed ==
  /\ Makes => \A i \in Pos : ~Is(i, {"[", "IMMEDIATE"})
  /\ \A k \in Pos : IsDef(k) =>
       /\ Ends(k) # {} /\ Balanced(k, Min(Ends(k)))
       /\ \A j \in k + 1 .. Min(Ends(k)) : prog[j] # ":"
  /\ \A i \in Pos :
       /\ Is(i, Structure \union {";"}) => Compiling(i)
       /\ ~Is(i, {"[COMPILE]"})
       /\ Is(i, {"["}) => Compiling(i)
       /\ Is(i, {"]"}) => \E j \in 1 .. i - 1 : Is(j, {"["}) /\ Count({";", "]"}, j, i) = 1
       /\ Is(i, Flagging) => \E k \in Pos : IsDef(k) /\ k < i
       /\ Is(i, {"DOES>"}) => Compiling(i)
       /\ ~Makes /\ Runs(i) /\ Is(i, Names) /\ Known(prog[i], i) =>
            Complete(Meaning(prog[i], i), i)

\* Structures that are open at token i; a WHILE opens a second one.
Whiles(i) == {j \in 1 .. i - 1 : Is(j, {"WHILE"}) /\ OpenerOf(j) \in OpenAt(i)}
Open(i) == Cardinality(OpenAt(i)) + Cardinality(Whiles(i))

-----------------------------------------------------------------------------
(* Running. *)

Init == ip = 1 /\ made = <<>> /\ calls = <<>> /\ pstk = <<>> /\ status = "run"

Stop(why) == status' = why /\ UNCHANGED <<ip, made, calls, pstk>>

\* Two cells of the return stack are the interpreter's, one goes to each active word
\* and each open structure; the parameter stack holds the values.
NoRoom == Len(calls) + 2 + Open(ip) >= RStkCells
NoStack == Len(pstk) >= PStkCells

Leave(v) == pstk' = <<v>> \o pstk /\ UNCHANGED <<made, status>>

\* The system's word t runs; the text is then read from token i on, and `back` are the
\* places to continue at, that of the word it stands in first.
Act(t, i, back) ==
  CASE t = "x" -> ip' = i /\ calls' = back /\ UNCHANGED <<made, pstk, status>>
    [] t = "flag" ->
         IF NoStack THEN Stop("stkovf")
         ELSE ip' = i /\ calls' = back /\ \E v \in {0, -1} : Leave(v)
    [] t = "DROP" ->
         IF pstk = <<>> THEN Stop("stkunf")
         ELSE ip' = i /\ calls' = back /\ pstk' = Tail(pstk) /\ UNCHANGED <<made, status>>
    [] t \in Creating ->
         IF i \notin Pos THEN Stop("end")
         ELSE /\ ip' = i + 1 /\ calls' = back
              /\ made' = [k \in DOMAIN made \union {i} |-> IF k = i THEN 0 ELSE made[k]]
              /\ UNCHANGED <<pstk, status>>
    [] t = "DOES>" ->      \* the rest of this definition is what the latest word does
         /\ LET k == Max({j \in Pos : Latest(j, i)})
            IN  IF k \in DOMAIN made
                THEN made' = [made EXCEPT ![k] = Head(back)] /\ calls' = Tail(back)
                ELSE made' = made /\ calls' = back
         /\ ip' = i /\ UNCHANGED <<pstk, status>>

\* A word starts that the text names at token at; a created one leaves its field.
Enter(w, at, i, back) ==
  LET k == Meaning(w, at)
      start == IF k \in DOMAIN made THEN made[k] ELSE Land(k + 2)
  IN  IF k \in DOMAIN made /\ NoStack THEN Stop("stkovf")
      ELSE IF start # 0 /\ NoRoom THEN Stop("rstkovf")
      ELSE /\ calls' = (IF start = 0 THEN <<>> ELSE <<start>>) \o back
           /\ ip' = i
           /\ IF k \in DOMAIN made THEN Leave(k) ELSE UNCHANGED <<made, pstk, status>>

\* The interpreter takes the next token.
Interpret ==
  /\ calls = <<>> /\ ip \in Pos
  /\ LET t == prog[ip]
         Past(n) == ip' = ip + n /\ UNCHANGED <<made, calls, pstk, status>>
     IN  CASE t = ":" -> IF ip = Len(prog) THEN Stop("end") ELSE Past(2)
           [] t \in Names /\ ~Known(t, ip) -> Stop("unknown")
           [] Runs(ip) /\ t \in Actions -> Act(t, ip + 1, <<>>)
           [] Runs(ip) /\ t \in Names -> Enter(t, ip, ip + 1, <<>>)
           [] t \in {"IF", "UNLESS", "BEGIN", "WHILE"} /\ NoRoom -> Stop("rstkovf")
           [] OTHER -> Past(1)

\* Where the word at i continues, given the flag.
Continue(i, b) ==
  LET t == prog[i]
  IN  CASE (t = "IF" /\ b) \/ (t = "UNLESS" /\ ~b) \/ (t = "WHILE" /\ b)
             \/ (t = "UNTIL" /\ b) -> Land(i + 1)
        [] t \in {"IF", "UNLESS"} ->
             IF Middles(i) = {} THEN Land(CloserOf(i) + 1) ELSE Land(Max(Middles(i)) + 1)
        [] t \in {"ELSE", "WHILE"} -> Land(CloserOf(OpenerOf(i)) + 1)
        [] t \in {"UNTIL", "AGAIN", "REPEAT"} -> Land(OpenerOf(i) + 1)

\* The innermost word goes on.
Execute ==
  /\ calls # <<>>
  /\ LET i == Head(calls)
         t == prog[i]
         Jump(b) == calls' = <<Continue(i, b)>> \o Tail(calls)
         after == <<Land(i + 1)>> \o Tail(calls)
     IN  CASE t \in Actions -> Act(t, ip, after)
           [] t \in Names -> Enter(t, i, ip, after)
           [] t = ";" -> calls' = Tail(calls) /\ UNCHANGED <<ip, made, pstk, status>>
           [] t \in {"ELSE", "AGAIN", "REPEAT"} ->
                Jump(TRUE) /\ UNCHANGED <<ip, made, pstk, status>>
           [] t \in {"IF", "UNLESS", "UNTIL", "WHILE"} ->
                IF pstk = <<>> THEN Stop("stkunf")
                ELSE /\ Jump(Head(pstk) # 0)
                     /\ pstk' = Tail(pstk) /\ UNCHANGED <<ip, made, status>>

\* The text is at its end.
End == calls = <<>> /\ ip > Len(prog) /\ Stop("end")

\* To a text that is not well formed the rules give no meaning.
Next ==
  /\ UNCHANGED prog
  /\ WellFormed => status = "run" /\ (Interpret \/ Execute \/ End)

Spec == Init /\ [][Next]_vars
=============================================================================
