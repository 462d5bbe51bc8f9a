----------------------------- MODULE ForthInput -----------------------------
(***************************************************************************)
(* How the FORTH interpreter reads its input (fvm_asm.nasm: _evalpush,     *)
(* _evalpop, >IN, >MAX, INPREAD, INPGETCH, SKIPSPC, ?WORD, WORD, INTERPRET,*)
(* the comment words and EVAL).                                            *)
(*                                                                         *)
(* A word that calls EVAL does not run the text: it redirects the input to *)
(* the text, and INPGETCH falls back to the interrupted input when the     *)
(* text is used up.  One character of lookahead (PUTBACKCHAR) belongs to   *)
(* each input; it is saved and restored with it.                           *)
(*                                                                         *)
(* One step is one call of INPGETCH with what its caller does with the     *)
(* character, or the execution of a word, or of an EVAL in it.  A word is  *)
(* a sequence of characters; what words do, other than evaluate texts and  *)
(* skip comments, is left out.                                             *)
(***************************************************************************)
EXTENDS Integers, SequencesExt

CONSTANTS
  BootTexts,   \* what fvm_run is told to evaluate before it reads the file
  Files,       \* contents of the input file, sequences of characters
  MacroTables, \* functions from words to the sequence of texts they EVAL
  Chunk,       \* size of the INP buffer in characters           (256)
  NameMax,     \* characters in a word at most                   (31)
  EvalSlots,   \* records that fit on the evaluation stack       (7)
  Failing,     \* the pairs of first text and file for which reads may fail
  MaxErrors    \* bound of the model: reads that fail then

Spaces == {"sp", "nl"}
Chars == Spaces \union {"a", "b", "m", "bsl", "lp", "rp"}
None == "none"     \* PUTBACKCHAR = -1
EOF == "eof"       \* INPGETCH returns -1

ASSUME InputAssumption ==
  /\ Chunk \in Nat \ {0} /\ NameMax \in Nat \ {0, 1}
  /\ EvalSlots \in Nat /\ MaxErrors \in Nat
  /\ BootTexts \subseteq Seq(Chars) /\ Files \subseteq Seq(Chars)
  /\ \A m \in MacroTables : \A w \in DOMAIN m : m[w] \in Seq(Seq(Chars))

LineComment == <<"bsl">>
Paren == <<"lp">>
CommentWords == {LineComment, Paren}

VARIABLES
  file,    \* the input file
  macro,   \* what the words of this program evaluate
  in,      \* the registers of the input, a record:
           \*   eval, text, pos, putback: EVALBUF (# 0), EVALSIZE, EVALPOS, PUTBACKCHAR
           \*   stack: the evaluation stack, top first, of such four fields
           \*   inp, ipos: the INP buffer filled up to IFILL, and IPOS
           \*   nread, errs: characters read so far, reads that failed
           \*   boot: the text of fvm_run's caller (a constant)
           \*   lines: newlines that INPGETCH took from a buffer (history)
  name,    \* the NAME buffer
  texts,   \* what the word that is running still has to evaluate
  phase,   \* the word that is at work: SKIPSPC, ?WORD, INTERPRET, EVAL, \ or (
  prompts, \* how often OKAY answered a line
  reason   \* why the machine stopped, or "no"

vars == <<file, macro, in, name, texts, phase, prompts, reason>>

Context(e, t, p, b) == [eval |-> e, text |-> t, pos |-> p, putback |-> b]
Contexts ==
  [eval : BOOLEAN, text : Seq(Chars), pos : Nat, putback : Chars \union {None}]
FileContext == Context(FALSE, <<>>, 0, None)
Current(i) == Context(i.eval, i.text, i.pos, i.putback)
Resume(i, c, s) ==
  [i EXCEPT !.eval = c.eval, !.text = c.text, !.pos = c.pos,
            !.putback = c.putback, !.stack = s]

Init ==
  /\ file \in Files /\ macro \in MacroTables
  /\ \E boot \in BootTexts :
       in = [eval |-> TRUE, text |-> boot, pos |-> 0, putback |-> None,
             stack |-> <<>>, inp |-> <<>>, ipos |-> 0, nread |-> 0, errs |-> 0,
             boot |-> boot, lines |-> 0]
  /\ name = <<>> /\ texts = <<>> /\ phase = "skip" /\ prompts = 0 /\ reason = "no"

-----------------------------------------------------------------------------
(* The evaluation stack. *)

\* The text between an evaluated text and the input it interrupted.
Transition == Context(TRUE, <<"sp">>, 0, None)

\* Mutants.  An evaluation that fills the last slot of the stack and one more:
EvalFits_Late(i) == Len(i.stack) + 2 <= EvalSlots + 1

\* the transition is forgotten:
EvalPush_NoTransition(i, t) ==
  Resume(i, Context(TRUE, t, 0, None), <<Current(i)>> \o i.stack)

\* Room for an evaluation, which takes two records.
EvalFits(i) == Len(i.stack) + 2 <= EvalSlots

\* Mutant: an input that is used up is not kept below the new one.
EvalPush_Tail(i, t) ==
  LET c == Current(i)
      saved == IF c.eval /\ c.pos >= Len(c.text) THEN i.stack
               ELSE <<Transition, c>> \o i.stack
  IN  Resume(i, Context(TRUE, t, 0, None), saved)

EvalPush(i, t) ==
  Resume(i, Context(TRUE, t, 0, None), <<Transition, Current(i)>> \o i.stack)

UsedUp(c) == c.eval /\ c.pos >= Len(c.text)

\* >IN: pop every input that is used up, with its putback character; an empty
\* stack resets to the file.
Settle(i) ==
  LET all  == <<Current(i)>> \o i.stack
      live == {k \in DOMAIN all : ~UsedUp(all[k])}
  IN  IF live = {} THEN Resume(i, FileContext, <<>>)
      ELSE LET k == Min(live) IN Resume(i, all[k], SubSeq(all, k + 1, Len(all)))

-----------------------------------------------------------------------------
(* INPREAD and INPGETCH. *)

MayFail(i) == <<i.boot, file>> \in Failing /\ i.errs < MaxErrors

\* Mutant: a read that exceeds the buffer by one character:
Refills_Over(i) ==
  LET left == Len(file) - i.nread
  IN  {[i EXCEPT !.inp = SubSeq(file, i.nread + 1, i.nread + n), !.ipos = 0, !.nread = @ + n] :
         n \in (IF left = 0 THEN {0} ELSE 1 .. Min({left, Chunk + 1}))}

\* INPREAD: what a read of the file can leave in the buffer.  The end of the file
\* and an error (?ERR0) both leave it empty.
Refills(i) ==
  LET left == Len(file) - i.nread
      Filled(n) == [i EXCEPT !.inp = SubSeq(file, i.nread + 1, i.nread + n),
                             !.ipos = 0, !.nread = @ + n]
      Failed == [i EXCEPT !.inp = <<>>, !.ipos = 0, !.errs = @ + 1]
  IN  {Filled(n) : n \in (IF left = 0 THEN {0} ELSE 1 .. Min({left, Chunk}))}
        \union (IF MayFail(i) THEN {Failed} ELSE {})

Took(i, ch) ==
  [ch |-> ch, in |-> [i EXCEPT !.lines = IF ch = "nl" THEN @ + 1 ELSE @]]

Advance(i) ==
  IF i.eval THEN Took([i EXCEPT !.pos = @ + 1], i.text[i.pos + 1])
  ELSE IF i.ipos < Len(i.inp) THEN Took([i EXCEPT !.ipos = @ + 1], i.inp[i.ipos + 1])
  ELSE Took(i, EOF)

\* Mutant: a newline that was put back is not cleared.
GetCh_Keeps(i) ==
  IF i.putback # None
  THEN {[ch |-> i.putback, in |-> IF i.putback = "nl" THEN i ELSE [i EXCEPT !.putback = None]]}
  ELSE LET s == Settle(i)
       IN  IF s.eval \/ s.ipos < Len(s.inp) THEN {Advance(s)}
           ELSE {Advance(r) : r \in Refills(s)}

\* INPGETCH: the character put back, else the next one of the input that is not
\* used up.  The putback character that Settle restores is not looked at again.
GetCh(i) ==
  IF i.putback # None
  THEN {[ch |-> i.putback, in |-> [i EXCEPT !.putback = None]]}
  ELSE LET s == Settle(i)
       IN  IF s.eval \/ s.ipos < Len(s.inp) THEN {Advance(s)}
           ELSE {Advance(r) : r \in Refills(s)}

PutBack(d) == [d.in EXCEPT !.putback = d.ch]

-----------------------------------------------------------------------------
(* The words that read. *)

Halt(why) == phase' = "halt" /\ reason' = why

\* SKIPSPC, up to and including the first character that is no space.
SkipSpc ==
  /\ phase = "skip"
  /\ \E d \in GetCh(in) :
       \/ /\ d.ch = EOF
          /\ in' = d.in /\ phase' = "collect" /\ UNCHANGED prompts
       \/ /\ d.ch \notin Spaces \union {EOF}
          /\ in' = PutBack(d) /\ phase' = "collect" /\ UNCHANGED prompts
       \/ /\ d.ch \in Spaces
          /\ in' = d.in /\ UNCHANGED phase
          /\ prompts' = IF d.ch = "nl" THEN prompts + 1 ELSE prompts
  /\ UNCHANGED <<file, macro, name, texts, reason>>

\* WORD: without a word the machine ends.
Finish(why) == IF name = <<>> THEN Halt(why) ELSE phase' = "exec" /\ UNCHANGED reason

\* ?WORD behind SKIPSPC.
Collect ==
  /\ phase = "collect"
  /\ \E d \in GetCh(in) :
       \/ d.ch = EOF /\ in' = d.in /\ UNCHANGED name /\ Finish("term")
       \/ d.ch \in Spaces /\ in' = PutBack(d) /\ UNCHANGED name /\ Finish("term")
       \/ /\ d.ch \notin Spaces \union {EOF}
          /\ in' = d.in
          /\ name' = Append(name, d.ch)
          /\ phase' = IF Len(name') < NameMax THEN "collect" ELSE "exec"
          /\ UNCHANGED reason
  /\ UNCHANGED <<file, macro, texts, prompts>>

\* INTERPRET runs the word.
Texts == IF name \in DOMAIN macro THEN macro[name] ELSE <<>>

Execute ==
  /\ phase = "exec"
  /\ name' = <<>>
  /\ \/ name = LineComment /\ phase' = "comment" /\ UNCHANGED texts
     \/ name = Paren /\ phase' = "paren" /\ UNCHANGED texts
     \/ /\ name \notin CommentWords
        /\ texts' = Texts /\ phase' = IF Texts = <<>> THEN "skip" ELSE "eval"
  /\ UNCHANGED <<file, macro, in, prompts, reason>>

\* A word that evaluates several texts pushes one after the other, so the last one is
\* read first.
Eval ==
  /\ phase = "eval"
  /\ IF EvalFits(in)
     THEN /\ in' = EvalPush(in, Head(texts)) /\ texts' = Tail(texts)
          /\ phase' = IF Tail(texts) = <<>> THEN "skip" ELSE "eval"
          /\ UNCHANGED reason
     ELSE Halt("evalstkovf") /\ UNCHANGED <<in, texts>>
  /\ UNCHANGED <<file, macro, name, prompts>>

\* \ leaves the newline for SKIPSPC; ( takes the parenthesis.
Comment ==
  /\ phase \in {"comment", "paren"}
  /\ \E d \in GetCh(in) :
       \/ d.ch = EOF /\ in' = d.in /\ Halt("unexpeof")
       \/ /\ phase = "comment" /\ d.ch = "nl"
          /\ in' = PutBack(d) /\ phase' = "skip" /\ UNCHANGED reason
       \/ /\ phase = "paren" /\ d.ch = "rp"
          /\ in' = d.in /\ phase' = "skip" /\ UNCHANGED reason
       \/ /\ d.ch \notin {EOF, IF phase = "comment" THEN "nl" ELSE "rp"}
          /\ in' = d.in /\ UNCHANGED <<phase, reason>>
  /\ UNCHANGED <<file, macro, name, texts, prompts>>

Next == SkipSpc \/ Collect \/ Execute \/ Eval \/ Comment

\* The interpreter is a sequential program whose reads return.
Spec == Init /\ [][Next]_vars /\ WF_vars(Next)
-----------------------------------------------------------------------------
(* The words of a flat sequence of characters: the rule by which the       *)
(* program's author reads it, with no buffers and no lookahead.            *)

Lexer == [mode : {"word", "comment", "paren"}, cur : Seq(Chars), words : Seq(Seq(Chars))]

\* The state of the lexer at the end of a word ...
Ended(st) ==
  CASE st.cur = <<>> -> st
    [] st.cur = LineComment -> [st EXCEPT !.cur = <<>>, !.mode = "comment"]
    [] st.cur = Paren -> [st EXCEPT !.cur = <<>>, !.mode = "paren"]
    [] OTHER -> [st EXCEPT !.cur = <<>>, !.words = Append(@, st.cur)]

\* ... and after one more character.
Closes(st, ch) == <<st.mode, ch>> \in {<<"comment", "nl">>, <<"paren", "rp">>}
Close(st, ch) == IF Closes(st, ch) THEN [st EXCEPT !.mode = "word"] ELSE st
Longer(st, ch) == [st EXCEPT !.cur = Append(@, ch)]

Lex(st, ch) ==
  CASE st.mode # "word" -> Close(st, ch)
    [] st.mode = "word" /\ ch \in Spaces -> Close(Ended(st), ch)
    [] OTHER -> IF Len(st.cur) + 1 < NameMax THEN Longer(st, ch) ELSE Ended(Longer(st, ch))

Scan[chars \in Seq(Chars)] ==
  [st \in Lexer |-> IF chars = <<>> THEN st ELSE Scan[Tail(chars)][Lex(st, Head(chars))]]

Words(st, chars) == Ended(Scan[chars][st]).words

LexFrom(mode, cur) == [mode |-> mode, cur |-> cur, words |-> <<>>]
WordsOf(chars) == Words(LexFrom("word", <<>>), chars)

\* The characters to come when no word evaluates anything.  Of the interrupted
\* inputs only the text counts, not the character put back: it is a space, and the
\* transition has already ended the word.  The file follows the outermost input.
Rest(c) == SubSeq(c.text, c.pos + 1, Len(c.text))
Rests[cs \in Seq(Contexts)] ==
  IF cs = <<>> THEN <<>> ELSE Rest(Head(cs)) \o Rests[Tail(cs)]

Remaining(i) ==
  (IF i.putback = None THEN <<>> ELSE <<i.putback>>)
    \o Rests[<<Current(i)>> \o i.stack]
    \o SubSeq(i.inp, i.ipos + 1, Len(i.inp))
    \o SubSeq(file, i.nread + 1, Len(file))

\* The words of several texts, the last text first.
WordsOfAll[ts \in Seq(Seq(Chars))] ==
  IF ts = <<>> THEN <<>> ELSE WordsOfAll[Tail(ts)] \o WordsOf(Head(ts))

\* The words to come.
Todo ==
  LET rest == Remaining(in)
  IN  CASE phase = "skip" -> WordsOf(rest)
        [] phase = "collect" -> Words(LexFrom("word", name), rest)
        [] phase \in {"comment", "paren"} -> Words(LexFrom(phase, <<>>), rest)
        [] phase = "exec" /\ name = LineComment -> Words(LexFrom("comment", <<>>), rest)
        [] phase = "exec" /\ name = Paren -> Words(LexFrom("paren", <<>>), rest)
        [] phase = "exec" /\ name \notin CommentWords -> <<name>> \o WordsOf(rest)
        [] phase = "eval" -> WordsOfAll[texts] \o WordsOf(rest)
        [] phase = "halt" -> <<>>

\* A text that closes the comments it opens: a blank behind it is in none.  Without that
\* the comment goes on in the input the evaluation interrupted.
ClosedText(t) == Scan[t \o <<"sp">>][LexFrom("word", <<>>)].mode = "word"
TextsClosed ==
  \A m \in MacroTables : \A w \in DOMAIN m : \A k \in 1 .. Len(m[w]) : ClosedText(m[w][k])

\* What a word evaluates.
Expand == [w \in DOMAIN macro |-> WordsOfAll[macro[w]]]

Status ==
  CASE reason = "no" -> "running"
    [] reason \in {"term", "unexpeof"} /\ in.errs = 0 -> "end"
    [] OTHER -> "fail"

Stream == INSTANCE WordStream WITH todo <- Todo, expand <- Expand, errors <- in.errs,
                              status <- Status

-----------------------------------------------------------------------------
(* Properties. *)

Inputs ==
  [eval : BOOLEAN, text : Seq(Chars), pos : Nat, putback : Chars \union {None},
   stack : Seq(Contexts), inp : Seq(Chars), ipos : Nat, nread : Nat, errs : Nat,
   boot : Seq(Chars), lines : Nat]

TypeOK ==
  /\ file \in Seq(Chars) /\ macro \in MacroTables
  /\ name \in Seq(Chars) /\ Len(name) <= NameMax
  /\ texts \in Seq(Seq(Chars)) /\ (phase = "eval" => texts # <<>>)
  /\ phase \in {"skip", "collect", "exec", "eval", "comment", "paren", "halt"}
  /\ reason \in {"no", "term", "unexpeof", "evalstkovf"}
  /\ (phase = "halt") = (reason # "no")
  /\ prompts \in Nat
  /\ in \in Inputs
  /\ in.errs <= MaxErrors /\ in.nread <= Len(file)
  /\ Len(in.inp) <= Chunk /\ in.ipos <= Len(in.inp)
  /\ in.pos <= Len(in.text)
  /\ \A k \in DOMAIN in.stack : in.stack[k].pos <= Len(in.stack[k].text)

(***************************************************************************)
(* The evaluation stack (_evalpush, _evalpop) never outgrows its memory.   *)
(* Its last record is the outermost input: the text fvm_run was given, of  *)
(* which all is read before the file is touched, and the file from then    *)
(* on; so the reset of _evalpop happens once.  What an input puts back     *)
(* while another one is read is a space, which nobody needs to see again.  *)
(***************************************************************************)
EvalStackSound ==
  LET all == <<Current(in)>> \o in.stack
      outermost == Last(all)
  IN  /\ Len(in.stack) <= EvalSlots
      /\ \A k \in 1 .. Len(all) - 1 : all[k].eval
      /\ outermost.eval => outermost.text = in.boot /\ in.nread = 0
      /\ \A k \in DOMAIN in.stack : in.stack[k].putback \in Spaces \union {None}

(***************************************************************************)
(* OKAY answers a line at most once, although \ reads the newline and puts *)
(* it back for SKIPSPC to read it a second time (lines 1814-1817, 3369).   *)
(***************************************************************************)
Pending(i) ==
  {k \in 0 .. Len(i.stack) : (IF k = 0 THEN i.putback ELSE i.stack[k].putback) = "nl"}

PromptOnce == prompts + Cardinality(Pending(in)) <= in.lines

(***************************************************************************)
(* The interpreter runs exactly the words of the first text and the file,  *)
(* in order, with the words of every evaluated text in place, however the  *)
(* reads cut the file into buffers, and ends only when no word is left.    *)
(* INPREAD takes a read that fails for the end of the file (lines          *)
(* 1595-1610): each failure cuts at most the word it interrupts in two, or *)
(* ends the machine; no word is lost, repeated or moved.                   *)
(***************************************************************************)
RunsTheWords == Stream!Spec

(***************************************************************************)
(* Every input ends, with words that evaluate themselves too: the two      *)
(* records of each EVAL stay on the stack until the next character is      *)
(* wanted, so a recursion runs out of stack (lines 1324-1335).             *)
(***************************************************************************)
Terminates == <>(phase = "halt")
=============================================================================
