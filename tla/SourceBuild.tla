----------------------------- MODULE SourceBuild -----------------------------
(***************************************************************************)
(* How a library in FORTH becomes part of a program (build_test_fvm.sh):   *)
(* compressf strips comments and white space (compressf.c), compf2src      *)
(* makes a C string of the rest (compf2src.c), and the interpreter reads   *)
(* that string at the start.                                               *)
(*                                                                         *)
(* compressf knows neither words nor definitions.  It keeps one flag, which *)
(* every double quote toggles, and takes "( " and "\ " for comments when    *)
(* the flag is off, wherever they stand.  A space followed by a quote makes *)
(* it read the quote twice and toggle twice.                                *)
(*                                                                         *)
(* One step is one call of rdch0() with what its caller does, or one turn   *)
(* of the loop of compf2src.  A character is one that a tool looks at, or   *)
(* "x" for any other; "tab" stands for the white space that isspc() knows   *)
(* but the tests for comments do not: tab, carriage return, NUL.            *)
(***************************************************************************)
EXTENDS Integers, SequencesExt

CONSTANTS
  Sources,  \* the files
  Margin    \* width of a line of the C file (72)

Spaces == {"sp", "nl", "tab"}
Chars == Spaces \union {"x", "colon", "qt", "lp", "rp", "bsl"}

ASSUME BuildAssumption ==
  Margin \in Nat \ {0} /\ Sources \subseteq Seq(Chars)

EOF == "eof"

VARIABLES
  source,  \* the FORTH file
  inp,     \* what compressf has not read of it, with what it put back in front
  quote,   \* its flag
  comp,    \* what it has written
  pc,      \* "read" and "skip": in rdch1(), before and after white space;
           \* "encode": compf2src; "done"
  lit,     \* the string literals that compf2src has written
  x,       \* its column, 0 between two literals
  cnt      \* its count of characters

vars == <<source, inp, quote, comp, pc, lit, x, cnt>>

Init ==
  /\ source \in Sources
  /\ inp = source /\ quote = FALSE /\ comp = <<>> /\ pc = "read"
  /\ lit = <<>> /\ x = 0 /\ cnt = 0

-----------------------------------------------------------------------------
(* compressf. *)

From(s, k) == SubSeq(s, k, Len(s))
Places(s, c) == {k \in DOMAIN s : s[k] = c}
First(s, c) == IF Places(s, c) = {} THEN Len(s) + 1 ELSE Min(Places(s, c))

Got(c, s, q) == [ch |-> c, inp |-> s, quote |-> q]

Next0(s) == IF s = <<>> THEN EOF ELSE Head(s)
Odd(s, c) == Cardinality(Places(s, c)) % 2 = 1

\* Mutant: parentheses are comments in strings too:
rdch0_InQuotes(s, q) ==
  LET c    == Head(s)
      rest == Tail(s)
      q1   == q # (c = "qt")
      starts == Next0(rest) \in {"sp", "nl"}
      eol  == First(rest, "nl")
  IN  CASE s = <<>> -> Got(EOF, s, q)
        [] s # <<>> /\ c = "lp" /\ starts ->
             Got("sp", From(rest, First(rest, "rp") + 1), q1)
        [] s # <<>> /\ ~q1 /\ c = "bsl" /\ starts -> Got("sp", From(rest, eol), q1)
        [] s # <<>> /\ q1 /\ c = "bsl" ->
             Got("sp", From(rest, eol), q1 # Odd(SubSeq(rest, 1, eol - 1), "qt"))
        [] OTHER -> Got(c, rest, q1)

\* rdch0: the next character, a space for a comment; the input and the flag after it.
\* A comment runs to its parenthesis or up to its newline, or to the end of the file.
rdch0(s, q) ==
  LET c    == Head(s)
      rest == Tail(s)
      q1   == q # (c = "qt")
      starts == Next0(rest) \in {"sp", "nl"}
      eol  == First(rest, "nl")
  IN  CASE s = <<>> -> Got(EOF, s, q)
        [] s # <<>> /\ ~q1 /\ c = "lp" /\ starts ->
             Got("sp", From(rest, First(rest, "rp") + 1), q1)
        [] s # <<>> /\ ~q1 /\ c = "bsl" /\ starts -> Got("sp", From(rest, eol), q1)
        [] s # <<>> /\ q1 /\ c = "bsl" ->
             Got("sp", From(rest, eol), q1 # Odd(SubSeq(rest, 1, eol - 1), "qt"))
        [] OTHER -> Got(c, rest, q1)

\* rdch1 up to the first white space, and main.
Read ==
  /\ pc = "read"
  /\ LET r == rdch0(inp, quote)
     IN  /\ inp' = r.inp /\ quote' = r.quote
         /\ \/ r.ch = EOF /\ pc' = "encode" /\ UNCHANGED comp
            \/ /\ r.ch \in Spaces /\ ~r.quote
               /\ pc' = "skip" /\ UNCHANGED comp
            \/ /\ r.ch \in Chars /\ (r.ch \in Spaces => r.quote)
               /\ comp' = Append(comp, r.ch) /\ UNCHANGED pc
  /\ UNCHANGED <<source, lit, x, cnt>>

\* Mutant: the end of the file is white space.
Skip_EOFIsSpace ==
  /\ pc = "skip"
  /\ LET r == rdch0(inp, quote)
     IN  /\ quote' = r.quote
         /\ \/ /\ r.ch \in Spaces \union {EOF}
               /\ inp' = r.inp /\ UNCHANGED <<comp, pc>>
            \/ /\ r.ch \notin Spaces \union {EOF}
               /\ inp' = <<r.ch>> \o r.inp
               /\ comp' = Append(comp, "sp") /\ pc' = "read"
  /\ UNCHANGED <<source, lit, x, cnt>>

\* Its loop: white space becomes one space, what follows is put back.
Skip ==
  /\ pc = "skip"
  /\ LET r == rdch0(inp, quote)
     IN  /\ quote' = r.quote
         /\ \/ /\ r.ch \in Spaces
               /\ inp' = r.inp /\ UNCHANGED <<comp, pc>>
            \/ /\ r.ch \notin Spaces
               /\ inp' = IF r.ch = EOF THEN r.inp ELSE <<r.ch>> \o r.inp
               /\ comp' = Append(comp, "sp") /\ pc' = "read"
  /\ UNCHANGED <<source, lit, x, cnt>>

-----------------------------------------------------------------------------
(* compf2src. *)

Opening == IF x = 0 THEN <<"qt">> ELSE <<>>
Escape(c) == IF c \in {"qt", "bsl"} THEN <<"bsl">> ELSE <<>>
Closing == <<"qt", "nl">>

\* Mutants.  The line is closed only at exactly its width:
Encode_Equal ==
  /\ pc = "encode" /\ cnt < Len(comp)
  /\ LET c    == comp[cnt + 1]
         col  == x + Len(Escape(c)) + 1
         full == col = Margin
     IN  /\ lit' = lit \o Opening \o Escape(c) \o <<c>> \o (IF full THEN Closing ELSE <<>>)
         /\ x' = IF full THEN 0 ELSE col
  /\ cnt' = cnt + 1
  /\ UNCHANGED <<source, inp, quote, comp, pc>>

\* the line is closed when its last column holds the escape.
Encode_SplitsEscape ==
  /\ pc = "encode" /\ cnt < Len(comp)
  /\ LET c   == comp[cnt + 1]
         col == x + Len(Escape(c))
     IN  /\ lit' = lit \o Opening \o Escape(c)
                       \o (IF col >= Margin THEN Closing \o <<"qt", c>> ELSE <<c>>)
                       \o (IF col < Margin /\ col + 1 >= Margin THEN Closing ELSE <<>>)
         /\ x' = IF col >= Margin THEN 1 ELSE IF col + 1 >= Margin THEN 0 ELSE col + 1
  /\ cnt' = cnt + 1
  /\ UNCHANGED <<source, inp, quote, comp, pc>>

Encode ==
  /\ pc = "encode" /\ cnt < Len(comp)
  /\ LET c    == comp[cnt + 1]
         col  == x + Len(Escape(c)) + 1
         full == col >= Margin
     IN  /\ lit' = lit \o Opening \o Escape(c) \o <<c>> \o (IF full THEN Closing ELSE <<>>)
         /\ x' = IF full THEN 0 ELSE col
  /\ cnt' = cnt + 1
  /\ UNCHANGED <<source, inp, quote, comp, pc>>

EncodeEnd ==
  /\ pc = "encode" /\ cnt = Len(comp)
  /\ lit' = lit \o (IF x = 0 THEN <<>> ELSE Closing)
  /\ x' = 0 /\ pc' = "done"
  /\ UNCHANGED <<source, inp, quote, comp, cnt>>

Next == Read \/ Skip \/ Encode \/ EncodeEnd

\* Both tools run to their end.
Spec == Init /\ [][Next]_vars /\ WF_vars(Next)

-----------------------------------------------------------------------------
(* What the C compiler makes of the literals, and what the interpreter      *)
(* makes of a text.                                                         *)

\* One more character of C: within a literal or not, behind a backslash or not.
NoText == [within |-> FALSE, esc |-> FALSE, error |-> FALSE, text |-> <<>>]

Compile(st, c) ==
  CASE st.esc -> [st EXCEPT !.esc = FALSE, !.text = Append(@, c)]
    [] ~st.esc /\ c = "qt" -> [st EXCEPT !.within = ~@]
    [] ~st.esc /\ c = "bsl" /\ st.within -> [st EXCEPT !.esc = TRUE]
    [] ~st.esc /\ c = "nl" -> [st EXCEPT !.error = @ \/ st.within]
    [] OTHER -> [st EXCEPT !.text = Append(@, c)]

Compiled(s) ==
  LET upto[n \in 0 .. Len(s)] == IF n = 0 THEN NoText ELSE Compile(upto[n - 1], s[n])
  IN  upto[Len(s)]

\* The end of a word for the interpreter: the comment words and the words that end in
\* a quote read on by themselves, unless the word is the name in a definition.
Ended(st) ==
  LET w == st.cur
      plain == [st EXCEPT !.cur = <<>>, !.words = Append(@, w), !.name = (w = <<"colon">>)]
  IN  CASE w = <<>> -> st
        [] w # <<>> /\ st.name -> plain
        [] w = <<"bsl">> /\ ~st.name -> [st EXCEPT !.cur = <<>>, !.mode = "comment"]
        [] w = <<"lp">> /\ ~st.name -> [st EXCEPT !.cur = <<>>, !.mode = "paren"]
        [] w # <<>> /\ ~st.name /\ Len(w) > 1 /\ Last(w) = "qt" ->
             [plain EXCEPT !.mode = "string"]
        [] OTHER -> plain

\* One more character.
Interpret(st, c) ==
  CASE st.mode = "word" /\ c \notin Spaces -> [st EXCEPT !.cur = Append(@, c)]
    [] st.mode = "word" /\ c \in Spaces ->
         IF c = "nl" /\ Ended(st).mode = "comment" THEN [Ended(st) EXCEPT !.mode = "word"]
         ELSE Ended(st)
    [] st.mode = "comment" -> IF c = "nl" THEN [st EXCEPT !.mode = "word"] ELSE st
    [] st.mode = "paren" -> IF c = "rp" THEN [st EXCEPT !.mode = "word"] ELSE st
    [] st.mode = "string" ->
         IF c # "qt" THEN [st EXCEPT !.cur = Append(@, c)]
         ELSE [st EXCEPT !.mode = "word", !.cur = <<>>, !.words = Append(@, st.cur)]

\* The reader before a text.
Begin == [mode |-> "word", cur |-> <<>>, words |-> <<>>, name |-> FALSE]

\* What an author has in mind who puts quotes in pairs for compressf: a quote closes one
\* or opens one, except as the first character of a word, and "\ " closes one as well.
Quoted(st, q, c) ==
  /\ st.mode \in {"word", "string"}
  /\ IF c = "qt" THEN ~q /\ st.cur # <<>> ELSE q /\ c # "bsl"

Advance(a, c) == [st |-> Interpret(a.st, c), quoted |-> Quoted(a.st, a.quoted, c)]

\* The reader, and the author's quotes, after each beginning of a text.
Reading(s) ==
  LET upto[n \in 0 .. Len(s)] ==
        IF n = 0 THEN [st |-> Begin, quoted |-> FALSE] ELSE Advance(upto[n - 1], s[n])
  IN  upto

ReaderOf(s) == Reading(s)[Len(s)].st

\* Words and strings of a text, in order.
WordsOf(s) == Ended(ReaderOf(s)).words

-----------------------------------------------------------------------------
(* Properties. *)

TypeOK ==
  /\ source \in Seq(Chars) /\ inp \in Seq(Chars) /\ comp \in Seq(Chars)
  /\ quote \in BOOLEAN /\ pc \in {"read", "skip", "encode", "done"}
  /\ lit \in Seq(Chars) /\ x \in 0 .. Margin - 1 /\ cnt \in 0 .. Len(comp)

(* How sources for compressf are written: a condition on the source alone.  *)

\* At the start of a word that is not the name in a definition.
Starts(st) == st.mode = "word" /\ st.cur = <<>> /\ ~st.name

\* Between two quotes, in a string or behind a name that ends in a quote: all on one
\* line, no comment, except one that holds the second quote "for compressor".
InQuotes(st, c, rest) ==
  /\ c # "nl"
  /\ c \in Spaces /\ st.mode = "word" => Ended(st).mode \in {"word", "string"}
  /\ c = "bsl" => /\ Starts(st) /\ Next0(rest) \in Spaces
                  /\ Odd(SubSeq(rest, 1, First(rest, "nl") - 1), "qt")

\* Outside: no string that compressf takes for text, no text that it takes for a comment,
\* no comment word before a tab, no quote in front of a word unless white space precedes.
Outside(st, c, rest, afterSpace) ==
  /\ st.mode = "word"
  /\ c \in {"lp", "bsl"} /\ Next0(rest) \in {"sp", "nl"} => Starts(st)
  /\ c \in Spaces /\ Ended(st).mode # "word" => st.cur \in {<<"lp">>, <<"bsl">>} /\ c # "tab"
  /\ c = "qt" /\ st.cur = <<>> => afterSpace

Conventional(s) ==
  LET r == Reading(s)
  IN  /\ r[Len(s)].st.mode = "word" /\ ~r[Len(s)].quoted
      /\ \A k \in 1 .. Len(s) :
           r[k - 1].st.mode \in {"word", "string"} =>
             IF r[k - 1].quoted
               THEN InQuotes(r[k - 1].st, s[k], From(s, k + 1))
               ELSE Outside(r[k - 1].st, s[k], From(s, k + 1),
                            k > 1 /\ r[k - 2].st.mode # "string")

(***************************************************************************)
(* The interpreter reads the same words and strings from the compressed     *)
(* text as from the source: strings keep their spaces and parentheses,      *)
(* comments may contain quotes, and the definition of a word that ends in a *)
(* quote is followed by a comment with a second one "for compressor"        *)
(* (fvm_library.f, line 136).  No newline is left.                          *)
(***************************************************************************)
LoadsTheSame ==
  pc = "done" /\ Conventional(source) =>
    /\ quote = FALSE /\ "nl" \notin Range(comp)
    /\ WordsOf(Compiled(lit).text) = WordsOf(source)

(***************************************************************************)
(* The C file compiles, its literals are the compressed text, wherever a    *)
(* line ends, and the size that compf2src writes is the text's length: for  *)
(* every file in whose compressed text no newline is left.                  *)
(***************************************************************************)
LiteralsAreText ==
  pc = "done" /\ "nl" \notin Range(comp) =>
    LET c == Compiled(lit)
    IN  /\ c.text = comp /\ cnt = Len(comp)
        /\ ~c.error /\ ~c.within /\ ~c.esc

(***************************************************************************)
(* The tools come to their end on every file, with comments and strings     *)
(* that are never closed too.                                               *)
(***************************************************************************)
BuildEnds == <>(pc = "done")
=============================================================================
