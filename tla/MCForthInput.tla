--------------------------- MODULE MCForthInput ---------------------------
(***************************************************************************)
(* ForthInput on every file of up to three characters and on longer ones   *)
(* that reach deep evaluations, with a buffer of two characters and words  *)
(* of at most three; m is the word that evaluates.                         *)
(***************************************************************************)
EXTENDS ForthInput

ShortFiles == UNION {[1 .. n -> Chars \ {"b"}] : n \in 0 .. 3}

\* An evaluation with words, lines and comments around it.
LongFiles ==
  { <<"m", "sp", "a", "b", "nl">>, <<"m", "nl", "a", "b">>,
    <<"a", "a", "a", "a", "sp", "m">>, <<"m", "nl", "nl", "m", "sp", "b">>,
    <<"m", "sp", "bsl", "sp", "a", "nl", "b", "nl">>,
    <<"lp", "sp", "nl", "rp", "m", "nl", "sp", "b">>,
    <<"b", "m", "m", "m", "sp", "m", "sp", "b">> }

\* Nothing, a text that ends in a word, which then goes on in the file, and one that
\* does not.
MCClosedBootTexts == {<<>>, <<"b", "sp", "m", "nl">>}
MCBootTexts == MCClosedBootTexts \union {<<"b", "sp", "m">>}

MCFiles == ShortFiles \union LongFiles

\* Where reads fail no word is too long, so that the only cuts are those of the reads,
\* and no word ends in a comment word, which a cut would bring to life.
MCFailing ==
  MCClosedBootTexts \X
    ([1 .. 3 -> {"a", "m", "sp"}] \union
     {f \in LongFiles : \A k \in 1 .. Len(f) - NameMax :
                          \E j \in k .. k + NameMax : f[j] \in Spaces})

Macros(ts) == [w \in {<<"m">>} |-> ts]

\* The empty text, two texts, a text that evaluates itself, twice even, one that does
\* so after a word of full length, and texts with comments.
MCMacroTables ==
  {Macros(ts) : ts \in
    { << <<>> >>, << <<"a">>, <<"b", "sp">> >>,
      << <<"m">> >>, << <<"m", "sp", "m">> >>, << <<"a", "b", "b">>, <<"m", "sp", "b">> >>,
      << <<"lp", "sp", "a", "rp", "b">>, <<"bsl", "sp", "a", "nl", "b">> >> }}

\* Nested evaluations that end: m evaluates b, b evaluates a b b, one file.
MCNestedTables ==
  MCMacroTables \union
  { (<<"m">> :> << <<"b", "sp", "a">>, <<"b">> >>) @@ (<<"b">> :> << <<"a", "b", "b">> >>) }

\* What the proof of RunsTheWords takes of the programs.
ASSUME MCTextsClosed == TextsClosed
=============================================================================
