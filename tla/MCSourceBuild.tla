--------------------------- MODULE MCSourceBuild ---------------------------
(***************************************************************************)
(* SourceBuild on all files of up to four characters, and on sources of    *)
(* two items and a third: words, strings, comments and definitions as they *)
(* occur in fvm_library.f and fvm_yulark.f.                                *)
(***************************************************************************)
EXTENDS SourceBuild

\* Words, with the characters of comments inside too, and a quote as a word.
WordItems == {<<"x">>, <<"lp", "x">>, <<"x", "bsl", "x">>, <<"qt">>}

StringItems ==
  {<<"x", "qt", "sp">> \o body \o <<"qt">> :
     body \in {<<>>, <<"sp", "sp", "x">>, <<"lp", "sp", "x">>, <<"x", "tab">>}}

ParenItems ==
  {<<"lp", "sp">> \o body \o <<"rp">> :
     body \in {<<"x", "sp">>, <<"qt">>, <<"bsl", "nl">>}}

\* These need a newline behind them: line comments, and the definition of a word that
\* ends in a quote.
LineItems ==
  {<<"bsl", "sp">>, <<"bsl", "sp", "qt", "x">>, <<"bsl", "sp", "lp", "sp">>,
   <<"colon", "sp", "x", "qt", "sp", "bsl", "sp", "qt">>}

Closed(item) ==
  {item \o sep : sep \in
     IF item \in LineItems THEN {<<"nl">>} ELSE {<<"sp">>, <<"tab", "nl">>}}

Items == UNION {Closed(i) : i \in WordItems \union StringItems \union ParenItems \union LineItems}

\* What the third item may be: something to be read as it stands after the first two.
Tails == Closed(<<"x">>) \union Closed(<<"x", "qt", "sp", "sp", "sp", "x", "qt">>)
           \union Closed(<<"lp", "sp", "qt", "rp">>)

MCWellFormed == {<<"sp">> \o i \o j \o k : i, j \in Items, k \in Tails}

MCOthers == UNION {[1 .. n -> Chars \ {"colon", "tab"}] : n \in 1 .. 4}

MCSources == MCWellFormed \union MCOthers

\* The sources of items are ones as the author writes them.
ASSUME MCConventional == \A s \in MCWellFormed : Conventional(s)
=============================================================================
