----------------------------- MODULE MCYuTrough -----------------------------
(***************************************************************************)
(* YuTrough with a trough for three characters and a ring of three cells.  *)
(***************************************************************************)
EXTENDS YuTrough

Upto(S, n) == UNION {[1 .. m -> S] : m \in 0 .. n}

\* Words and numbers; strings; one number of each sort.
MCTexts ==
  Upto({"a", "n", " ", LF}, 4) \union Upto({"a", "1", "$", LF, " "}, 4)
    \union Upto({"q", "a", LF}, 4)
    \union {<<" ", "q", "1", "q", "'", "a", "'">>, <<"#", "1", "#", "n", LF, "%", "1">>,
            <<"@", "1", "1", " ", "#", "1">>}
MCCalls == {<<"ident">>, <<"dec">>, NumKinds, StrKinds}
=============================================================================
