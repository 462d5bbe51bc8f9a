-------------------------- MODULE MCForthCompiler --------------------------
(***************************************************************************)
(* ForthCompiler on all nestings of two control structures, on programs of *)
(* several definitions, on words that make words, and on texts that are    *)
(* not well formed.                                                        *)
(***************************************************************************)
EXTENDS ForthCompiler

MCNames == {"f", "g", "a", "b"}

\* Every control structure around the given bodies.
Conditional(A, B) ==
  {<<"flag", w>> \o a \o <<"THEN">> : w \in {"IF", "UNLESS"}, a \in A}
    \union {<<"flag", w>> \o a \o <<"ELSE">> \o b \o <<"THEN">> :
              w \in {"IF", "UNLESS"}, a \in A, b \in B}

Loops(A, B) ==
  {<<"BEGIN">> \o a \o <<"AGAIN">> : a \in A}
    \union {<<"BEGIN">> \o a \o <<"flag", "UNTIL">> : a \in A}
    \union {<<"BEGIN">> \o a \o <<"flag", "WHILE">> \o b \o <<"REPEAT">> : a \in A, b \in B}

Leaves == {<<>>, <<"x">>}
Flat == Conditional(Leaves, Leaves) \union Loops(Leaves, Leaves)
Nested == Conditional(Flat, Leaves) \union Conditional(Leaves, Flat)
            \union Loops(Flat, Leaves) \union Loops(Leaves, Flat)

\* A word with a body, run once.
OneWord == {<<":", "f">> \o b \o <<"x", ";", "f">> : b \in Flat \union Nested}

\* Redefinition, recursion, hiding, immediate words, words that run in [ ].
Definitions ==
  { <<":", "f", "x", ";", ":", "f", "f", "flag", "IF", "f", "THEN", ";", "f">>,
    <<":", "f", "UNHIDE", "flag", "IF", "f", "THEN", "x", ";", "f">>,
    <<":", "f", "x", ";", ":", "f", "UNHIDE", "HIDE", "f", ";", "f">>,
    <<":", "f", "x", ";", "HIDE", "f">>,
    <<":", "f", "f", ";">>,
    <<":", "f", "x", ";", ":", "f", "x", "x", ";", "HIDE", "f", "UNHIDE", "f">>,
    <<":", "g", "IMMEDIATE", "x", ";", ":", "f", "flag", "IF", "g", "x", "THEN", ";", "f", "g">>,
    <<":", "g", "flag", "IF", "x", "ELSE", "THEN", ";", "IMMEDIATE",
      ":", "f", "BEGIN", "g", "flag", "WHILE", "g", "x", "REPEAT", ";", "f">>,
    <<":", "g", "x", ";", ":", "f", "BEGIN", "[", "g", "flag", "]", "g", "UNTIL", ";", "f", "f">>,
    <<":", "g", "flag", ";", ":", "f", "g", "IF", "g", "UNLESS", "x", "THEN", "THEN", ";", "f">>,
    <<":", "f", "IF", "THEN", ";", "f">>,
    <<":", "f", "IF", "IF", "IF", "IF", "UNLESS", "THEN", "THEN", "THEN", "THEN", "THEN", ";">>,
    <<":", "f", "BEGIN", "BEGIN", "flag", "WHILE", "flag", "UNTIL", "REPEAT", ";">>,
    <<":", "f", "x", ";", "f", ":">> }

\* Words that make words: one and two of them with the same code, code given to
\* another word than the one just made, none to give it to, a second DOES>, a variable,
\* names taken from the text while a definition runs, redefined and hidden ones.
Defining ==
  { <<":", "f", "CREATE", "DOES>", "x", "DROP", ";", "f", "a", "f", "g", "a", "g", "a">>,
    <<":", "f", "CREATE", ";", ":", "g", "f", "DOES>", "DROP", "x", ";", "g", "a", "f", "b", "a", "b">>,
    <<":", "f", "DOES>", "x", ";", "CREATE", "a", "CREATE", "b", "f", "a", "b", "f", "b">>,
    <<":", "f", "DOES>", "DROP", ";", "f">>,
    <<":", "f", "DOES>", "x", ";", "CREATE", "a", ":", "g", "f", "a", ";", "g">>,
    <<":", "f", "CREATE", "DOES>", "x", "DOES>", "DROP", "x", ";", "f", "a", "a", "a", "f", "b", "a">>,
    <<":", "f", "CREATE", "flag", "IF", "DOES>", "x", "THEN", "IF", "x", "THEN", ";", "f", "a", "a">>,
    <<":", "f", "VARIABLE", "x", ";", "f", "a", "a", "f", "a", "HIDE", "a", "VARIABLE", "b", "b">>,
    <<"CREATE", "a", ":", "f", "a", "DROP", ";", ":", "a", "a", "UNLESS", "x", "THEN", ";", "f", "a",
      "CREATE", "a", "a", "f">>,
    <<":", "f", "CREATE", "DOES>", "BEGIN", "DROP", "flag", "UNTIL", ";", "f", "a", ":", "g", "a", "x", ";",
      "g", "CREATE">>,
    <<":", "f", "f", "x", ";", "CREATE", "a", "f">>,
    <<":", "f", "UNHIDE", "DOES>", "f", ";", "CREATE", "a", "f", "a">>,
    <<":", "f", "CREATE", "a", "b", ";", "f", "a", "f", "b">> }

\* Texts without a meaning: unbalanced or crossed structures, structures outside a
\* definition, an unfinished word that runs.
IllFormed ==
  { <<":", "f", "THEN", ";">>, <<":", "f", "ELSE", ";">>, <<":", "f", "AGAIN", ";", "f">>,
    <<":", "f", "UNTIL", ";", "f">>, <<":", "f", "REPEAT", ";">>,
    <<":", "f", "flag", "IF", ";", "f">>, <<"THEN">>, <<"AGAIN", "UNTIL">>,
    <<":", "f", "BEGIN", "REPEAT", ";", "f">>, <<":", "f", "BEGIN", "THEN", ";", "f">>,
    <<":", "f", "AGAIN", "BEGIN", "x", ";", "f">>,
    <<":", "f", "flag", "IF", "BEGIN", "THEN", "flag", "UNTIL", ";", "f">>,
    <<":", "f", "flag", "WHILE", ";", "f">>, <<":", "f", "AGAIN", "THEN", ";">>,
    <<":", "f", "UNHIDE", "[", "f", "]", ";">>, <<"IMMEDIATE">>, <<";">>,
    <<":", "g", "AGAIN", "x", ";", "IMMEDIATE", ":", "f", "g", ";", "f">>,
    <<":", "g", "[COMPILE]", "f", ";", "IMMEDIATE", ":", "f", "g", "x", ";", "f">>,
    <<":", "f", "x", ";", ":", "g", "[COMPILE]", ";", "IMMEDIATE",
      ":", "f", "g", "f", "x", ";", "f", "g", "f">>,
    <<"CREATE", "a", "DOES>", "a", "x">>, <<"DOES>", "x">>,
    <<":", "f", "CREATE", ";", "IMMEDIATE", ":", "g", "f", "a", "x", ";", "a", "g">>,
    <<"CREATE", "a", "IMMEDIATE", ":", "f", "[", "a", "]", "x", "a", ";", "f">>,
    <<":", "f", "AGAIN", "DOES>", "x", ";", "CREATE", "a", "f">>,
    <<":", "f", "[COMPILE]", "CREATE", ";", "IMMEDIATE", ":", "g", "f", "x", "a", ";", "f", "a", "g", "a", "a">>,
    <<"[COMPILE]", "x">>, <<"AGAIN", ":", "f", "AGAIN", ";", "f">>,
    <<"BEGIN", ":", "f", "THEN", "x", ";", "f">>,
    <<"BEGIN", ":", "f", "x", ";", ":", "g", "f", "THEN", ";", "g">>,
    <<":", "f", "UNHIDE", "flag", "IF", "THEN", "[", ":", "g", "x", ";", "f">> }

MCPrograms == OneWord \union Definitions \union Defining \union IllFormed
=============================================================================
