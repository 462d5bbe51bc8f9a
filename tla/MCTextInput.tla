----------------------------- MODULE MCTextInput -----------------------------
(***************************************************************************)
(* TextInput on every text of up to six characters, any of them newlines, *)
(* with a buffer of two: lines in one, two and three buffers, texts that    *)
(* end with and without a newline and at every place of a buffer.           *)
(***************************************************************************)
EXTENDS TextInput

Text(n, breaks) == [i \in 1 .. n |-> IF i \in breaks THEN Newline ELSE i]

MCTexts == UNION {{Text(n, B) : B \in SUBSET (1 .. n)} : n \in 0 .. 6}

\* One line.
MCLongTexts == {Text(24, {})}
=============================================================================
