------------------------------ MODULE MCBuffers ------------------------------
(***************************************************************************)
(* Two IOBuffers and a Buffer on memory of two blocks of two characters:   *)
(* each pair of objects can own memory while the third has none, and one   *)
(* block is left when the other is lost.                                   *)
(***************************************************************************)
EXTENDS Buffers, TLC

CONSTANTS io1, io2, plain, b1, b2, ch1, ch2

MCObjects == {io1, io2, plain}
MCIOObjects == {io1, io2}
MCBlocks == {b1, b2}
MCChars == {ch1, ch2}

\* Addresses are alike, and so are the two IOBuffers and the two characters.
MCSymmetry ==
  Permutations(MCBlocks) \union Permutations(MCIOObjects) \union Permutations(MCChars)
=============================================================================
