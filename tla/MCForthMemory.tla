--------------------------- MODULE MCForthMemory ---------------------------
(***************************************************************************)
(* ForthMemory on a block of 163 bytes with a return stack of 32: four     *)
(* return stack cells, eight cells of parameter stack and eight of         *)
(* dictionary, the middle of the block not on a cell boundary.  A word has *)
(* nine bits: 64 cells are the whole address space.                        *)
(***************************************************************************)
EXTENDS ForthMemory

\* Small counts, the same negative or wrapped around (64 is 0 again, 511 is -1),
\* counts that reach the dictionary (55, 503) and the memory in front of the block
\* (495), the negative count that is its own negation (256).
MCCounts == (0 .. 9) \union {55, 64, 65, 100, 256, 257, 495, 503, 510, 511}
\* Small counts, counts that turn negative by the shift, counts that lose bits in it
\* (64 is no byte, 65 one cell), negative counts.
MCAllotCounts == (0 .. 9) \union {31, 32, 63, 64, 65, 72, 100, 255, 256, 511}
\* Around each padding boundary and the limit of 31.
MCNameLens == {0, 7, 8, 15, 16, 31, 32, 40}
============================================================================
