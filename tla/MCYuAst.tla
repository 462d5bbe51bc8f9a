------------------------------- MODULE MCYuAst -------------------------------
(***************************************************************************)
(* YuAst with five nodes, room for two branches at first, and a return     *)
(* stack on which trees of four levels can be deleted and a chain of five  *)
(* cannot.                                                                 *)
(***************************************************************************)
EXTENDS YuAst

CONSTANTS n1, n2, n3, n4, n5

MCNodes == {n1, n2, n3, n4, n5}
MCBlocks == 1 .. 5
=============================================================================
