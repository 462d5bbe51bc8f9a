------------------------------- MODULE YuAst -------------------------------
(***************************************************************************)
(* The nodes of the abstract syntax tree of the Yulark engine              *)
(* (fvm_yulark.f, lines 97-221) on the heap of the C library.              *)
(*                                                                         *)
(* A node is a block of five cells; its branches are pointers in a second  *)
(* block that grows.  YU-ASTN-DELETE makes itself visible while it is      *)
(* compiled and calls itself for each branch.  The parser that will build  *)
(* trees does not exist yet: the caller is anything that keeps to trees.   *)
(*                                                                         *)
(* Type and data of a node are left out.  Which address malloc chooses is  *)
(* left out where nothing but one field points to the block.               *)
(***************************************************************************)
EXTENDS Integers, SequencesExt

CONSTANTS
  Nodes,        \* addresses of node blocks
  Blocks,       \* addresses of branch blocks
  None,         \* the null pointer
  FirstRoom,    \* branches for which room is made at first  (10)
  Depth,        \* nested calls that fit on the return stack
  MaxBranches   \* bound of the model: branches that the caller adds to a node

ASSUME SizeAssumption ==
  /\ FirstRoom \in Nat \ {0} /\ Depth \in Nat \ {0} /\ MaxBranches \in Nat
  /\ None \notin Nodes \union Blocks

VARIABLES
  node,    \* live node blocks: num, alo and ptr are YU-ASTN-NUM-BR, -ALO-BR, -PTR-BR
  block,   \* live branch blocks, sequences of cells
  calls,   \* active calls of YU-ASTN-DELETE, innermost first: the node, the count on
           \* the stack, and whether the test of line 145 found branches
  status   \* "run", or how the machine stopped

vars == <<node, block, calls, status>>

Init == node = <<>> /\ block = <<>> /\ calls = <<>> /\ status = "run"

Stop(why) == status' = why /\ UNCHANGED <<node, block, calls>>

-----------------------------------------------------------------------------
(* The heap: XALLOC, XREALLOC and XFREE end the program when no memory is  *)
(* left.                                                                   *)

Junk == None
Allocated(n) == [i \in 1 .. n |-> Junk]

\* The cells a pointer leads to.
CellsAt(p) == IF p = None THEN <<>> ELSE block[p]

\* realloc keeps what fits.
Resized(cells, n) ==
  [i \in 1 .. n |-> IF i <= Len(cells) THEN cells[i] ELSE Junk]

\* Where a block lies that has grown; malloc needs an address that is free.
Unused == Blocks \ DOMAIN block
Owned(p) == IF p # None THEN p ELSE CHOOSE q \in Unused : TRUE

-----------------------------------------------------------------------------
(* The caller. *)

Idle == status = "run" /\ calls = <<>>

BranchesOf(n) == SubSeq(CellsAt(node[n].ptr), 1, node[n].num)
IsRoot(n) == n \in DOMAIN node /\ \A m \in DOMAIN node : n \notin Range(BranchesOf(m))

Below(n) ==
  {m \in DOMAIN node : \A S \in SUBSET DOMAIN node :
     n \in S /\ (\A x \in S : Range(BranchesOf(x)) \subseteq S) => m \in S}

\* A caller that keeps to trees.
MayAdd(a, b) ==
  /\ a \in DOMAIN node /\ IsRoot(b) /\ a \notin Below(b)
  /\ node[a].num < MaxBranches

-----------------------------------------------------------------------------
(* The words. *)

\* YU-ASTN-CREATE.
Create ==
  /\ Idle
  /\ \/ Stop("memory")
     \/ \E n \in Nodes \ DOMAIN node :
          /\ node' = [m \in DOMAIN node \union {n} |->
                        IF m = n THEN [num |-> 0, alo |-> 0, ptr |-> None] ELSE node[m]]
          /\ UNCHANGED <<block, calls, status>>

\* Store branch b at index `num` of a, whose branch block has become `cells`.
Store(a, b, cells, room) ==
  LET num == node[a].num
      p   == Owned(node[a].ptr)
  IN  IF num >= Len(cells) THEN Stop("fault")
      ELSE /\ node[a].ptr # None \/ Unused # {}
           /\ node' = [node EXCEPT ![a] = [num |-> num + 1, alo |-> room, ptr |-> p]]
           /\ block' = [q \in DOMAIN block \union {p} |->
                          IF q = p THEN [cells EXCEPT ![num + 1] = b] ELSE block[q]]
           /\ UNCHANGED <<calls, status>>

\* Mutants.  The count is compared wrongly at the boundary:
AddBr_OffByOne(a, b) ==
  LET num   == node[a].num
      alloc == node[b].alo
      room  == IF alloc = 0 THEN FirstRoom ELSE 2 * alloc
  IN  /\ Idle /\ MayAdd(a, b)
      /\ IF num > alloc
         THEN Stop("memory") \/ Store(a, b, Resized(CellsAt(node[a].ptr), room), room)
         ELSE Store(a, b, CellsAt(node[a].ptr), node[a].alo)

\* the old size is not what is kept of the block:
AddBr_Fresh(a, b) ==
  LET room == IF node[b].alo = 0 THEN FirstRoom ELSE 2 * node[b].alo
  IN  /\ Idle /\ MayAdd(a, b)
      /\ Stop("memory") \/ Store(a, b, Allocated(room), room)

\* the new size is not noted:
AddBr_NoSize(a, b) ==
  /\ Idle /\ MayAdd(a, b)
  /\ Stop("memory") \/ Store(a, b, Resized(CellsAt(node[a].ptr), FirstRoom), 0)

\* YU-ASTN-ADDBR.  The "2 PICK" of line 186 takes the branch, not the node: the room
\* is that of b, the new room is noted in a.
AddBr(a, b) ==
  LET num   == node[a].num
      alloc == node[b].alo
      room  == IF alloc = 0 THEN FirstRoom ELSE 2 * alloc
  IN  /\ Idle /\ MayAdd(a, b)
      /\ IF num >= alloc
         THEN Stop("memory") \/ Store(a, b, Resized(CellsAt(node[a].ptr), room), room)
         ELSE Store(a, b, CellsAt(node[a].ptr), node[a].alo)

Call(n) == [node |-> n, num |-> node[n].num, some |-> node[n].num > 0]

\* YU-ASTN-DELETE, called from outside.
Delete ==
  /\ Idle
  /\ \E n \in DOMAIN node : IsRoot(n) /\ calls' = <<Call(n)>>
  /\ UNCHANGED <<node, block, status>>

Top == Head(calls)

\* Mutant: the call is made without a look at the return stack.
DeleteBranch_Unchecked ==
  /\ status = "run" /\ calls # <<>> /\ Top.num > 0
  /\ LET num   == Top.num - 1
         child == CellsAt(node[Top.node].ptr)[num + 1]
     IN  /\ node' = [node EXCEPT ![Top.node].num = num]
         /\ calls' = <<Call(child), [Top EXCEPT !.num = num]>> \o Tail(calls)
         /\ UNCHANGED <<block, status>>

\* The loop, lines 146-165, up to the call for the last branch that is left.
DeleteBranch ==
  /\ status = "run" /\ calls # <<>> /\ Top.num > 0
  /\ LET num   == Top.num - 1
         child == CellsAt(node[Top.node].ptr)[num + 1]
     IN  IF child \notin DOMAIN node THEN Stop("fault")
         ELSE IF Len(calls) >= Depth THEN Stop("rstkovf")
         ELSE /\ node' = [node EXCEPT ![Top.node].num = num]
              /\ calls' = <<Call(child), [Top EXCEPT !.num = num]>> \o Tail(calls)
              /\ UNCHANGED <<block, status>>

\* Mutant: the block of the branches is not freed.
DeleteEnd_Leak ==
  /\ status = "run" /\ calls # <<>> /\ Top.num = 0
  /\ node' = [m \in DOMAIN node \ {Top.node} |-> node[m]]
  /\ calls' = Tail(calls)
  /\ UNCHANGED <<block, status>>

\* The end of the loop: the branch block is freed when there were branches, then the
\* node; the calling DELETE clears its pointer (line 159).
DeleteEnd ==
  LET gone   == IF Top.some THEN node[Top.node].ptr ELSE None
      parent == Head(Tail(calls))
      at     == node[parent.node].ptr
      Cleared(q) == IF Tail(calls) # <<>> /\ q = at
                    THEN [block[q] EXCEPT ![parent.num + 1] = None] ELSE block[q]
  IN  /\ status = "run" /\ calls # <<>> /\ Top.num = 0
      /\ block' = [q \in DOMAIN block \ {gone} |-> Cleared(q)]
      /\ node' = [m \in DOMAIN node \ {Top.node} |-> node[m]]
      /\ calls' = Tail(calls)
      /\ UNCHANGED status

Next ==
  \/ Create \/ Delete \/ DeleteBranch \/ DeleteEnd
  \/ \E a, b \in Nodes : AddBr(a, b)

Spec == Init /\ [][Next]_vars

-----------------------------------------------------------------------------
(* The state as a forest: a branch that is being deleted still belongs to  *)
(* its node.                                                               *)

Waiting(n) == \E k \in 2 .. Len(calls) : calls[k].node = n

Kept(n) == node[n].num + (IF Waiting(n) THEN 1 ELSE 0)

Trees == [n \in DOMAIN node |-> SubSeq(CellsAt(node[n].ptr), 1, Kept(n))]

Doomed == IF calls = <<>> THEN None ELSE Last(calls).node

Abstract == INSTANCE Forest WITH branches <- Trees, doomed <- Doomed

-----------------------------------------------------------------------------
(* Properties. *)

TypeOK ==
  /\ DOMAIN node \subseteq Nodes /\ DOMAIN block \subseteq Blocks
  /\ node \in [DOMAIN node -> [num : Nat, alo : Nat, ptr : Blocks \union {None}]]
  /\ block \in [DOMAIN block -> Seq(Nodes \union {None})]
  /\ calls \in Seq([node : Nodes, num : Nat, some : BOOLEAN])
  /\ Len(calls) <= Depth /\ \A k \in DOMAIN calls : calls[k].node \in DOMAIN node
  /\ status \in {"run", "memory", "rstkovf", "fault"}

(***************************************************************************)
(* "check if number of branches is equal or greater than number of         *)
(* allocated branches" (fvm_yulark.f, lines 182-183): no branch is stored  *)
(* outside of the block of its node, and none is deleted that is gone.     *)
(***************************************************************************)
WithinBlocks == status # "fault"

(***************************************************************************)
(* The same as far as it is true, for every caller: the one way to store a *)
(* branch outside of its block is YU-ASTN-ADDBR with two nodes of          *)
(* different rooms, the room of the wrong one being compared (line 186).   *)
(* A deletion never meets a branch that is gone.                           *)
(***************************************************************************)
FaultsByRoomOnly ==
  [][status' = "fault" =>
       \/ status = "fault"
       \/ \E a, b \in Nodes : AddBr(a, b) /\ node[a].alo # node[b].alo]_vars

(***************************************************************************)
(* The fields of a node agree with its block: the noted room is the room   *)
(* of the block, and holds all branches (lines 181-221).                   *)
(***************************************************************************)
RoomNoted ==
  \A n \in DOMAIN node :
    /\ node[n].ptr \in DOMAIN block \union {None}
    /\ node[n].alo = Len(CellsAt(node[n].ptr))
    /\ node[n].num <= node[n].alo

(***************************************************************************)
(* Every branch block belongs to one node that is alive: YU-ASTN-DELETE    *)
(* frees the block although it looks at the count before the loop only.    *)
(***************************************************************************)
NoLeak ==
  \A q \in DOMAIN block :
    \E n \in DOMAIN node :
      /\ node[n].ptr = q
      /\ \A m \in DOMAIN node \ {n} : node[m].ptr # q

(***************************************************************************)
(* Nodes and branches behave as a forest: adding keeps the older branches  *)
(* and their order, deleting a root frees the nodes of its tree, each      *)
(* once, after its branches, and no other node; where a branch would lie   *)
(* outside of its block the machine stops with the forest as it was.       *)
(***************************************************************************)
IsForest == Abstract!Spec
=============================================================================
