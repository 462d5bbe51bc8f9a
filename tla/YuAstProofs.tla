---------------------------- MODULE YuAstProofs ----------------------------
(***************************************************************************)
(* The nodes of the syntax tree keep their blocks and their shape for any  *)
(* number of nodes and any order of the caller's words (YuAst), and they   *)
(* implement Forest.                                                       *)
(***************************************************************************)
EXTENDS YuAst, TLAPS

-----------------------------------------------------------------------------
(* The inductive invariant. *)

Branch(n, i) == CellsAt(node[n].ptr)[i]

\* Each block belongs to one node.
Unshared ==
  \A m, n \in DOMAIN node : node[m].ptr = node[n].ptr => m = n \/ node[m].ptr = None

Used == \A q \in DOMAIN block : \E n \in DOMAIN node : node[n].ptr = q

\* A node has a block when it has branches, unless they are being deleted.
Active(n) == \E k \in DOMAIN calls : calls[k].node = n
BlockForBranches ==
  \A n \in DOMAIN node : node[n].num = 0 /\ ~Active(n) => node[n].ptr = None

\* The branches of a node are nodes, and no node is the branch of two.
Links ==
  \A n \in DOMAIN node :
    Kept(n) <= Len(CellsAt(node[n].ptr)) /\ \A i \in 1 .. Kept(n) : Branch(n, i) \in DOMAIN node

OneParent ==
  \A m, n \in DOMAIN node : \A i \in 1 .. Kept(m), j \in 1 .. Kept(n) :
    Branch(m, i) = Branch(n, j) => m = n /\ i = j

\* The active calls: each one for a node of its own, with what the node holds, ...
Frames ==
  \A k \in DOMAIN calls :
    /\ calls[k].num = node[calls[k].node].num
    /\ calls[k].some = (node[calls[k].node].ptr # None)
    /\ \A j \in DOMAIN calls : calls[j].node = calls[k].node => j = k

\* ... for the branch behind the ones that are left of the caller's node, ...
Chain ==
  \A k \in DOMAIN calls \ {1} :
    Branch(calls[k].node, calls[k].num + 1) = calls[k - 1].node

\* ... and the outermost one for a root.
FromRoot ==
  calls # <<>> =>
    \A n \in DOMAIN node : \A i \in 1 .. Kept(n) : Branch(n, i) # Last(calls).node

Shape == Unshared /\ Used /\ BlockForBranches /\ Links /\ OneParent /\ Frames /\ Chain /\ FromRoot

Inv == TypeOK /\ RoomNoted /\ Shape

-----------------------------------------------------------------------------
(* The state, read off the invariant. *)

\* What the fields of a node are, and the cells of its block.
LEMMA NodeType ==
  ASSUME TypeOK, RoomNoted, NEW n \in DOMAIN node
  PROVE  /\ n \in Nodes /\ node[n] \in [num : Nat, alo : Nat, ptr : Blocks \union {None}]
         /\ node[n].num \in Nat /\ node[n].alo \in Nat
         /\ node[n].ptr \in DOMAIN block \union {None}
         /\ CellsAt(node[n].ptr) \in Seq(Nodes \union {None})
         /\ node[n].alo = Len(CellsAt(node[n].ptr)) /\ node[n].num <= node[n].alo
<1>1. /\ n \in Nodes /\ node[n] \in [num : Nat, alo : Nat, ptr : Blocks \union {None}]
      /\ node[n].num \in Nat /\ node[n].alo \in Nat
  BY DEF TypeOK
<1>2. node[n].ptr \in DOMAIN block \union {None}
      /\ node[n].alo = Len(CellsAt(node[n].ptr)) /\ node[n].num <= node[n].alo
  BY DEF RoomNoted
<1>3. CASE node[n].ptr = None
  BY <1>1, <1>2, <1>3 DEF CellsAt
<1>4. CASE node[n].ptr # None
  <2>1. block[node[n].ptr] \in Seq(Nodes \union {None})
    BY <1>2, <1>4 DEF TypeOK
  <2> QED
    BY <1>1, <1>2, <1>4, <2>1 DEF CellsAt
<1> QED
  BY <1>3, <1>4

\* While nothing is deleted all branches are those the count says.
LEMMA KeptIdle ==
  ASSUME TypeOK, RoomNoted, calls = <<>>, NEW n \in DOMAIN node
  PROVE  ~Waiting(n) /\ ~Active(n) /\ Kept(n) = node[n].num
<1>1. ~Waiting(n) /\ ~Active(n)
  BY DEF Waiting, Active
<1> QED
  BY <1>1, NodeType DEF Kept

\* A root is the branch of no node.
LEMMA RootsBranches ==
  ASSUME TypeOK, RoomNoted, NEW n \in DOMAIN node
  PROVE  /\ Range(BranchesOf(n)) = {Branch(n, i) : i \in 1 .. node[n].num}
         /\ Len(BranchesOf(n)) = node[n].num /\ BranchesOf(n) \in Seq(Nodes \union {None})
         /\ \A i \in 1 .. node[n].num : BranchesOf(n)[i] = Branch(n, i)
<1> DEFINE cells == CellsAt(node[n].ptr)
<1>1. cells \in Seq(Nodes \union {None}) /\ node[n].num \in 0 .. Len(cells)
  BY NodeType
<1>2. BranchesOf(n) = SubSeq(cells, 1, node[n].num)
  BY DEF BranchesOf
<1>3. \A i \in 1 .. node[n].num : Branch(n, i) = cells[i]
  BY DEF Branch
<1> HIDE DEF cells
<1>4. /\ Len(BranchesOf(n)) = node[n].num /\ BranchesOf(n) \in Seq(Nodes \union {None})
      /\ \A i \in 1 .. node[n].num : BranchesOf(n)[i] = Branch(n, i)
  BY <1>1, <1>2, <1>3
<1>5. DOMAIN BranchesOf(n) = 1 .. node[n].num
  BY <1>4
<1> QED
  BY <1>4, <1>5 DEF Range

\* With no call active there is nothing to say about calls.
LEMMA NoCalls ==
  ASSUME calls' = <<>>
  PROVE  Frames' /\ Chain' /\ FromRoot'
BY DEF Frames, Chain, FromRoot

-----------------------------------------------------------------------------
(* The steps. *)

\* A machine that stops leaves everything as it is.
LEMMA StopKeeps ==
  ASSUME Inv, NEW why \in {"memory", "rstkovf", "fault"}, Stop(why)
  PROVE  Inv'
<1>1. node' = node /\ block' = block /\ calls' = calls /\ status' = why
  BY DEF Stop
<1>2. TypeOK'
  BY <1>1 DEF Inv, TypeOK
<1>3. RoomNoted'
  BY <1>1 DEF Inv, RoomNoted, CellsAt
<1>4. Shape'
  BY <1>1 DEF Inv, Shape, Unshared, Used, BlockForBranches, Active, Links, OneParent,
              Frames, Chain, FromRoot, Kept, Waiting, Branch, CellsAt
<1> QED
  BY <1>2, <1>3, <1>4 DEF Inv

\* A new node has no branches and is nobody's branch.
LEMMA CreateKeeps ==
  ASSUME Inv, Create
  PROVE  Inv'
<1>1. calls = <<>> /\ status = "run"
  BY DEF Create, Idle
<1>2. CASE Stop("memory")
  BY <1>2, StopKeeps
<1>3. ASSUME NEW n \in Nodes \ DOMAIN node,
             node' = [m \in DOMAIN node \union {n} |->
                        IF m = n THEN [num |-> 0, alo |-> 0, ptr |-> None] ELSE node[m]],
             UNCHANGED <<block, calls, status>>
      PROVE  Inv'
  <2>1. /\ DOMAIN node' = DOMAIN node \union {n} /\ block' = block /\ calls' = calls
        /\ \A m \in DOMAIN node : m # n /\ node'[m] = node[m]
        /\ node'[n] = [num |-> 0, alo |-> 0, ptr |-> None]
    BY <1>3
  <2>2. TypeOK'
    <3>1. node' \in [DOMAIN node' -> [num : Nat, alo : Nat, ptr : Blocks \union {None}]]
      BY <1>3, <2>1 DEF Inv, TypeOK
    <3> QED
      BY <1>1, <1>3, <2>1, <3>1 DEF Inv, TypeOK
  <2>3. RoomNoted'
    BY <2>1 DEF Inv, RoomNoted, CellsAt
  <2>4. \A m \in DOMAIN node' : Waiting(m)' = FALSE /\ Kept(m)' = node'[m].num
    BY <1>1, <2>1, <2>2 DEF Waiting, Kept, TypeOK
  <2>5. ASSUME NEW m \in DOMAIN node
        PROVE  Kept(m)' = Kept(m) /\ \A i \in Int : Branch(m, i)' = Branch(m, i)
    <3>1. Kept(m)' = Kept(m)
      BY <1>1, <2>1, <2>4, KeptIdle DEF Inv
    <3>2. CellsAt(node[m].ptr)' = CellsAt(node[m].ptr)
      BY <2>1 DEF CellsAt
    <3> QED
      BY <3>1, <3>2 DEF Branch
  <2>6. Unshared' /\ Used' /\ BlockForBranches'
    BY <1>1, <2>1 DEF Inv, Shape, Unshared, Used, BlockForBranches, Active
  <2>7. Kept(n)' = 0 /\ 1 .. 0 = {}
    BY <2>1, <2>4
  <2>8. Links'
    <3>1. \A m \in DOMAIN node : CellsAt(node[m].ptr)' = CellsAt(node[m].ptr)
      BY <2>1 DEF CellsAt
    <3>2. Len(CellsAt(node[n].ptr)') \in Nat
      BY <2>1 DEF CellsAt
    <3> QED
      BY <2>1, <2>5, <2>7, <3>1, <3>2 DEF Inv, Shape, Links
  <2>9. OneParent'
    BY <2>1, <2>5, <2>7 DEF Inv, Shape, OneParent
  <2> QED
    BY <1>1, <2>1, <2>2, <2>3, <2>6, <2>8, <2>9, NoCalls DEF Inv, Shape
<1> QED
  BY <1>2, <1>3 DEF Create

\* The block of a node that gets a branch.
LEMMA OwnedBlock ==
  ASSUME Inv, NEW a \in DOMAIN node, node[a].ptr # None \/ Unused # {}
  PROVE  /\ Owned(node[a].ptr) \in Blocks /\ Owned(node[a].ptr) # None
         /\ node[a].ptr # None => Owned(node[a].ptr) = node[a].ptr
         /\ \A m \in DOMAIN node : m # a => node[m].ptr # Owned(node[a].ptr)
<1>1. node[a].ptr \in Blocks \union {None} /\ None \notin Blocks
  BY SizeAssumption, NodeType DEF Inv, TypeOK
<1>2. CASE node[a].ptr # None
  BY <1>1, <1>2 DEF Owned, Inv, Shape, Unshared
<1>3. CASE node[a].ptr = None
  <2>1. Owned(node[a].ptr) \in Unused
    BY <1>3 DEF Owned
  <2> QED
    BY <1>1, <1>3, <2>1 DEF Unused, Inv, RoomNoted
<1> QED
  BY <1>2, <1>3

\* The branch comes behind the others, which the block keeps.
LEMMA StoreKeeps ==
  ASSUME Inv, calls = <<>>, NEW a \in DOMAIN node, NEW b \in DOMAIN node, IsRoot(b),
         NEW num \in Nat, num = node[a].num,
         NEW room \in Nat, NEW cells \in Seq(Nodes \union {None}), Len(cells) = room,
         \A i \in 1 .. num : i <= room => cells[i] = Branch(a, i),
         Store(a, b, cells, room)
  PROVE  /\ Inv'
         /\ num < room =>
              /\ DOMAIN node' = DOMAIN node /\ calls' = <<>> /\ status' = status
              /\ \A m \in DOMAIN node :
                   /\ Kept(m)' = IF m = a THEN num + 1 ELSE Kept(m)
                   /\ \A i \in 1 .. Kept(m) : Branch(m, i)' = Branch(m, i)
              /\ Branch(a, num + 1)' = b
<1> DEFINE p == Owned(node[a].ptr)
<1>1. CASE num >= Len(cells)
  BY <1>1, StopKeeps DEF Store
<1>2. CASE ~(num >= Len(cells))
  <2>1. /\ node' = [node EXCEPT ![a] = [num |-> num + 1, alo |-> room, ptr |-> p]]
        /\ block' = [q \in DOMAIN block \union {p} |->
                       IF q = p THEN [cells EXCEPT ![num + 1] = b] ELSE block[q]]
        /\ node[a].ptr # None \/ Unused # {}
        /\ UNCHANGED <<calls, status>>
    BY <1>2 DEF Store
  <2>2. /\ p \in Blocks /\ p # None /\ (node[a].ptr # None => p = node[a].ptr)
        /\ \A m \in DOMAIN node : m # a => node[m].ptr # p
    BY <2>1, OwnedBlock
  <2> DEFINE new == [cells EXCEPT ![num + 1] = b]
  <2>3. /\ new \in Seq(Nodes \union {None}) /\ Len(new) = room /\ num + 1 <= room
        /\ new[num + 1] = b /\ \A i \in 1 .. num : new[i] = Branch(a, i)
    BY <1>2, NodeType DEF Inv
  <2> HIDE DEF p, new
  <2>4. /\ DOMAIN node' = DOMAIN node /\ calls' = <<>> /\ status' = status
        /\ node'[a] = [num |-> num + 1, alo |-> room, ptr |-> p]
        /\ \A m \in DOMAIN node : m # a => node'[m] = node[m]
        /\ DOMAIN block' = DOMAIN block \union {p} /\ block'[p] = new
        /\ \A q \in DOMAIN block : q # p => block'[q] = block[q]
    BY <2>1 DEF Inv, TypeOK, new
  <2>5. /\ CellsAt(node[a].ptr)' = new
        /\ \A m \in DOMAIN node : m # a => CellsAt(node[m].ptr)' = CellsAt(node[m].ptr)
    BY <2>2, <2>4, NodeType DEF CellsAt, Inv
  <2>6. TypeOK'
    <3>1. node' \in [DOMAIN node' -> [num : Nat, alo : Nat, ptr : Blocks \union {None}]]
      BY <2>1, <2>2, <2>4 DEF Inv, TypeOK
    <3>2. block' \in [DOMAIN block' -> Seq(Nodes \union {None})]
      BY <2>1, <2>3, <2>4 DEF Inv, TypeOK
    <3>3. DOMAIN node' \subseteq Nodes /\ DOMAIN block' \subseteq Blocks
      BY <2>2, <2>4 DEF Inv, TypeOK
    <3>4. /\ calls' \in Seq([node : Nodes, num : Nat, some : BOOLEAN]) /\ Len(calls') <= Depth
          /\ \A k \in DOMAIN calls' : calls'[k].node \in DOMAIN node'
          /\ status' \in {"run", "memory", "rstkovf", "fault"}
      BY <2>1, <2>4 DEF Inv, TypeOK
    <3> QED
      BY <3>1, <3>2, <3>3, <3>4 DEF TypeOK
  <2>7. RoomNoted'
    <3>1. ASSUME NEW m \in DOMAIN node, m # a
          PROVE  /\ node'[m].ptr \in DOMAIN block' \union {None} /\ node'[m].num <= node'[m].alo
                 /\ node'[m].alo = Len(CellsAt(node[m].ptr)')
      <4>1. node'[m] = node[m] /\ CellsAt(node[m].ptr)' = CellsAt(node[m].ptr)
        BY <2>4, <2>5, <3>1
      <4> QED
        BY <2>4, <4>1, NodeType DEF Inv
    <3>2. /\ node'[a].ptr \in DOMAIN block' \union {None} /\ node'[a].num <= node'[a].alo
          /\ node'[a].alo = Len(CellsAt(node[a].ptr)')
      BY <2>3, <2>4, <2>5
    <3> QED
      BY <2>4, <3>1, <3>2 DEF RoomNoted
  <2>8. Unshared' /\ Used' /\ BlockForBranches'
    <3>1. Unshared'
      BY <2>2, <2>4 DEF Inv, Shape, Unshared
    <3>2. Used'
      <4>1. node'[a].ptr = p
        BY <2>4
      <4>2. ASSUME NEW q \in DOMAIN block, q # p
            PROVE  \E m \in DOMAIN node : node'[m].ptr = q
        <5>1. PICK m \in DOMAIN node : node[m].ptr = q
          BY DEF Inv, Shape, Used
        <5>2. m # a
          BY <2>1, <2>2, <4>2, <5>1, SizeAssumption DEF Inv, TypeOK
        <5> QED
          BY <2>4, <5>1, <5>2
      <4> QED
        BY <2>4, <4>1, <4>2 DEF Used
    <3>3. BlockForBranches'
      BY <2>2, <2>4 DEF Inv, Shape, BlockForBranches, Active
    <3> QED
      BY <3>1, <3>2, <3>3
  <2>9. \A m \in DOMAIN node :
          /\ Kept(m) = node[m].num /\ Kept(m)' = IF m = a THEN num + 1 ELSE node[m].num
          /\ \A i \in 1 .. node[m].num : Branch(m, i)' = Branch(m, i)
    <3>1. \A m \in DOMAIN node : Kept(m) = node[m].num
      BY KeptIdle DEF Inv
    <3>2. \A m \in DOMAIN node : Kept(m)' = node'[m].num
      BY <2>4, <2>6 DEF Kept, Waiting, TypeOK
    <3>3. \A m \in DOMAIN node : \A i \in 1 .. node[m].num : Branch(m, i)' = Branch(m, i)
      <4>1. ASSUME NEW i \in 1 .. num
            PROVE  Branch(a, i)' = Branch(a, i)
        BY <2>3, <2>5 DEF Branch
      <4>2. ASSUME NEW m \in DOMAIN node, m # a, NEW i \in 1 .. node[m].num
            PROVE  Branch(m, i)' = Branch(m, i)
        BY <2>5, <4>2 DEF Branch
      <4> QED
        BY <4>1, <4>2
    <3> QED
      BY <2>4, <3>1, <3>2, <3>3
  <2>10. Branch(a, num + 1)' = b /\ \A m \in DOMAIN node : \A i \in 1 .. node[m].num : Branch(m, i) # b
    <3>1. Branch(a, num + 1)' = b
      BY <2>3, <2>5 DEF Branch
    <3>2. ASSUME NEW m \in DOMAIN node, NEW i \in 1 .. node[m].num
          PROVE  Branch(m, i) # b
      BY RootsBranches DEF IsRoot, Inv
    <3> QED
      BY <3>1, <3>2
  <2>11. Links'
    <3>1. ASSUME NEW m \in DOMAIN node, m # a
          PROVE  Kept(m)' <= Len(CellsAt(node[m].ptr)') /\ \A i \in 1 .. Kept(m)' : Branch(m, i)' \in DOMAIN node
      BY <2>5, <2>9, <3>1, NodeType DEF Inv, Shape, Links
    <3>2. Kept(a)' <= Len(CellsAt(node[a].ptr)') /\ \A i \in 1 .. Kept(a)' : Branch(a, i)' \in DOMAIN node
      <4>1. Kept(a) = num /\ \A i \in 1 .. num : Branch(a, i) \in DOMAIN node
        BY <2>9 DEF Inv, Shape, Links
      <4>2. Kept(a)' = num + 1 /\ Len(CellsAt(node[a].ptr)') = room
        BY <2>3, <2>5, <2>9
      <4>3. \A i \in 1 .. num + 1 : i \in 1 .. num \/ i = num + 1
        OBVIOUS
      <4> QED
        BY <2>3, <2>9, <2>10, <4>1, <4>2, <4>3
    <3> QED
      BY <2>4, <3>1, <3>2 DEF Links
  <2>12. OneParent'
    <3>1. ASSUME NEW m \in DOMAIN node, NEW i \in 1 .. Kept(m)', ~(m = a /\ i = num + 1)
          PROVE  i \in 1 .. Kept(m) /\ Branch(m, i)' = Branch(m, i) /\ Branch(m, i) # b
      BY <2>9, <2>10, <3>1
    <3>2. ASSUME NEW m \in DOMAIN node, NEW n \in DOMAIN node,
                 NEW i \in 1 .. Kept(m)', NEW j \in 1 .. Kept(n)',
                 Branch(m, i)' = Branch(n, j)'
          PROVE  m = n /\ i = j
      <4>1. CASE m = a /\ i = num + 1
        BY <2>10, <3>1, <3>2, <4>1
      <4>2. CASE n = a /\ j = num + 1
        BY <2>10, <3>1, <3>2, <4>2
      <4>3. CASE ~(m = a /\ i = num + 1) /\ ~(n = a /\ j = num + 1)
        BY <3>1, <3>2, <4>3 DEF Inv, Shape, OneParent
      <4> QED
        BY <4>1, <4>2, <4>3
    <3> QED
      BY <2>4, <3>2 DEF OneParent
  <2>13. Inv'
    BY <2>4, <2>6, <2>7, <2>8, <2>11, <2>12, NoCalls DEF Inv, Shape
  <2> QED
    BY <2>4, <2>9, <2>10, <2>13
<1> QED
  BY <1>1, <1>2

\* YU-ASTN-ADDBR stores the branch behind those of the block, which stays or gets another
\* size; where the two nodes have the same room it fits.
LEMMA AddBrCases ==
  ASSUME Inv, NEW a \in Nodes, NEW b \in Nodes, AddBr(a, b)
  PROVE  /\ calls = <<>> /\ status = "run" /\ a \in DOMAIN node /\ b \in DOMAIN node
         /\ IsRoot(b) /\ a \notin Below(b) /\ node[a].num \in Nat
         /\ \/ Stop("memory")
            \/ \E room \in Nat, cells \in Seq(Nodes \union {None}) :
                 /\ Len(cells) = room
                 /\ \A i \in 1 .. node[a].num : i <= room => cells[i] = Branch(a, i)
                 /\ node[a].alo = node[b].alo => node[a].num < room
                 /\ Store(a, b, cells, room)
<1> DEFINE num == node[a].num
           alloc == node[b].alo
           room == IF alloc = 0 THEN FirstRoom ELSE 2 * alloc
           old == CellsAt(node[a].ptr)
<1>1. /\ calls = <<>> /\ status = "run" /\ a \in DOMAIN node /\ b \in DOMAIN node
      /\ IsRoot(b) /\ a \notin Below(b)
      /\ IF num >= alloc
         THEN Stop("memory") \/ Store(a, b, Resized(old, room), room)
         ELSE Store(a, b, old, node[a].alo)
  BY DEF AddBr, Idle, MayAdd, IsRoot
<1>2. /\ num \in Nat /\ alloc \in Nat /\ room \in Nat /\ node[a].alo \in Nat
      /\ old \in Seq(Nodes \union {None}) /\ node[a].alo = Len(old) /\ num <= Len(old)
  BY <1>1, NodeType, SizeAssumption DEF Inv
<1>3. \A i \in 1 .. num : old[i] = Branch(a, i)
  BY DEF Branch
<1>4. node[a].alo = alloc => num < room
  BY <1>2, SizeAssumption
<1> HIDE DEF room
<1>5. CASE Store(a, b, Resized(old, room), room)
  <2>1. /\ Resized(old, room) \in Seq(Nodes \union {None}) /\ Len(Resized(old, room)) = room
        /\ \A i \in 1 .. num : i <= room => Resized(old, room)[i] = old[i]
    BY <1>2 DEF Resized, Junk
  <2>2. \A i \in 1 .. num : i <= room => Resized(old, room)[i] = Branch(a, i)
    BY <1>3, <2>1
  <2> QED
    BY <1>1, <1>2, <1>4, <1>5, <2>1, <2>2
<1>6. CASE ~(num >= alloc) /\ Store(a, b, old, node[a].alo)
  <2>1. node[a].alo = alloc => num < node[a].alo
    BY <1>2, <1>6
  <2> QED
    BY <1>1, <1>2, <1>3, <1>6, <2>1
<1> QED
  BY <1>1, <1>2, <1>5, <1>6

\* The block is large enough for the branch, or grows and keeps the branches, or the
\* machine stops.
LEMMA AddBrKeeps ==
  ASSUME Inv, NEW a \in Nodes, NEW b \in Nodes, AddBr(a, b)
  PROVE  Inv'
<1>1. CASE Stop("memory")
  BY <1>1, StopKeeps
<1>2. ASSUME NEW room \in Nat, NEW cells \in Seq(Nodes \union {None}), Len(cells) = room,
             \A i \in 1 .. node[a].num : i <= room => cells[i] = Branch(a, i),
             Store(a, b, cells, room)
      PROVE  Inv'
  BY <1>2, AddBrCases, StoreKeeps
<1> QED
  BY <1>1, <1>2, AddBrCases

\* A node without branches has no block and the reverse, when it is not being deleted.
LEMMA SomeBranches ==
  ASSUME Inv, NEW n \in DOMAIN node, ~Active(n)
  PROVE  (node[n].num > 0) = (node[n].ptr # None)
<1>1. node[n].num \in Nat /\ (node[n].num = 0 => node[n].ptr = None)
  BY NodeType DEF Inv, Shape, BlockForBranches
<1>2. node[n].ptr = None => node[n].num = 0
  BY NodeType, <1>1 DEF CellsAt, Inv
<1> QED
  BY <1>1, <1>2

\* The first call is for a root.
LEMMA DeleteKeeps ==
  ASSUME Inv, Delete
  PROVE  Inv'
<1>1. PICK n \in DOMAIN node : IsRoot(n) /\ calls' = <<Call(n)>>
  BY DEF Delete
<1>2. calls = <<>> /\ node' = node /\ block' = block /\ status' = status
  BY DEF Delete, Idle
<1>3. /\ Len(calls') = 1 /\ DOMAIN calls' = {1} /\ calls'[1] = Call(n)
      /\ Call(n).node = n /\ Call(n).num = node[n].num /\ Call(n).some = (node[n].num > 0)
      /\ Call(n) \in [node : Nodes, num : Nat, some : BOOLEAN]
  BY <1>1, NodeType DEF Call, Inv
<1>4. TypeOK'
  BY <1>1, <1>2, <1>3, SizeAssumption DEF Inv, TypeOK
<1>5. /\ \A m \in DOMAIN node : Kept(m)' = Kept(m) /\ ~Active(m)
      /\ \A m, i : Branch(m, i)' = Branch(m, i)
      /\ \A m : CellsAt(node[m].ptr)' = CellsAt(node[m].ptr)
  <2>1. \A m \in DOMAIN node : ~Waiting(m)' /\ ~Waiting(m) /\ ~Active(m)
    BY <1>2, <1>3, KeptIdle DEF Waiting, Inv
  <2> QED
    BY <1>2, <2>1 DEF Kept, Branch, CellsAt
<1>6. RoomNoted'
  BY <1>2, <1>5 DEF Inv, RoomNoted
<1>7. Unshared' /\ Used' /\ BlockForBranches' /\ Links' /\ OneParent'
  <2>1. Unshared' /\ Used' /\ BlockForBranches'
    BY <1>2, <1>5 DEF Inv, Shape, Unshared, Used, BlockForBranches
  <2>2. Links' /\ OneParent'
    BY <1>2, <1>5 DEF Inv, Shape, Links, OneParent
  <2> QED
    BY <2>1, <2>2
<1>8. Frames'
  BY <1>2, <1>3, <1>5, SomeBranches DEF Frames
<1>9. Chain'
  BY <1>3 DEF Chain
<1>10. FromRoot'
  <2>1. \A m \in DOMAIN node : \A i \in 1 .. node[m].num : Branch(m, i) # n
    BY <1>1, RootsBranches DEF IsRoot, Inv
  <2>2. \A m \in DOMAIN node : Kept(m)' = node[m].num
    BY <1>2, <1>5, KeptIdle DEF Inv
  <2>3. Last(calls').node = n
    BY <1>3 DEF Last
  <2> QED
    BY <1>2, <1>5, <2>1, <2>2, <2>3 DEF FromRoot
<1> QED
  BY <1>4, <1>6, <1>7, <1>8, <1>9, <1>10 DEF Inv, Shape

\* What the calls say of the nodes: every node that is being deleted has its call, the
\* callers wait for a branch, and the branch that comes next is not being deleted yet.
LEMMA CallFacts ==
  ASSUME Inv, calls # <<>>
  PROVE  /\ Len(calls) \in Nat \ {0} /\ DOMAIN calls = 1 .. Len(calls)
         /\ \A k \in 1 .. Len(calls) :
              /\ calls[k] \in [node : Nodes, num : Nat, some : BOOLEAN]
              /\ calls[k].node \in DOMAIN node
         /\ \A k \in 2 .. Len(calls) :
              /\ Waiting(calls[k].node) /\ Kept(calls[k].node) = calls[k].num + 1
              /\ Branch(calls[k].node, calls[k].num + 1) = calls[k - 1].node
         /\ ~Waiting(calls[1].node) /\ Kept(calls[1].node) = calls[1].num
<1>1. /\ Len(calls) \in Nat \ {0} /\ DOMAIN calls = 1 .. Len(calls)
      /\ \A k \in 1 .. Len(calls) :
           /\ calls[k] \in [node : Nodes, num : Nat, some : BOOLEAN]
           /\ calls[k].node \in DOMAIN node
  <2>1. /\ calls \in Seq([node : Nodes, num : Nat, some : BOOLEAN])
        /\ \A k \in DOMAIN calls : calls[k].node \in DOMAIN node
    BY DEF Inv, TypeOK
  <2>2. Len(calls) \in Nat \ {0} /\ DOMAIN calls = 1 .. Len(calls)
    BY <2>1
  <2> DEFINE CallSet == [node : Nodes, num : Nat, some : BOOLEAN]
  <2>3. \A k \in 1 .. Len(calls) : calls[k] \in CallSet
    <3> HIDE DEF CallSet
    <3>1. calls \in Seq(CallSet)
      BY <2>1 DEF CallSet
    <3> QED
      BY <3>1
  <2> QED
    BY <2>1, <2>2, <2>3
<1>2. \A k \in 1 .. Len(calls) :
        /\ calls[k].num = node[calls[k].node].num
        /\ \A j \in 1 .. Len(calls) : calls[j].node = calls[k].node => j = k
  BY <1>1 DEF Inv, Shape, Frames
<1>3. \A k \in 2 .. Len(calls) : Waiting(calls[k].node)
  BY DEF Waiting
<1>4. ~Waiting(calls[1].node)
  <2>1. \A k \in 2 .. Len(calls) : calls[k].node # calls[1].node
    BY <1>1, <1>2
  <2> QED
    BY <2>1 DEF Waiting
<1>5. \A k \in 2 .. Len(calls) : Branch(calls[k].node, calls[k].num + 1) = calls[k - 1].node
  BY <1>1 DEF Inv, Shape, Chain
<1>6. \A k \in 2 .. Len(calls) : Kept(calls[k].node) = calls[k].num + 1
  BY <1>1, <1>2, <1>3 DEF Kept
<1>7. Kept(calls[1].node) = calls[1].num
  <2>1. 1 \in 1 .. Len(calls) /\ calls[1].num \in Nat
    BY <1>1
  <2> QED
    BY <1>2, <1>4, <2>1 DEF Kept
<1> QED
  BY <1>1, <1>3, <1>4, <1>5, <1>6, <1>7

\* The branch of the innermost node that comes next is a node, and no call is for it.
LEMMA NextBranch ==
  ASSUME Inv, calls # <<>>, Top.num > 0
  PROVE  Branch(Top.node, Top.num) \in DOMAIN node /\ ~Active(Branch(Top.node, Top.num))
<1> DEFINE t == calls[1].node
           child == Branch(t, calls[1].num)
<1>1. Top = calls[1] /\ calls[1].num \in Nat \ {0} /\ t \in DOMAIN node
  BY CallFacts DEF Top
<1>2. Kept(t) = calls[1].num
  BY CallFacts
<1>3. child \in DOMAIN node
  BY <1>1, <1>2 DEF Inv, Shape, Links
<1>4. ASSUME NEW k \in 1 .. Len(calls), calls[k].node = child
      PROVE  FALSE
  <2>1. CASE k = Len(calls)
    <3>1. Last(calls).node = child
      BY <1>4, <2>1 DEF Last
    <3> QED
      BY <1>1, <1>2, <3>1 DEF Inv, Shape, FromRoot
  <2>2. CASE k # Len(calls)
    <3>1. k + 1 \in 2 .. Len(calls) /\ (k + 1) - 1 = k
      <4>1. Len(calls) \in Nat
        BY CallFacts
      <4> QED
        BY <1>4, <2>2, <4>1
    <3>2. /\ calls[k + 1].node \in DOMAIN node /\ calls[k + 1].num \in Nat
          /\ Kept(calls[k + 1].node) = calls[k + 1].num + 1
          /\ Branch(calls[k + 1].node, calls[k + 1].num + 1) = child
      BY <1>4, <3>1, CallFacts
    <3>3. calls[k + 1].node = t
      BY <1>1, <1>2, <3>2 DEF Inv, Shape, OneParent
    <3> QED
      BY <3>1, <3>3, CallFacts
  <2> QED
    BY <2>1, <2>2
<1> QED
  BY <1>1, <1>3, <1>4, CallFacts DEF Active

\* The calls after a branch has been called for.
LEMMA CallMade ==
  ASSUME Inv, calls # <<>>, NEW c, NEW top \in [node : Nodes, num : Nat, some : BOOLEAN],
         calls' = <<c, top>> \o Tail(calls)
  PROVE  /\ Len(calls') = Len(calls) + 1 /\ DOMAIN calls' = 1 .. Len(calls) + 1
         /\ calls'[1] = c /\ calls'[2] = top
         /\ \A k \in 2 .. Len(calls) : calls'[k + 1] = calls[k]
<1>1. /\ Tail(calls) \in Seq([node : Nodes, num : Nat, some : BOOLEAN]) /\ Len(Tail(calls)) = Len(calls) - 1
      /\ \A k \in 1 .. Len(calls) - 1 : Tail(calls)[k] = calls[k + 1]
      /\ Len(calls) \in Nat
  BY DEF Inv, TypeOK
<1>2. /\ Len(calls') = 2 + Len(Tail(calls)) /\ calls'[1] = c /\ calls'[2] = top
      /\ \A k \in 3 .. 2 + Len(Tail(calls)) : calls'[k] = Tail(calls)[k - 2]
      /\ DOMAIN calls' = 1 .. Len(calls')
  BY <1>1
<1>3. ASSUME NEW k \in 2 .. Len(calls)
      PROVE  calls'[k + 1] = calls[k]
  <2>1. k + 1 \in 3 .. 2 + Len(Tail(calls)) /\ (k + 1) - 2 = k - 1 /\ k - 1 \in 1 .. Len(calls) - 1
    BY <1>1
  <2>2. calls'[k + 1] = Tail(calls)[k - 1] /\ Tail(calls)[k - 1] = calls[(k - 1) + 1]
    BY <1>1, <1>2, <2>1
  <2> QED
    BY <1>1, <2>2
<1> QED
  BY <1>1, <1>2, <1>3

\* A call for branch `child` of t, which is the last of the num + 1 that are left.
Called(t, num, child) ==
  /\ calls # <<>> /\ Top = calls[1] /\ t = calls[1].node /\ num + 1 = calls[1].num
  /\ child = Branch(t, num + 1) /\ Len(calls) < Depth /\ node' = [node EXCEPT ![t].num = num]
  /\ calls' = <<Call(child), [Top EXCEPT !.num = num]>> \o Tail(calls)
  /\ UNCHANGED <<block, status>>

\* No branch of a tree that is deleted is gone already.
LEMMA DeleteBranchCases ==
  ASSUME Inv, DeleteBranch
  PROVE  \/ Stop("rstkovf")
         \/ \E t \in DOMAIN node, num \in Nat, child \in DOMAIN node : Called(t, num, child)
<1>0. calls # <<>> /\ Top.num > 0
  BY ZenonT(20) DEF DeleteBranch
<1>1. PICK t \in DOMAIN node, num \in Nat, child \in DOMAIN node :
        /\ t = Top.node /\ num = Top.num - 1 /\ child = CellsAt(node[Top.node].ptr)[(Top.num - 1) + 1]
        /\ num + 1 = Top.num /\ child = Branch(t, num + 1) /\ Top = calls[1]
  <2>1. Top = calls[1] /\ Len(calls) \in Nat \ {0}
    BY <1>0, CallFacts DEF Top
  <2>2. Top.num \in Nat /\ Top.node \in DOMAIN node
    BY <1>0, <2>1, CallFacts
  <2>3. Branch(Top.node, Top.num) \in DOMAIN node
    BY <1>0, NextBranch
  <2>4. Top.num - 1 \in Nat /\ (Top.num - 1) + 1 = Top.num
    BY <1>0, <2>2
  <2> QED
    BY <2>1, <2>2, <2>3, <2>4 DEF Branch
<1>2. LET n == Top.num - 1
          c == CellsAt(node[Top.node].ptr)[n + 1]
      IN  IF c \notin DOMAIN node THEN Stop("fault")
          ELSE IF Len(calls) >= Depth THEN Stop("rstkovf")
          ELSE /\ node' = [node EXCEPT ![Top.node].num = n]
               /\ calls' = <<Call(c), [Top EXCEPT !.num = n]>> \o Tail(calls)
               /\ UNCHANGED <<block, status>>
  BY ZenonT(20) DEF DeleteBranch
<1>3. \/ Stop("rstkovf")
      \/ /\ ~(Len(calls) >= Depth) /\ node' = [node EXCEPT ![t].num = num]
         /\ calls' = <<Call(child), [Top EXCEPT !.num = num]>> \o Tail(calls)
         /\ UNCHANGED <<block, status>>
  BY <1>1, <1>2, ZenonT(30)
<1>4. Len(calls) \in Nat /\ Depth \in Nat
  BY <1>0, CallFacts, SizeAssumption
<1>5. ~(Len(calls) >= Depth) => Len(calls) < Depth
  BY <1>4
<1>6. t = calls[1].node /\ num + 1 = calls[1].num /\ child = Branch(t, num + 1) /\ Top = calls[1]
  BY <1>1
<1> QED
  BY <1>0, <1>3, <1>5, <1>6, ZenonT(20) DEF Called


\* The call for a branch: the branch stays with its node while its node waits.
LEMMA CalledKeeps ==
  ASSUME Inv, NEW t \in DOMAIN node, NEW num \in Nat, NEW child \in DOMAIN node,
         Called(t, num, child)
  PROVE  /\ Inv' /\ DOMAIN node' = DOMAIN node /\ status' = status
         /\ \A m \in DOMAIN node : Kept(m)' = Kept(m) /\ CellsAt(node[m].ptr)' = CellsAt(node[m].ptr)
         /\ DOMAIN calls' = 1 .. Len(calls) + 1 /\ Last(calls').node = Last(calls).node
         /\ calls'[1].node = child
         /\ \A k \in 2 .. Len(calls) + 1 : k - 1 \in 1 .. Len(calls) /\ calls'[k].node = calls[k - 1].node
<1>0. /\ calls # <<>> /\ Top = calls[1] /\ t = calls[1].node /\ num + 1 = calls[1].num
      /\ child = Branch(t, num + 1) /\ Len(calls) < Depth /\ UNCHANGED <<block, status>>
  BY ZenonT(20) DEF Called
<1> DEFINE top == [Top EXCEPT !.num = num]
<1>1. /\ calls # <<>> /\ block' = block /\ status' = status
      /\ calls[1] \in [node : Nodes, num : Nat, some : BOOLEAN] /\ Len(calls) \in Nat \ {0}
  BY <1>0, CallFacts
<1>2. /\ top \in [node : Nodes, num : Nat, some : BOOLEAN]
      /\ top.node = t /\ top.num = num /\ top.some = calls[1].some
  BY <1>0, <1>1
<1>3. calls' = <<Call(child), top>> \o Tail(calls)
  BY DEF Called
<1> HIDE DEF top
<1>4. /\ Len(calls') = Len(calls) + 1 /\ DOMAIN calls' = 1 .. Len(calls) + 1
      /\ calls'[1] = Call(child) /\ calls'[2] = top
      /\ \A k \in 2 .. Len(calls) : calls'[k + 1] = calls[k]
  BY <1>1, <1>2, <1>3, CallMade
<1>5. child # t /\ ~Active(child) /\ ~Waiting(t) /\ Kept(t) = num + 1
  <2>1. ~Active(child) /\ ~Waiting(t) /\ Kept(t) = num + 1
    BY <1>0, <1>1, NextBranch, CallFacts
  <2>2. Active(t)
    BY <1>0, <1>1 DEF Active, Inv, TypeOK
  <2> QED
    BY <2>1, <2>2
<1>6. /\ DOMAIN node' = DOMAIN node /\ node'[t].num = num /\ node'[t].alo = node[t].alo
      /\ node'[t].ptr = node[t].ptr /\ \A m \in DOMAIN node : m # t => node'[m] = node[m]
  <2>1. node' = [node EXCEPT ![t].num = num]
    BY DEF Called
  <2>2. node \in [DOMAIN node -> [num : Nat, alo : Nat, ptr : Blocks \union {None}]]
    BY DEF Inv, TypeOK
  <2> QED
    BY <2>1, <2>2
<1>7. /\ \A k \in 1 .. Len(calls) : calls'[k + 1].node = calls[k].node
      /\ \A k \in 2 .. Len(calls) + 1 : k - 1 \in 1 .. Len(calls) /\ calls'[k].node = calls[k - 1].node
      /\ calls'[1].node = child
  <2>1. calls'[1].node = child /\ calls'[2].node = calls[1].node
    BY <1>0, <1>2, <1>4 DEF Call
  <2>2. ASSUME NEW k \in 1 .. Len(calls)
        PROVE  calls'[k + 1].node = calls[k].node
    <3>1. k = 1 \/ k \in 2 .. Len(calls)
      BY <1>1
    <3> QED
      BY <1>4, <2>1, <3>1
  <2>3. ASSUME NEW k \in 2 .. Len(calls) + 1
        PROVE  k - 1 \in 1 .. Len(calls) /\ calls'[k].node = calls[k - 1].node
    <3>1. k - 1 \in 1 .. Len(calls) /\ (k - 1) + 1 = k
      BY <1>1
    <3> QED
      BY <2>2, <3>1
  <2> QED
    BY <2>1, <2>2, <2>3
<1>8. \A m : /\ Waiting(m)' <=> Active(m)
             /\ Active(m)' <=> Active(m) \/ m = child
  <2>1. DOMAIN calls = 1 .. Len(calls) /\ Len(calls') = Len(calls) + 1
    BY <1>1, <1>4, CallFacts
  <2>2. ASSUME NEW m
        PROVE  Waiting(m)' <=> Active(m)
    <3>1. ASSUME NEW k \in 2 .. Len(calls'), calls'[k].node = m
          PROVE  Active(m)
      BY <1>1, <1>7, <2>1, <3>1 DEF Active
    <3>2. ASSUME NEW k \in DOMAIN calls, calls[k].node = m
          PROVE  \E j \in 2 .. Len(calls') : calls'[j].node = m
      <4>1. k + 1 \in 2 .. Len(calls')
        BY <1>1, <2>1, <3>2
      <4> QED
        BY <1>7, <2>1, <3>2, <4>1
    <3> QED
      BY <3>1, <3>2 DEF Waiting, Active
  <2>3. \A m : Active(m)' <=> Waiting(m)' \/ m = child
    <3>1. DOMAIN calls' = {1} \union 2 .. Len(calls')
      BY <1>1, <1>4, <2>1
    <3> QED
      BY <1>7, <3>1 DEF Active, Waiting
  <2> QED
    BY <2>2, <2>3
<1>9. \A m \in DOMAIN node : m # t => (Active(m) <=> Waiting(m))
  <2>1. DOMAIN calls = {1} \union 2 .. Len(calls)
    BY <1>1, CallFacts
  <2> QED
    BY <1>0, <2>1 DEF Active, Waiting
<1>10. \A m \in DOMAIN node : Kept(m)' = Kept(m)
  <2>1. Active(t)
    BY <1>0, <1>1, CallFacts DEF Active
  <2>2. Kept(t)' = num + 1
    BY <1>6, <1>8, <2>1 DEF Kept
  <2>3. ASSUME NEW m \in DOMAIN node, m # t
        PROVE  Kept(m)' = Kept(m)
    BY <1>6, <1>8, <1>9, <2>3 DEF Kept
  <2> QED
    BY <1>5, <2>2, <2>3
<1>11. \A m \in DOMAIN node : /\ node'[m].ptr = node[m].ptr /\ node'[m].alo = node[m].alo
                              /\ CellsAt(node[m].ptr)' = CellsAt(node[m].ptr)
                              /\ \A i : Branch(m, i)' = Branch(m, i)
  <2>1. \A m \in DOMAIN node : node'[m].ptr = node[m].ptr /\ node'[m].alo = node[m].alo
    BY <1>6
  <2> QED
    BY <1>1, <2>1 DEF CellsAt, Branch
<1>12. TypeOK'
  <2> DEFINE CallSet == [node : Nodes, num : Nat, some : BOOLEAN]
  <2>1. calls' \in Seq(CallSet)
    <3>1. Call(child) \in CallSet
      BY NodeType DEF Call, Inv
    <3>2. calls \in Seq(CallSet) /\ top \in CallSet
      BY <1>2 DEF Inv, TypeOK
    <3> HIDE DEF CallSet
    <3>3. <<Call(child), top>> \in Seq(CallSet) /\ Tail(calls) \in Seq(CallSet)
      BY <1>1, <3>1, <3>2
    <3> QED
      BY <1>3, <3>3
  <2>2. Len(calls') <= Depth
    BY <1>0, <1>1, <1>4, SizeAssumption
  <2>3. \A k \in DOMAIN calls' : calls'[k].node \in DOMAIN node'
    <3>1. DOMAIN calls' = {1} \union 2 .. Len(calls) + 1
      BY <1>1, <1>4
    <3>2. \A k \in 2 .. Len(calls) + 1 : calls'[k].node \in DOMAIN node
      BY <1>1, <1>7, CallFacts
    <3> QED
      BY <1>6, <1>7, <3>1, <3>2
  <2>4. /\ DOMAIN node' \subseteq Nodes /\ DOMAIN block' \subseteq Blocks
        /\ block' \in [DOMAIN block' -> Seq(Nodes \union {None})]
        /\ status' \in {"run", "memory", "rstkovf", "fault"}
    BY <1>1, <1>6 DEF Inv, TypeOK
  <2>5. node' \in [DOMAIN node' -> [num : Nat, alo : Nat, ptr : Blocks \union {None}]]
    <3>1. node' = [node EXCEPT ![t].num = num]
      BY DEF Called
    <3> QED
      BY <1>6, <3>1 DEF Inv, TypeOK
  <2> QED
    BY <2>1, <2>2, <2>3, <2>4, <2>5 DEF TypeOK
<1>13. RoomNoted'
  <2>1. num <= node[t].alo
    BY <1>5, NodeType DEF Inv, Shape, Links
  <2>2. \A m \in DOMAIN node : node'[m].num <= node'[m].alo
    BY <1>6, <2>1, NodeType DEF Inv
  <2> QED
    BY <1>1, <1>6, <1>11, <2>2 DEF Inv, RoomNoted
<1>14. Unshared' /\ Used' /\ BlockForBranches'
  <2>1. Unshared' /\ Used'
    <3>1. DOMAIN node' = DOMAIN node /\ block' = block /\ \A m \in DOMAIN node : node'[m].ptr = node[m].ptr
      BY <1>1, <1>6, <1>11
    <3> QED
      BY <3>1 DEF Inv, Shape, Unshared, Used
  <2>2. Active(t)
    BY <1>0, <1>1, CallFacts DEF Active
  <2>3. BlockForBranches'
    BY <1>6, <1>8, <2>2 DEF Inv, Shape, BlockForBranches
  <2> QED
    BY <2>1, <2>3
<1>15. Links' /\ OneParent'
  <2>1. Links'
    BY <1>6, <1>10, <1>11 DEF Inv, Shape, Links
  <2>2. OneParent'
    BY <1>6, <1>10, <1>11 DEF Inv, Shape, OneParent
  <2> QED
    BY <2>1, <2>2
<1>16. Frames'
  <2>1. \A k \in 1 .. Len(calls) :
          /\ calls[k].num = node[calls[k].node].num
          /\ calls[k].some = (node[calls[k].node].ptr # None)
          /\ calls[k].node # child
          /\ \A j \in 1 .. Len(calls) : calls[j].node = calls[k].node => j = k
    BY <1>1, <1>5, CallFacts DEF Inv, Shape, Frames, Active
  <2>2. /\ calls'[1].num = node'[child].num
        /\ calls'[1].some = (node'[child].ptr # None)
    BY <1>4, <1>5, <1>6, SomeBranches DEF Call
  <2>3. /\ calls'[2].num = node'[calls'[2].node].num
        /\ calls'[2].some = (node'[calls'[2].node].ptr # None)
    BY <1>0, <1>1, <1>2, <1>4, <1>6, <2>1
  <2>4. ASSUME NEW k \in 2 .. Len(calls)
        PROVE  /\ calls'[k + 1].num = node'[calls'[k + 1].node].num
               /\ calls'[k + 1].some = (node'[calls'[k + 1].node].ptr # None)
    <3>1. calls[k].node # t /\ calls[k].node \in DOMAIN node
      BY <1>0, <1>1, <2>1, CallFacts
    <3>2. calls'[k + 1] = calls[k] /\ node'[calls[k].node] = node[calls[k].node]
      BY <1>4, <1>6, <3>1
    <3>3. k \in 1 .. Len(calls)
      BY <1>1
    <3> QED
      BY <2>1, <3>2, <3>3
  <2>5. \A k \in 3 .. Len(calls) + 1 : k - 1 \in 2 .. Len(calls) /\ (k - 1) + 1 = k
    BY <1>1
  <2>6. ASSUME NEW k \in 1 .. Len(calls) + 1
        PROVE  /\ calls'[k].num = node'[calls'[k].node].num
               /\ calls'[k].some = (node'[calls'[k].node].ptr # None)
    <3>1. k = 1 \/ k = 2 \/ k \in 3 .. Len(calls) + 1
      BY <1>1
    <3>2. CASE k \in 3 .. Len(calls) + 1
      BY <2>4, <2>5, <3>2
    <3> QED
      BY <1>7, <2>2, <2>3, <3>1, <3>2
  <2>7. ASSUME NEW k \in 1 .. Len(calls) + 1, NEW j \in 1 .. Len(calls) + 1,
               calls'[j].node = calls'[k].node
        PROVE  j = k
    <3>1. (k = 1 \/ k \in 2 .. Len(calls) + 1) /\ (j = 1 \/ j \in 2 .. Len(calls) + 1)
      BY <1>1
    <3>2. CASE k \in 2 .. Len(calls) + 1 /\ j \in 2 .. Len(calls) + 1
      <4>1. /\ k - 1 \in 1 .. Len(calls) /\ j - 1 \in 1 .. Len(calls)
            /\ calls[j - 1].node = calls[k - 1].node
        BY <1>7, <2>7, <3>2
      <4>2. j - 1 = k - 1
        BY <2>1, <4>1
      <4> QED
        BY <3>2, <4>2
    <3>3. CASE k = 1 /\ j \in 2 .. Len(calls) + 1
      BY <1>7, <2>1, <2>7, <3>3
    <3>4. CASE j = 1 /\ k \in 2 .. Len(calls) + 1
      BY <1>7, <2>1, <2>7, <3>4
    <3> QED
      BY <3>1, <3>2, <3>3, <3>4
  <2> QED
    BY <1>4, <2>6, <2>7 DEF Frames
<1>17. Chain'
  <2>1. ASSUME NEW k \in 2 .. Len(calls) + 1, NEW q, NEW i,
               q = calls'[k].node, i = calls'[k].num + 1
        PROVE  Branch(q, i)' = calls'[k - 1].node
    <3>1. CASE k = 2
      BY <1>0, <1>2, <1>4, <1>7, <1>11, <2>1, <3>1
    <3>2. CASE k # 2
      <4>1. k - 1 \in 2 .. Len(calls) /\ (k - 1) + 1 = k /\ k - 1 \in 2 .. Len(calls) + 1
        BY <1>1, <3>2
      <4>2. q = calls[k - 1].node /\ i = calls[k - 1].num + 1
        BY <1>4, <2>1, <4>1
      <4>3. /\ q \in DOMAIN node /\ Branch(q, i) = calls[(k - 1) - 1].node
            /\ calls'[k - 1].node = calls[(k - 1) - 1].node
        BY <1>1, <1>7, <4>1, <4>2, CallFacts
      <4> QED
        BY <1>11, <4>3
    <3> QED
      BY <3>1, <3>2
  <2>2. DOMAIN calls' \ {1} = 2 .. Len(calls) + 1
    BY <1>1, <1>4
  <2> QED
    BY <2>1, <2>2 DEF Chain, Branch, CellsAt
<1>18. FromRoot'
  <2>1. Last(calls').node = Last(calls).node
    <3>1. Len(calls) \in 1 .. Len(calls)
      BY <1>1
    <3> QED
      BY <1>4, <1>7, <3>1 DEF Last
  <2> QED
    BY <1>1, <1>6, <1>10, <1>11, <2>1 DEF Inv, Shape, FromRoot
<1>19. Inv'
  BY <1>12, <1>13, <1>14, <1>15, <1>16, <1>17, <1>18 DEF Inv, Shape
<1>20. Last(calls').node = Last(calls).node
  <2>1. Len(calls) \in 1 .. Len(calls)
    BY <1>1
  <2> QED
    BY <1>4, <1>7, <2>1 DEF Last
<1> QED
  BY <1>1, <1>4, <1>6, <1>7, <1>10, <1>11, <1>19, <1>20

\* The loop of YU-ASTN-DELETE keeps the invariant.
LEMMA DeleteBranchKeeps ==
  ASSUME Inv, DeleteBranch
  PROVE  Inv'
BY DeleteBranchCases, CalledKeeps, StopKeeps

\* The calls after the innermost one has returned.
LEMMA CallDone ==
  ASSUME Inv, calls # <<>>, calls' = Tail(calls)
  PROVE  /\ Len(calls') = Len(calls) - 1 /\ DOMAIN calls' = 1 .. Len(calls) - 1
         /\ calls' \in Seq([node : Nodes, num : Nat, some : BOOLEAN])
         /\ \A k \in 1 .. Len(calls) - 1 : calls'[k] = calls[k + 1] /\ k + 1 \in 2 .. Len(calls)
         /\ \A k \in 2 .. Len(calls) : calls'[k - 1] = calls[k] /\ k - 1 \in 1 .. Len(calls) - 1
<1> DEFINE CallSet == [node : Nodes, num : Nat, some : BOOLEAN]
<1>1. calls \in Seq(CallSet) /\ Len(calls) \in Nat \ {0}
  BY CallFacts DEF Inv, TypeOK
<1> HIDE DEF CallSet
<1>2. /\ calls' \in Seq(CallSet) /\ Len(calls') = Len(calls) - 1
      /\ \A k \in 1 .. Len(calls) - 1 : calls'[k] = calls[k + 1]
  BY <1>1
<1>3. DOMAIN calls' = 1 .. Len(calls) - 1
  BY <1>2
<1>4. \A k \in 1 .. Len(calls) - 1 : k + 1 \in 2 .. Len(calls)
  BY <1>1
<1>5. \A k \in 2 .. Len(calls) : k - 1 \in 1 .. Len(calls) - 1 /\ (k - 1) + 1 = k
  BY <1>1
<1>6. \A k \in 2 .. Len(calls) : calls'[k - 1] = calls[k]
  BY <1>2, <1>5
<1> QED
  BY <1>2, <1>3, <1>4, <1>5, <1>6 DEF CallSet

\* What the end of a call does: the node and its block are gone, the node of the caller
\* has one branch less, and every other branch is where it was.
LEMMA EndFacts ==
  ASSUME Inv, DeleteEnd
  PROVE  /\ calls # <<>> /\ calls' = Tail(calls) /\ status' = status
         /\ (calls' # <<>>) = (2 \in 2 .. Len(calls))
         /\ calls[1].node \in DOMAIN node /\ calls[1].num = 0 /\ Top = calls[1]
         /\ DOMAIN node' = DOMAIN node \ {calls[1].node}
         /\ \A m \in DOMAIN node' : node'[m] = node[m]
         /\ DOMAIN block' = DOMAIN block \ {node[calls[1].node].ptr}
         /\ \A q \in DOMAIN block' :
              block'[q] = IF calls' # <<>> /\ q = node[calls[2].node].ptr
                          THEN [block[q] EXCEPT ![calls[2].num + 1] = None] ELSE block[q]
<1>1. calls # <<>> /\ calls' = Tail(calls) /\ status' = status /\ Top.num = 0
  BY DEF DeleteEnd
<1>2. /\ Top = calls[1] /\ calls[1].node \in DOMAIN node /\ 1 \in DOMAIN calls
      /\ calls[1].some = (node[calls[1].node].ptr # None)
  BY <1>1, CallFacts DEF Top, Inv, Shape, Frames
<1>3. calls' # <<>> => Head(Tail(calls)) = calls[2]
  <2>1. Len(calls) \in Nat \ {0}
    BY <1>1, CallFacts
  <2>2. calls' # <<>> => Len(calls) # 1
    BY <1>1, <2>1, CallDone DEF Inv, TypeOK
  <2>3. calls' # <<>> => calls'[1] = calls[2]
    BY <1>1, <2>1, <2>2, CallDone
  <2> QED
    BY <1>1, <2>3
<1>7. (calls' # <<>>) = (2 \in 2 .. Len(calls))
  <2>1. Len(calls) \in Nat \ {0} /\ Len(calls') = Len(calls) - 1 /\ calls' \in Seq([node : Nodes, num : Nat, some : BOOLEAN])
    BY <1>1, CallFacts, CallDone
  <2>2. (calls' # <<>>) = (Len(calls') # 0)
    <3> DEFINE CallSet == [node : Nodes, num : Nat, some : BOOLEAN]
    <3>1. calls' \in Seq(CallSet)
      BY <2>1
    <3> HIDE DEF CallSet
    <3> QED
      BY <3>1
  <2> QED
    BY <2>1, <2>2
<1>4. DOMAIN node' = DOMAIN node \ {calls[1].node} /\ \A m \in DOMAIN node' : node'[m] = node[m]
  BY <1>1, <1>2 DEF DeleteEnd
<1>5. (IF Top.some THEN node[Top.node].ptr ELSE None) = node[calls[1].node].ptr
  BY <1>2
<1>6. block' = [q \in DOMAIN block \ {node[calls[1].node].ptr} |->
                  IF Tail(calls) # <<>> /\ q = node[Head(Tail(calls)).node].ptr
                  THEN [block[q] EXCEPT ![Head(Tail(calls)).num + 1] = None] ELSE block[q]]
  BY <1>5 DEF DeleteEnd
<1> QED
  BY <1>1, <1>2, <1>3, <1>4, <1>6, <1>7

\* A cell of a block that is cleared.
LEMMA ClearedCell ==
  ASSUME NEW s \in Seq(Nodes \union {None}), NEW at \in 1 .. Len(s)
  PROVE  /\ Len([s EXCEPT ![at] = None]) = Len(s)
         /\ [s EXCEPT ![at] = None] \in Seq(Nodes \union {None})
         /\ \A i \in Nat : i # at => [s EXCEPT ![at] = None][i] = s[i]
OBVIOUS

\* The cells of the nodes that stay: only the cell behind the branches that are left of
\* the caller's node changes.
LEMMA EndCells ==
  ASSUME Inv, DeleteEnd, NEW m \in DOMAIN node, m # calls[1].node
  PROVE  /\ node[m].ptr # None => node[m].ptr \in DOMAIN block'
         /\ Len(CellsAt(node[m].ptr)') = Len(CellsAt(node[m].ptr))
         /\ \A i \in Nat : ~(calls' # <<>> /\ m = calls[2].node /\ i = calls[2].num + 1) =>
              Branch(m, i)' = Branch(m, i)
         /\ node[m].ptr # None =>
              block'[node[m].ptr] \in Seq(Nodes \union {None})
<1> DEFINE q == node[m].ptr
           t == calls[1].node
           parent == calls[2].node
           at == calls[2].num + 1
<1>1. calls # <<>> /\ t \in DOMAIN node /\ node'[m] = node[m]
  BY EndFacts
<1>2. CASE q = None
  BY <1>1, <1>2 DEF CellsAt, Branch
<1>3. CASE q # None
  <2>1. q \in DOMAIN block /\ q # node[t].ptr
    BY <1>1, <1>3, NodeType DEF Inv, Shape, Unshared
  <2>2. q \in DOMAIN block'
    BY <2>1, EndFacts
  <2>3. block[q] \in Seq(Nodes \union {None})
    BY <2>1 DEF Inv, TypeOK
  <2>4. CASE calls' # <<>> /\ m = parent
    <3>1. block'[q] = [block[q] EXCEPT ![at] = None]
      BY <2>2, <2>4, EndFacts
    <3>2. /\ Len(block'[q]) = Len(block[q]) /\ block'[q] \in Seq(Nodes \union {None})
          /\ \A i \in Nat : i # at => block'[q][i] = block[q][i]
      <4>1. at \in 1 .. Len(block[q])
        BY <1>1, <1>3, <2>3, <2>4, EndFacts, CallFacts DEF Inv, Shape, Links, CellsAt
      <4> QED
        BY <2>3, <3>1, <4>1, ClearedCell
    <3> QED
      BY <1>1, <1>3, <2>2, <2>4, <3>2 DEF CellsAt, Branch
  <2>5. CASE ~(calls' # <<>> /\ m = parent)
    <3>1. ~(calls' # <<>> /\ q = node[parent].ptr)
      <4>1. calls' # <<>> => parent \in DOMAIN node
        BY <1>1, CallFacts, EndFacts
      <4> QED
        BY <1>3, <2>5, <4>1 DEF Inv, Shape, Unshared
    <3>2. block'[q] = block[q]
      BY <2>2, <3>1, EndFacts
    <3> QED
      BY <1>1, <1>3, <2>2, <2>3, <3>2 DEF CellsAt, Branch
  <2> QED
    BY <2>4, <2>5
<1> QED
  BY <1>2, <1>3

\* The branches of the nodes that stay are where they were, and none is the node that
\* is gone.
LEMMA EndBranches ==
  ASSUME Inv, DeleteEnd, NEW m \in DOMAIN node, m # calls[1].node
  PROVE  /\ Kept(m)' \in Nat /\ Kept(m)' <= Kept(m) /\ node[m].num <= Kept(m)'
         /\ Active(m)' <=> Active(m)
         /\ \A k \in 3 .. Len(calls) : m = calls[k].node => Kept(m)' = calls[k].num + 1
         /\ \A i \in 1 .. Kept(m)' :
              /\ i \in 1 .. Kept(m) /\ Branch(m, i)' = Branch(m, i)
              /\ Branch(m, i) # calls[1].node
         /\ \/ Kept(m) = Kept(m)' + 1 /\ Branch(m, Kept(m)) = calls[1].node
            \/ Kept(m) = Kept(m)'
<1> DEFINE t == calls[1].node
           parent == calls[2].node
<1>1. /\ calls # <<>> /\ calls' = Tail(calls) /\ t \in DOMAIN node /\ calls[1].num = 0
      /\ node'[m] = node[m] /\ m \in DOMAIN node'
  BY EndFacts
<1>2. Len(calls) \in Nat \ {0} /\ DOMAIN calls = 1 .. Len(calls)
  BY <1>1, CallFacts
<1>3. /\ Len(calls') = Len(calls) - 1 /\ DOMAIN calls' = 1 .. Len(calls) - 1
      /\ \A k \in 1 .. Len(calls) - 1 : calls'[k] = calls[k + 1] /\ k + 1 \in 2 .. Len(calls)
      /\ \A k \in 2 .. Len(calls) : calls'[k - 1] = calls[k] /\ k - 1 \in 1 .. Len(calls) - 1
  BY <1>1, CallDone
<1>4. Active(m)' <=> Active(m)
  <2>1. ASSUME NEW k \in 1 .. Len(calls), calls[k].node = m
        PROVE  k \in 2 .. Len(calls)
    BY <1>2, <2>1
  <2>2. Active(m) <=> \E k \in 2 .. Len(calls) : calls[k].node = m
    BY <1>2, <2>1 DEF Active
  <2>3. (\E k \in 2 .. Len(calls) : calls[k].node = m) => \E k \in 1 .. Len(calls) - 1 : calls'[k].node = m
    BY <1>3
  <2>4. (\E k \in 1 .. Len(calls) - 1 : calls'[k].node = m) => \E k \in 2 .. Len(calls) : calls[k].node = m
    BY <1>3
  <2> QED
    BY <1>3, <2>2, <2>3, <2>4 DEF Active
<1>5. Waiting(m)' <=> \E k \in 3 .. Len(calls) : calls[k].node = m
  <2>1. \A k \in 3 .. Len(calls) : k \in 2 .. Len(calls) /\ k - 1 \in 2 .. Len(calls')
    BY <1>2, <1>3
  <2>2. \A k \in 2 .. Len(calls') : k \in 1 .. Len(calls) - 1 /\ k + 1 \in 3 .. Len(calls)
    BY <1>2, <1>3
  <2> QED
    BY <1>3, <2>1, <2>2 DEF Waiting
<1>6. \A j \in 1 .. Len(calls), k \in 1 .. Len(calls) : calls[j].node = calls[k].node => j = k
  BY <1>2 DEF Inv, Shape, Frames
<1>7. \A k \in 1 .. Len(calls) : calls[k].num = node[calls[k].node].num
  BY <1>2 DEF Inv, Shape, Frames
<1>8. node[m].num \in Nat /\ Kept(m) = node[m].num + (IF Waiting(m) THEN 1 ELSE 0)
  BY NodeType DEF Inv, Kept
<1>9. Kept(m)' = node[m].num + (IF \E k \in 3 .. Len(calls) : calls[k].node = m THEN 1 ELSE 0)
  BY <1>1, <1>5 DEF Kept
<1>10. CASE calls' # <<>> /\ m = parent
  <2>1. 2 \in 2 .. Len(calls) /\ 2 \in 1 .. Len(calls)
    BY <1>2, <1>10, EndFacts
  <2>2. /\ Kept(m) = calls[2].num + 1 /\ calls[2].num = node[m].num
        /\ Branch(m, calls[2].num + 1) = t
    BY <1>1, <1>7, <1>10, <2>1, CallFacts
  <2>3. ~ \E k \in 3 .. Len(calls) : calls[k].node = m
    BY <1>2, <1>6, <1>10, <2>1
  <2>4. Kept(m)' = node[m].num
    BY <1>8, <1>9, <2>3
  <2>5. \A i \in 1 .. Kept(m)' : i \in Nat /\ i \in 1 .. Kept(m) /\ i # calls[2].num + 1
    BY <1>8, <2>2, <2>4
  <2>6. \A i \in 1 .. Kept(m)' : Branch(m, i)' = Branch(m, i)
    BY <2>5, EndCells
  <2>7. \A i \in 1 .. Kept(m)' : Branch(m, i) # t
    <3>1. calls[2].num + 1 \in 1 .. Kept(m)
      BY <1>8, <2>2
    <3> QED
      BY <2>2, <2>5, <3>1 DEF Inv, Shape, OneParent
  <2> QED
    BY <1>4, <1>8, <2>2, <2>3, <2>4, <2>5, <2>6, <2>7
<1>11. CASE ~(calls' # <<>> /\ m = parent)
  <2>1. Waiting(m) <=> \E k \in 3 .. Len(calls) : calls[k].node = m
    <3>1. \A k \in 2 .. Len(calls) : calls[k].node = m => k \in 3 .. Len(calls)
      <4>1. 2 \in 2 .. Len(calls) => calls' # <<>>
        BY EndFacts
      <4> QED
        BY <1>2, <1>11, <4>1
    <3>2. \A k \in 3 .. Len(calls) : k \in 2 .. Len(calls)
      BY <1>2
    <3> QED
      BY <3>1, <3>2 DEF Waiting
  <2>2. Kept(m)' = Kept(m) /\ Kept(m) \in Nat /\ node[m].num <= Kept(m)
    BY <1>8, <1>9, <2>1
  <2>3. \A k \in 3 .. Len(calls) : m = calls[k].node => Kept(m)' = calls[k].num + 1
    <3>1. \A k \in 3 .. Len(calls) : k \in 1 .. Len(calls)
      BY <1>2
    <3> QED
      BY <1>7, <1>9, <3>1
  <2>4. \A i \in 1 .. Kept(m)' : i \in Nat /\ Branch(m, i)' = Branch(m, i)
    BY <1>11, <2>2, EndCells
  <2>5. ASSUME NEW i \in 1 .. Kept(m), Branch(m, i) = t
        PROVE  FALSE
    <3>1. CASE Len(calls) = 1
      <4>1. Last(calls).node = t
        BY <3>1 DEF Last
      <4> QED
        BY <1>1, <2>5, <4>1 DEF Inv, Shape, FromRoot
    <3>2. CASE Len(calls) # 1
      <4>1. 2 \in 2 .. Len(calls)
        BY <1>2, <3>2
      <4>2. /\ parent \in DOMAIN node /\ Branch(parent, calls[2].num + 1) = t
            /\ Kept(parent) = calls[2].num + 1 /\ calls[2].num \in Nat
        BY <1>1, <1>2, <4>1, CallFacts
      <4>3. calls[2].num + 1 \in 1 .. Kept(parent)
        BY <4>2
      <4>4. m = parent
        BY <2>5, <4>2, <4>3 DEF Inv, Shape, OneParent
      <4> QED
        BY <1>11, <4>1, <4>4, EndFacts
    <3> QED
      BY <3>1, <3>2
  <2> QED
    BY <1>4, <2>2, <2>3, <2>4, <2>5
<1> QED
  BY <1>10, <1>11

\* The end of a call: the branch leaves its node together with its block.
LEMMA DeleteEndKeeps ==
  ASSUME Inv, DeleteEnd
  PROVE  Inv'
<1> DEFINE t == calls[1].node
<1>1. PICK t0 \in DOMAIN node : t0 = t
  BY EndFacts
<1>2. /\ calls # <<>> /\ calls' = Tail(calls) /\ status' = status
      /\ DOMAIN node' = DOMAIN node \ {t0} /\ \A m \in DOMAIN node' : node'[m] = node[m]
      /\ DOMAIN block' = DOMAIN block \ {node[t0].ptr}
  BY <1>1, EndFacts
<1>3. /\ Len(calls') = Len(calls) - 1 /\ DOMAIN calls' = 1 .. Len(calls) - 1 /\ Len(calls) \in Nat \ {0}
      /\ calls' \in Seq([node : Nodes, num : Nat, some : BOOLEAN]) /\ DOMAIN calls = 1 .. Len(calls)
      /\ \A k \in 1 .. Len(calls) - 1 : calls'[k] = calls[k + 1] /\ k + 1 \in 2 .. Len(calls)
  BY <1>2, CallDone, CallFacts
<1>4. \A m \in DOMAIN node' : /\ m \in DOMAIN node /\ m # t0 /\ node'[m] = node[m]
                              /\ node[m].ptr # None => node[m].ptr \in DOMAIN block'
                              /\ Len(CellsAt(node[m].ptr)') = Len(CellsAt(node[m].ptr))
  BY <1>1, <1>2, EndCells
<1>5. \A m \in DOMAIN node' :
        /\ Kept(m)' \in Nat /\ Kept(m)' <= Kept(m) /\ (Active(m)' <=> Active(m))
        /\ \A i \in 1 .. Kept(m)' : i \in 1 .. Kept(m) /\ Branch(m, i)' = Branch(m, i) /\ Branch(m, i) # t0
  BY <1>1, <1>4, EndBranches
<1>6. ASSUME NEW k \in 2 .. Len(calls)
      PROVE  calls[k].node \in DOMAIN node' /\ k \in 1 .. Len(calls)
  <2>1. k \in 1 .. Len(calls) /\ 1 \in 1 .. Len(calls) /\ k # 1
    BY <1>3
  <2>2. calls[k].node # calls[1].node
    BY <1>3, <2>1 DEF Inv, Shape, Frames
  <2> QED
    BY <1>1, <1>2, <2>1, <2>2, CallFacts
<1>7. TypeOK'
  <2>1. node' \in [DOMAIN node' -> [num : Nat, alo : Nat, ptr : Blocks \union {None}]]
    <3>1. node' = [m \in DOMAIN node' |-> node'[m]]
      BY DEF DeleteEnd
    <3>2. \A m \in DOMAIN node' : node'[m] \in [num : Nat, alo : Nat, ptr : Blocks \union {None}]
      BY <1>4, NodeType DEF Inv
    <3> QED
      BY <3>1, <3>2
  <2>2. block' \in [DOMAIN block' -> Seq(Nodes \union {None})]
    <3>1. block' = [q \in DOMAIN block' |-> block'[q]]
      BY DEF DeleteEnd
    <3>2. ASSUME NEW q \in DOMAIN block'
          PROVE  block'[q] \in Seq(Nodes \union {None})
      <4>1. PICK m \in DOMAIN node : node[m].ptr = q
        BY <1>2 DEF Inv, Shape, Used
      <4>2. m # t0 /\ q # None
        BY <1>2, <3>2, <4>1, SizeAssumption DEF Inv, TypeOK
      <4> QED
        BY <1>1, <4>1, <4>2, EndCells
    <3> QED
      BY <3>1, <3>2
  <2>3. \A k \in DOMAIN calls' : calls'[k].node \in DOMAIN node'
    BY <1>3, <1>6
  <2>4. Len(calls') <= Depth
    BY <1>3, SizeAssumption DEF Inv, TypeOK
  <2>5. /\ DOMAIN node' \subseteq Nodes /\ DOMAIN block' \subseteq Blocks
        /\ status' \in {"run", "memory", "rstkovf", "fault"}
    BY <1>2 DEF Inv, TypeOK
  <2> QED
    BY <1>3, <2>1, <2>2, <2>3, <2>4, <2>5 DEF TypeOK
<1>8. RoomNoted'
  BY <1>4, NodeType DEF Inv, RoomNoted
<1>9. Unshared' /\ Used' /\ BlockForBranches'
  <2>1. Unshared' /\ BlockForBranches'
    BY <1>4, <1>5 DEF Inv, Shape, Unshared, BlockForBranches
  <2>2. Used'
    BY <1>2 DEF Inv, Shape, Used
  <2> QED
    BY <2>1, <2>2
<1>10. Links' /\ OneParent'
  <2>1. Links'
    <3>1. ASSUME NEW m \in DOMAIN node'
          PROVE  Kept(m)' <= Len(CellsAt(node[m].ptr)')
      <4>1. Kept(m) <= Len(CellsAt(node[m].ptr)) /\ node[m].num \in Nat /\ Len(CellsAt(node[m].ptr)) \in Nat
        BY <1>4, NodeType DEF Inv, Shape, Links
      <4>2. Kept(m) \in Nat
        BY <4>1 DEF Kept
      <4> QED
        BY <1>4, <1>5, <4>1, <4>2
    <3>2. \A m \in DOMAIN node' : \A i \in 1 .. Kept(m)' : Branch(m, i)' \in DOMAIN node'
      BY <1>2, <1>4, <1>5 DEF Inv, Shape, Links
    <3> QED
      BY <3>1, <3>2 DEF Links
  <2>2. OneParent'
    BY <1>4, <1>5 DEF Inv, Shape, OneParent
  <2> QED
    BY <2>1, <2>2
<1>11. Frames'
  <2>1. \A k \in 2 .. Len(calls) :
          /\ calls[k].num = node'[calls[k].node].num
          /\ calls[k].some = (node'[calls[k].node].ptr # None)
          /\ \A j \in 2 .. Len(calls) : calls[j].node = calls[k].node => j = k
    BY <1>2, <1>3, <1>6 DEF Inv, Shape, Frames
  <2>2. ASSUME NEW k \in 1 .. Len(calls) - 1
        PROVE  /\ calls'[k].num = node'[calls'[k].node].num
               /\ calls'[k].some = (node'[calls'[k].node].ptr # None)
    <3>1. calls'[k] = calls[k + 1] /\ k + 1 \in 2 .. Len(calls)
      BY <1>3
    <3> QED
      BY <2>1, <3>1
  <2>3. ASSUME NEW j \in 1 .. Len(calls) - 1, NEW k \in 1 .. Len(calls) - 1,
               calls'[j].node = calls'[k].node
        PROVE  j = k
    <3>1. /\ calls'[j] = calls[j + 1] /\ j + 1 \in 2 .. Len(calls)
          /\ calls'[k] = calls[k + 1] /\ k + 1 \in 2 .. Len(calls)
      BY <1>3
    <3>2. j + 1 = k + 1
      BY <2>1, <2>3, <3>1
    <3> QED
      BY <3>2
  <2> QED
    BY <1>3, <2>2, <2>3 DEF Frames
<1>12. Chain'
  <2>1. ASSUME NEW k \in 2 .. Len(calls) - 1, NEW q, NEW i,
               q = calls'[k].node, i = calls'[k].num + 1
        PROVE  Branch(q, i)' = calls'[k - 1].node
    <3>1. /\ k \in 1 .. Len(calls) - 1 /\ k - 1 \in 1 .. Len(calls) - 1 /\ k + 1 \in 3 .. Len(calls)
          /\ (k - 1) + 1 = k /\ (k + 1) - 1 = k /\ k + 1 \in 2 .. Len(calls)
      BY <1>3
    <3>2. q = calls[k + 1].node /\ i = calls[k + 1].num + 1 /\ calls'[k - 1] = calls[k]
      BY <1>3, <2>1, <3>1
    <3>3. Branch(q, i) = calls[k].node /\ q \in DOMAIN node' /\ i \in Nat \ {0}
      BY <1>2, <1>6, <3>1, <3>2, CallFacts
    <3>4. Kept(q)' = i
      BY <1>1, <1>4, <3>1, <3>2, <3>3, EndBranches
    <3>5. i \in 1 .. Kept(q)'
      BY <3>3, <3>4
    <3> QED
      BY <1>5, <3>2, <3>3, <3>5
  <2>2. DOMAIN calls' \ {1} = 2 .. Len(calls) - 1
    BY <1>3
  <2> QED
    BY <2>1, <2>2 DEF Chain, Branch, CellsAt
<1>13. FromRoot'
  <2>1. calls' # <<>> => Last(calls').node = Last(calls).node
    <3>1. calls' # <<>> => Len(calls) - 1 \in 1 .. Len(calls) - 1
      BY <1>3, EndFacts
    <3> QED
      BY <1>3, <3>1 DEF Last
  <2> QED
    BY <1>2, <1>4, <1>5, <2>1 DEF Inv, Shape, FromRoot
<1> QED
  BY <1>7, <1>8, <1>9, <1>10, <1>11, <1>12, <1>13 DEF Inv, Shape

-----------------------------------------------------------------------------
(* The theorems. *)

\* The invariant holds before anything is allocated.
LEMMA InvInit == Init => Inv
<1> SUFFICES ASSUME Init PROVE Inv
  OBVIOUS
<1>1. /\ node = <<>> /\ block = <<>> /\ calls = <<>> /\ status = "run"
      /\ DOMAIN node = {} /\ DOMAIN block = {} /\ DOMAIN calls = {} /\ Len(calls) = 0
  BY DEF Init
<1>2. TypeOK
  BY <1>1, SizeAssumption DEF TypeOK
<1>3. RoomNoted /\ Unshared /\ Used /\ BlockForBranches /\ Links /\ OneParent
  BY <1>1 DEF RoomNoted, Unshared, Used, BlockForBranches, Links, OneParent
<1>4. Frames /\ Chain /\ FromRoot
  BY <1>1 DEF Frames, Chain, FromRoot
<1> QED
  BY <1>2, <1>3, <1>4 DEF Inv, Shape

\* Nothing changes in a step of something else.
LEMMA StutterKeeps ==
  ASSUME Inv, UNCHANGED vars
  PROVE  Inv'
<1>1. node' = node /\ block' = block /\ calls' = calls /\ status' = status
  BY DEF vars
<1>2. TypeOK' /\ RoomNoted'
  BY <1>1 DEF Inv, TypeOK, RoomNoted, CellsAt
<1>3. Shape'
  BY <1>1 DEF Inv, Shape, Unshared, Used, BlockForBranches, Active, Links, OneParent,
              Frames, Chain, FromRoot, Kept, Waiting, Branch, CellsAt
<1> QED
  BY <1>2, <1>3 DEF Inv

\* The invariant is inductive.
THEOREM Invariant == Spec => []Inv
<1>1. Init => Inv
  BY InvInit
<1>2. Inv /\ [Next]_vars => Inv'
  BY CreateKeeps, DeleteKeeps, DeleteBranchKeeps, DeleteEndKeeps, AddBrKeeps, StutterKeeps DEF Next
<1> QED
  BY <1>1, <1>2, PTL DEF Spec

\* The nodes and blocks are what the words expect, and the calls fit on the return stack.
THEOREM TypeCorrect == Spec => []TypeOK
<1>1. Inv => TypeOK
  BY DEF Inv
<1> QED
  BY <1>1, Invariant, PTL

\* The noted room is the room of the block, and holds all branches, for any caller: also
\* where YU-ASTN-ADDBR looks at the room of the branch instead of the node (line 186).
THEOREM RoomIsNoted == Spec => []RoomNoted
<1>1. Inv => RoomNoted
  BY DEF Inv
<1> QED
  BY <1>1, Invariant, PTL

\* No block is lost or belongs to two nodes, for any order of adding and deleting, also
\* when the machine stops in between.
THEOREM NothingLeaks == Spec => []NoLeak
<1>1. Inv => NoLeak
  <2> SUFFICES ASSUME Inv, NEW q \in DOMAIN block
               PROVE  \E n \in DOMAIN node :
                        node[n].ptr = q /\ \A m \in DOMAIN node \ {n} : node[m].ptr # q
    BY DEF NoLeak
  <2>1. PICK n \in DOMAIN node : node[n].ptr = q
    BY DEF Inv, Shape, Used
  <2>2. q # None
    BY SizeAssumption DEF Inv, TypeOK
  <2> QED
    BY <2>1, <2>2 DEF Inv, Shape, Unshared
<1> QED
  BY <1>1, Invariant, PTL

\* For every caller and every size of a first block, a branch is stored outside of the
\* block of its node only by YU-ASTN-ADDBR with two nodes of different rooms, and a
\* deletion finds every branch alive (lines 141-221).
THEOREM FaultsTheorem == Spec => FaultsByRoomOnly
<1> DEFINE Allowed == status' = "fault" =>
             \/ status = "fault"
             \/ \E a, b \in Nodes : AddBr(a, b) /\ node[a].alo # node[b].alo
<1>1. Inv /\ [Next]_vars => [Allowed]_vars
  <2> SUFFICES ASSUME Inv, Next PROVE Allowed
    OBVIOUS
  <2>1. CASE Create
    BY <2>1 DEF Create, Stop
  <2>2. CASE Delete
    BY <2>2 DEF Delete
  <2>3. CASE DeleteBranch
    <3>1. status' \in {"rstkovf", status}
      BY <2>3, DeleteBranchCases, CalledKeeps DEF Stop
    <3> QED
      BY <3>1
  <2>4. CASE DeleteEnd
    BY <2>4, EndFacts
  <2>5. ASSUME NEW a \in Nodes, NEW b \in Nodes, AddBr(a, b)
        PROVE  Allowed
    <3>1. CASE Stop("memory")
      BY <3>1 DEF Stop
    <3>2. CASE node[a].alo # node[b].alo
      BY <2>5, <3>2
    <3>3. CASE \E room \in Nat, cells \in Seq(Nodes \union {None}) :
                 Len(cells) = room /\ node[a].num < room /\ Store(a, b, cells, room)
      <4>1. PICK room \in Nat, cells \in Seq(Nodes \union {None}) :
              Len(cells) = room /\ node[a].num < room /\ Store(a, b, cells, room)
        BY <3>3
      <4>2. ~(node[a].num >= Len(cells))
        BY <2>5, <4>1, AddBrCases
      <4>3. status' = status
        BY <4>1, <4>2, ZenonT(20) DEF Store
      <4> QED
        BY <4>3
    <3> QED
      BY <2>5, <3>1, <3>2, <3>3, AddBrCases
  <2> QED
    BY <2>1, <2>2, <2>3, <2>4, <2>5 DEF Next
<1> QED
  BY <1>1, Invariant, PTL DEF Spec, FaultsByRoomOnly

-----------------------------------------------------------------------------
(* The nodes and their blocks implement a forest (Forest).                 *)

\* The branches of a node as a sequence.
LEMMA TreeFacts ==
  ASSUME Inv, NEW n \in DOMAIN node
  PROVE  /\ Trees[n] \in Seq(Nodes \union {None}) /\ Len(Trees[n]) = Kept(n) /\ Kept(n) \in Nat
         /\ \A i \in 1 .. Kept(n) : Trees[n][i] = Branch(n, i)
         /\ Range(Trees[n]) = {Branch(n, i) : i \in 1 .. Kept(n)}
<1> DEFINE cells == CellsAt(node[n].ptr)
<1>1. cells \in Seq(Nodes \union {None}) /\ Kept(n) \in 0 .. Len(cells)
  <2>1. node[n].num \in Nat /\ cells \in Seq(Nodes \union {None}) /\ Kept(n) <= Len(cells)
    BY NodeType DEF Inv, Shape, Links
  <2> QED
    BY <2>1 DEF Kept
<1>2. Trees[n] = SubSeq(cells, 1, Kept(n))
  BY DEF Trees
<1>3. \A i \in 1 .. Kept(n) : Branch(n, i) = cells[i]
  BY DEF Branch
<1> HIDE DEF cells
<1>4. /\ Trees[n] \in Seq(Nodes \union {None}) /\ Len(Trees[n]) = Kept(n)
      /\ \A i \in 1 .. Kept(n) : Trees[n][i] = Branch(n, i)
  BY <1>1, <1>2, <1>3
<1>5. DOMAIN Trees[n] = 1 .. Kept(n)
  BY <1>1, <1>4
<1> QED
  BY <1>1, <1>4, <1>5 DEF Range

\* The same after a step.
TreeSequences ==
  \A n \in DOMAIN node :
    /\ Trees[n] \in Seq(Nodes \union {None}) /\ Len(Trees[n]) = Kept(n) /\ Kept(n) \in Nat
    /\ \A i \in 1 .. Kept(n) : Trees[n][i] = Branch(n, i)

\* The invariant gives the sequences of trees, in this state ...
LEMMA TreesNow == Inv => TreeSequences
BY TreeFacts DEF TreeSequences

\* ... and in the next.
LEMMA TreesNext == Inv' => TreeSequences'
BY TreesNow, PTL

\* Sequences are equal when their elements are.
LEMMA SameSeq ==
  ASSUME NEW S, NEW s \in Seq(S), NEW t \in Seq(S), Len(s) = Len(t),
         \A i \in 1 .. Len(s) : s[i] = t[i]
  PROVE  s = t
OBVIOUS

\* Trees is a function of the nodes.
LEMMA TreesFunction == Trees = [n \in DOMAIN node |-> Trees[n]] /\ DOMAIN Trees = DOMAIN node
BY DEF Trees

\* A tree is being deleted while calls are active.
LEMMA DoomedFacts ==
  ASSUME Inv
  PROVE  /\ calls = <<>> => Doomed = None
         /\ calls # <<>> => Doomed = Last(calls).node /\ Doomed \in DOMAIN node /\ Doomed # None
<1>1. calls # <<>> => Last(calls).node \in DOMAIN node
  BY CallFacts DEF Last
<1> QED
  BY <1>1, NodeType, SizeAssumption DEF Doomed, Inv

-----------------------------------------------------------------------------
(* What is being deleted lies below the root. *)

Reached ==
  \A S \in SUBSET DOMAIN node :
    /\ Doomed \in S
    /\ \A x \in S : \A i \in 1 .. Kept(x) : Branch(x, i) \in S
    => \A k \in DOMAIN calls : calls[k].node \in S

\* With no call under way there is nothing to show.
LEMMA ReachedStart ==
  ASSUME calls' = <<>>
  PROVE  Reached'
BY DEF Reached

\* A step that leaves the state alone but for its status.
LEMMA ReachedSame ==
  ASSUME Reached, node' = node, block' = block, calls' = calls
  PROVE  Reached'
BY DEF Reached, Doomed, Kept, Waiting, Branch, CellsAt

\* A delete starts with the node it is called for.
LEMMA ReachedDelete ==
  ASSUME Inv, Delete
  PROVE  Reached'
<1>1. PICK n \in DOMAIN node : calls' = <<Call(n)>>
  BY DEF Delete
<1>2. DOMAIN calls' = {1} /\ calls'[1].node = n /\ Last(calls').node = n /\ calls' # <<>>
  BY <1>1 DEF Call, Last
<1> QED
  BY <1>2 DEF Reached, Doomed

\* A call for a branch adds one to the path.
LEMMA ReachedBranch ==
  ASSUME Inv, Reached, NEW t \in DOMAIN node, NEW num \in Nat, NEW child \in DOMAIN node,
         Called(t, num, child)
  PROVE  Reached'
<1>1. /\ DOMAIN node' = DOMAIN node /\ calls # <<>> /\ t = calls[1].node
      /\ \A m \in DOMAIN node : Kept(m)' = Kept(m) /\ \A i : Branch(m, i)' = Branch(m, i)
      /\ DOMAIN calls' = 1 .. Len(calls) + 1 /\ calls'[1].node = child
      /\ \A k \in 2 .. Len(calls) + 1 : k - 1 \in 1 .. Len(calls) /\ calls'[k].node = calls[k - 1].node
  <2>1. calls # <<>> /\ t = calls[1].node
    BY ZenonT(20) DEF Called
  <2> QED
    BY <2>1, CalledKeeps DEF Branch
<1>2. Doomed' = Doomed
  <2>1. Len(calls) \in Nat
    BY <1>1, CallFacts
  <2>2. calls' # <<>>
    BY <1>1, <2>1
  <2>3. Last(calls').node = Last(calls).node
    BY CalledKeeps
  <2> QED
    BY <1>1, <2>2, <2>3 DEF Doomed
<1>3. num + 1 \in 1 .. Kept(t) /\ child = Branch(t, num + 1)
  <2>1. num + 1 = calls[1].num /\ child = Branch(t, num + 1)
    BY ZenonT(20) DEF Called
  <2> QED
    BY <1>1, <2>1, CallFacts
<1>4. SUFFICES ASSUME NEW S \in SUBSET DOMAIN node, Doomed \in S,
                      \A x \in S : \A i \in 1 .. Kept(x) : Branch(x, i) \in S
               PROVE  \A k \in DOMAIN calls' : calls'[k].node \in S
  BY <1>1, <1>2 DEF Reached
<1>5. \A k \in 1 .. Len(calls) : calls[k].node \in S
  BY <1>1, <1>4, CallFacts DEF Reached
<1>6. child \in S
  BY <1>1, <1>3, <1>4, <1>5, CallFacts
<1>7. \A k \in 1 .. Len(calls) + 1 : k = 1 \/ k \in 2 .. Len(calls) + 1
  BY <1>1, CallFacts
<1> QED
  BY <1>1, <1>5, <1>6, <1>7

\* A return takes one from it.
LEMMA ReachedEnd ==
  ASSUME Inv, Reached, DeleteEnd
  PROVE  Reached'
<1> DEFINE t == calls[1].node
<1>1. CASE calls' = <<>>
  BY <1>1, ReachedStart
<1>2. CASE calls' # <<>>
  <2>1. PICK t0 \in DOMAIN node : t0 = t
    BY EndFacts
  <2>2. /\ calls # <<>> /\ DOMAIN node' = DOMAIN node \ {t0} /\ Kept(t0) = 0
        /\ Len(calls) \in Nat \ {0} /\ calls' = Tail(calls)
    BY <2>1, EndFacts, CallFacts
  <2>3. /\ DOMAIN calls' = 1 .. Len(calls) - 1 /\ Len(calls') = Len(calls) - 1
        /\ \A k \in 1 .. Len(calls) - 1 : calls'[k] = calls[k + 1] /\ k + 1 \in 2 .. Len(calls)
    BY <2>2, CallDone
  <2>4. Doomed' = Doomed
    <3>1. 2 \in 2 .. Len(calls)
      BY <1>2, EndFacts
    <3>2. Len(calls) - 1 \in 1 .. Len(calls) - 1 /\ (Len(calls) - 1) + 1 = Len(calls)
      BY <2>2, <3>1
    <3>3. Last(calls') = Last(calls)
      BY <2>3, <3>2 DEF Last
    <3> QED
      BY <1>2, <2>2, <3>3 DEF Doomed
  <2>5. SUFFICES ASSUME NEW S \in SUBSET DOMAIN node', Doomed \in S,
                        \A x \in S : \A i \in 1 .. Kept(x)' : Branch(x, i)' \in S
                 PROVE  \A k \in DOMAIN calls' : calls'[k].node \in S
    BY <2>4 DEF Reached
  <2>6. ASSUME NEW x \in S, NEW i \in 1 .. Kept(x)
        PROVE  Branch(x, i) \in S \union {t0}
    <3>1. x \in DOMAIN node /\ x # t0
      BY <2>2
    <3>2. \/ i \in 1 .. Kept(x)' /\ Branch(x, i)' = Branch(x, i)
          \/ Branch(x, i) = t0
      <4>1. /\ Kept(x)' \in Nat /\ \A j \in 1 .. Kept(x)' : Branch(x, j)' = Branch(x, j)
            /\ \/ Kept(x) = Kept(x)' + 1 /\ Branch(x, Kept(x)) = t0
               \/ Kept(x) = Kept(x)'
        BY <2>1, <3>1, EndBranches
      <4>2. i \in 1 .. Kept(x)' \/ i = Kept(x)' + 1
        BY <4>1
      <4> QED
        BY <4>1, <4>2
    <3> QED
      BY <2>5, <3>2
  <2>7. \A x \in S \union {t0} : \A i \in 1 .. Kept(x) : Branch(x, i) \in S \union {t0}
    <3>1. 1 .. 0 = {}
      OBVIOUS
    <3> QED
      BY <2>2, <2>6, <3>1
  <2>8. S \union {t0} \in SUBSET DOMAIN node
    BY <2>2
  <2>9. \A k \in 1 .. Len(calls) : calls[k].node \in S \union {t0}
    BY <2>2, <2>5, <2>7, <2>8, CallFacts DEF Reached
  <2>10. ASSUME NEW k \in 1 .. Len(calls) - 1
         PROVE  calls'[k].node \in S
    <3>1. calls'[k] = calls[k + 1] /\ k + 1 \in 1 .. Len(calls) /\ k + 1 # 1 /\ 1 \in 1 .. Len(calls)
      BY <2>2, <2>3
    <3>2. calls[k + 1].node # t0
      BY <2>1, <2>2, <3>1, CallFacts DEF Inv, Shape, Frames
    <3> QED
      BY <2>9, <3>1, <3>2
  <2> QED
    BY <2>3, <2>10
<1> QED
  BY <1>1, <1>2

\* Every step keeps the path.
LEMMA ReachedNext ==
  ASSUME Inv, Reached, [Next]_vars
  PROVE  Reached'
<1>1. CASE Create
  BY <1>1, ReachedStart, ReachedSame DEF Create, Idle, Stop
<1>2. CASE Delete
  BY <1>2, ReachedDelete
<1>3. CASE DeleteBranch
  BY <1>3, DeleteBranchCases, ReachedBranch, ReachedSame DEF Stop
<1>4. CASE DeleteEnd
  BY <1>4, ReachedEnd
<1>5. ASSUME NEW a \in Nodes, NEW b \in Nodes, AddBr(a, b)
      PROVE  Reached'
  BY <1>5, ReachedStart, ReachedSame DEF AddBr, Idle, Store, Stop
<1>6. CASE UNCHANGED vars
  BY <1>6, ReachedSame DEF vars
<1> QED
  BY <1>1, <1>2, <1>3, <1>4, <1>5, <1>6 DEF Next

-----------------------------------------------------------------------------
(* Each step is a step of the forest. *)

\* The forest is empty at first.
LEMMA ForestInit == Init => Abstract!Init
<1> SUFFICES ASSUME Init PROVE Abstract!Init
  OBVIOUS
<1>1. Trees = <<>> /\ Doomed = None
  BY DEF Init, Trees, Doomed
<1> QED
  BY <1>1 DEF Init, Abstract!Init

\* Roots, and what lies below a node, are the same in both.
LEMMA RootsAgree ==
  ASSUME Inv, calls = <<>>
  PROVE  \A r \in DOMAIN node : (Abstract!IsRoot(r) <=> IsRoot(r)) /\ Abstract!Below(r) = Below(r)
<1>1. DOMAIN Trees = DOMAIN node /\ \A n \in DOMAIN node : Trees[n] = BranchesOf(n)
  BY KeptIdle DEF Trees, BranchesOf, Inv
<1>2. \A r \in DOMAIN node : Abstract!IsRoot(r) <=> IsRoot(r)
  BY <1>1 DEF Abstract!IsRoot, Abstract!Exists, Abstract!Range, Range, IsRoot
<1>3. \A r \in DOMAIN node : Abstract!Below(r) = Below(r)
  BY <1>1 DEF Abstract!Below, Abstract!Exists, Abstract!Range, Range, Below
<1> QED
  BY <1>2, <1>3

\* The forest is the same in a state that differs in its status only.
LEMMA SameForest ==
  ASSUME node' = node, block' = block, calls' = calls
  PROVE  Trees' = Trees /\ Doomed' = Doomed
BY DEF Trees, Doomed, Kept, Waiting, CellsAt

\* A program that stops leaves the forest as it is.
LEMMA FailStep ==
  ASSUME Inv, NEW why, Stop(why), status = "run",
         why \in IF calls = <<>> THEN {"memory", "fault"} ELSE {"rstkovf"}
  PROVE  Abstract!Fail
<1>1. Trees' = Trees /\ Doomed' = Doomed /\ status' = why
  BY SameForest DEF Stop
<1> QED
  BY <1>1, DoomedFacts DEF Abstract!Fail

\* A new node is a tree of its own.
LEMMA CreateStep ==
  ASSUME Inv, Create
  PROVE  Abstract!Next
<1>1. calls = <<>> /\ status = "run" /\ Doomed = None
  BY DoomedFacts DEF Create, Idle
<1>2. CASE Stop("memory")
  BY <1>1, <1>2, FailStep DEF Abstract!Next
<1>3. ASSUME NEW n \in Nodes \ DOMAIN node,
             node' = [m \in DOMAIN node \union {n} |->
                        IF m = n THEN [num |-> 0, alo |-> 0, ptr |-> None] ELSE node[m]],
             UNCHANGED <<block, calls, status>>
      PROVE  Abstract!New(n)
  <2>1. /\ DOMAIN node' = DOMAIN node \union {n} /\ block' = block /\ calls' = <<>> /\ status' = status
        /\ \A m \in DOMAIN node : m # n /\ node'[m] = node[m]
        /\ node'[n] = [num |-> 0, alo |-> 0, ptr |-> None]
    BY <1>1, <1>3
  <2>2. \A m \in DOMAIN node' : Kept(m)' = node'[m].num + 0
    BY <2>1 DEF Kept, Waiting
  <2>3. \A m \in DOMAIN node : Kept(m) = node[m].num + 0
    BY <1>1 DEF Kept, Waiting
  <2>4. \A m \in DOMAIN node : Trees'[m] = Trees[m]
    BY <2>1, <2>2, <2>3 DEF Trees, CellsAt
  <2>5. Trees'[n] = <<>>
    BY <2>1, <2>2 DEF Trees, CellsAt
  <2>6. Trees' = [m \in DOMAIN node' |-> Trees'[m]]
    BY DEF Trees
  <2>7. Doomed' = None
    BY <2>1 DEF Doomed
  <2> QED
    BY <1>1, <2>1, <2>4, <2>5, <2>6, <2>7, TreesFunction
    DEF Abstract!New, Abstract!Idle, Abstract!Exists
<1> QED
  BY <1>2, <1>3 DEF Create, Abstract!Next

\* The call from outside dooms a tree.
LEMMA DeleteStep ==
  ASSUME Inv, Delete
  PROVE  Abstract!Next
<1>1. PICK n \in DOMAIN node : IsRoot(n) /\ calls' = <<Call(n)>>
  BY DEF Delete
<1>2. calls = <<>> /\ status = "run" /\ node' = node /\ block' = block /\ status' = status /\ Doomed = None
  BY DoomedFacts DEF Delete, Idle
<1>3. Doomed' = n /\ Len(calls') = 1 /\ n \in Nodes
  BY <1>1, NodeType DEF Doomed, Last, Call, Inv
<1>4. Trees' = Trees
  BY <1>2, <1>3 DEF Trees, CellsAt, Kept, Waiting
<1> QED
  BY <1>1, <1>2, <1>3, <1>4, RootsAgree DEF Abstract!Next, Abstract!Delete, Abstract!Idle

\* The call for a branch changes nothing in the forest.
LEMMA DeleteBranchStep ==
  ASSUME Inv, DeleteBranch
  PROVE  Abstract!Next \/ UNCHANGED Abstract!vars
<1>1. calls # <<>> /\ status = "run"
  BY ZenonT(20) DEF DeleteBranch
<1>2. CASE Stop("rstkovf")
  BY <1>1, <1>2, FailStep DEF Abstract!Next
<1>3. ASSUME NEW t \in DOMAIN node, NEW num \in Nat, NEW child \in DOMAIN node, Called(t, num, child)
      PROVE  UNCHANGED Abstract!vars
  <2>1. Trees' = Trees
    BY <1>3, CalledKeeps DEF Trees
  <2>2. Len(calls) \in Nat /\ DOMAIN calls' = 1 .. Len(calls) + 1
    BY <1>1, <1>3, CallFacts, CalledKeeps
  <2>3. calls' # <<>>
    BY <2>2
  <2>4. Doomed' = Doomed /\ status' = status
    BY <1>1, <1>3, <2>3, CalledKeeps DEF Doomed
  <2> QED
    BY <2>1, <2>4 DEF Abstract!vars
<1> QED
  BY <1>2, <1>3, DeleteBranchCases

\* A branch comes behind the others.
LEMMA AddBrStep ==
  ASSUME Inv, NEW a \in Nodes, NEW b \in Nodes, AddBr(a, b)
  PROVE  Abstract!Next
<1>1. /\ calls = <<>> /\ status = "run" /\ Doomed = None /\ a \in DOMAIN node /\ b \in DOMAIN node
      /\ IsRoot(b) /\ a \notin Below(b)
  BY AddBrCases, DoomedFacts
<1>2. CASE Stop("memory") \/ Stop("fault")
  BY <1>1, <1>2, FailStep DEF Abstract!Next
<1>3. ASSUME NEW num \in Nat, num = node[a].num,
             NEW room \in Nat, NEW cells \in Seq(Nodes \union {None}), Len(cells) = room,
             \A i \in 1 .. num : i <= room => cells[i] = Branch(a, i),
             num < room, Store(a, b, cells, room)
      PROVE  Abstract!Attach(a, b)
  <2>2. /\ Inv' /\ DOMAIN node' = DOMAIN node /\ calls' = <<>> /\ status' = status
        /\ \A m \in DOMAIN node :
             /\ Kept(m)' = IF m = a THEN num + 1 ELSE Kept(m)
             /\ \A i \in 1 .. Kept(m) : Branch(m, i)' = Branch(m, i)
        /\ Branch(a, num + 1)' = b
    BY <1>1, <1>3, StoreKeeps
  <2>3. Kept(a) = num
    BY <1>1, <1>3, KeptIdle DEF Inv
  <2>4. TreeSequences /\ TreeSequences'
    BY <2>2, TreesNow, TreesNext
  <2>5. ASSUME NEW m \in DOMAIN node, m # a
        PROVE  Trees'[m] = Trees[m]
    <3>1. /\ Trees[m] \in Seq(Nodes \union {None}) /\ Trees'[m] \in Seq(Nodes \union {None})
          /\ Len(Trees'[m]) = Len(Trees[m]) /\ \A i \in 1 .. Len(Trees'[m]) : Trees'[m][i] = Trees[m][i]
      BY <2>2, <2>4, <2>5 DEF TreeSequences
    <3> QED
      BY <3>1, SameSeq
  <2>6. Trees'[a] = Append(Trees[a], b)
    <3>1. /\ Trees[a] \in Seq(Nodes \union {None}) /\ Trees'[a] \in Seq(Nodes \union {None})
          /\ Len(Trees[a]) = num /\ Len(Trees'[a]) = num + 1 /\ Trees'[a][num + 1] = b
          /\ \A i \in 1 .. num : Trees'[a][i] = Trees[a][i]
      <4>1. /\ Trees[a] \in Seq(Nodes \union {None}) /\ Len(Trees[a]) = num
            /\ \A i \in 1 .. num : Trees[a][i] = Branch(a, i)
        BY <1>1, <2>3, <2>4 DEF TreeSequences
      <4>2. /\ Kept(a)' = num + 1 /\ Branch(a, num + 1)' = b
            /\ \A i \in 1 .. num : Branch(a, i)' = Branch(a, i)
        BY <1>1, <2>2, <2>3
      <4>3. /\ Trees'[a] \in Seq(Nodes \union {None}) /\ Len(Trees'[a]) = Kept(a)'
            /\ \A i \in 1 .. Kept(a)' : Trees'[a][i] = Branch(a, i)'
        BY <1>1, <2>2, <2>4 DEF TreeSequences
      <4>4. Trees'[a][num + 1] = b
        BY <1>3, <4>2, <4>3
      <4>5. \A i \in 1 .. num : Trees'[a][i] = Trees[a][i]
        <5> TAKE i \in 1 .. num
        <5>1. i \in 1 .. Kept(a)'
          BY <1>3, <4>2
        <5> QED
          BY <4>1, <4>2, <4>3, <5>1
      <4> QED
        BY <4>1, <4>2, <4>3, <4>4, <4>5
    <3>2. /\ Append(Trees[a], b) \in Seq(Nodes \union {None}) /\ Len(Append(Trees[a], b)) = num + 1
          /\ Append(Trees[a], b)[num + 1] = b
          /\ \A i \in 1 .. num : Append(Trees[a], b)[i] = Trees[a][i]
      BY <3>1
    <3>3. \A i \in 1 .. num + 1 : Trees'[a][i] = Append(Trees[a], b)[i]
      BY <3>1, <3>2
    <3> QED
      BY <3>1, <3>2, <3>3, SameSeq
  <2>7. Trees' = [Trees EXCEPT ![a] = Append(@, b)]
    <3>1. Trees' = [m \in DOMAIN node |-> Trees'[m]]
      BY <2>2 DEF Trees
    <3> QED
      BY <1>1, <2>5, <2>6, <3>1, TreesFunction
  <2>8. Doomed' = Doomed
    BY <1>1, <2>2 DEF Doomed
  <2> QED
    BY <1>1, <2>2, <2>7, <2>8, RootsAgree, TreesFunction
    DEF Abstract!Attach, Abstract!Idle, Abstract!Exists
<1>4. ASSUME NEW room \in Nat, NEW cells \in Seq(Nodes \union {None}), Len(cells) = room,
             ~(node[a].num < room), Store(a, b, cells, room)
      PROVE  Stop("fault")
  <2>1. node[a].num >= Len(cells)
    BY <1>4, AddBrCases
  <2> QED
    BY <1>4, <2>1 DEF Store
<1> QED
  BY <1>1, <1>2, <1>3, <1>4, AddBrCases DEF Abstract!Next

\* The end of a call drops a node without branches from the end of its parent's.
LEMMA DeleteEndStep ==
  ASSUME Inv, Reached, DeleteEnd
  PROVE  Abstract!Next
<1>1. PICK t \in DOMAIN node : t = calls[1].node
  BY EndFacts
<1>2. /\ calls # <<>> /\ calls' = Tail(calls) /\ status' = status /\ status = "run" /\ Kept(t) = 0
      /\ DOMAIN node' = DOMAIN node \ {t} /\ t \in Nodes /\ Len(calls) \in Nat \ {0}
  BY <1>1, EndFacts, CallFacts, NodeType DEF DeleteEnd, Inv
<1>3. Doomed # None /\ Doomed = Last(calls).node /\ Doomed \in DOMAIN node
  BY <1>2, DoomedFacts
<1>4. TreeSequences /\ TreeSequences'
  BY DeleteEndKeeps, TreesNow, TreesNext
<1>5. \A m \in DOMAIN node : Range(Trees[m]) = {Branch(m, i) : i \in 1 .. Kept(m)}
  BY TreeFacts
<1>6. t \in Abstract!Below(Doomed)
  <2>1. ASSUME NEW S \in SUBSET DOMAIN node, Doomed \in S, \A x \in S : Range(Trees[x]) \subseteq S
        PROVE  t \in S
    <3>1. \A x \in S : \A i \in 1 .. Kept(x) : Branch(x, i) \in S
      BY <1>5, <2>1
    <3>2. 1 \in DOMAIN calls
      BY <1>2, CallFacts
    <3> QED
      BY <1>1, <2>1, <3>1, <3>2 DEF Reached
  <2> QED
    BY <2>1, TreesFunction DEF Abstract!Below, Abstract!Exists, Abstract!Range, Range
<1>7. Trees[t] = <<>>
  BY <1>2, <1>4 DEF TreeSequences
<1>8. ASSUME NEW m \in DOMAIN node'
      PROVE  \/ /\ t \in Range(Trees[m]) /\ t = Trees[m][Len(Trees[m])]
                /\ Trees'[m] = SubSeq(Trees[m], 1, Len(Trees[m]) - 1)
             \/ t \notin Range(Trees[m]) /\ Trees'[m] = Trees[m]
  <2>1. /\ m \in DOMAIN node /\ m # t /\ Kept(m)' \in Nat /\ Kept(m) \in Nat
        /\ \A i \in 1 .. Kept(m)' : i \in 1 .. Kept(m) /\ Branch(m, i)' = Branch(m, i) /\ Branch(m, i) # t
        /\ \/ Kept(m) = Kept(m)' + 1 /\ Branch(m, Kept(m)) = t
           \/ Kept(m) = Kept(m)'
    BY <1>1, <1>2, <1>4, EndBranches DEF TreeSequences
  <2>2. /\ Trees[m] \in Seq(Nodes \union {None}) /\ Trees'[m] \in Seq(Nodes \union {None})
        /\ Len(Trees[m]) = Kept(m) /\ Len(Trees'[m]) = Kept(m)'
        /\ \A i \in 1 .. Kept(m) : Trees[m][i] = Branch(m, i)
        /\ \A i \in 1 .. Kept(m)' : Trees'[m][i] = Branch(m, i)'
    BY <1>4, <2>1 DEF TreeSequences
  <2>3. CASE Kept(m) = Kept(m)' + 1 /\ Branch(m, Kept(m)) = t
    <3>1. Kept(m) \in 1 .. Kept(m)
      BY <2>1, <2>3
    <3>2. t \in Range(Trees[m]) /\ t = Trees[m][Len(Trees[m])]
      BY <1>5, <2>1, <2>2, <2>3, <3>1
    <3> DEFINE left == SubSeq(Trees[m], 1, Len(Trees[m]) - 1)
    <3>3. /\ left \in Seq(Nodes \union {None}) /\ Len(left) = Kept(m)'
          /\ \A i \in 1 .. Kept(m)' : left[i] = Trees[m][i]
      BY <2>1, <2>2, <2>3
    <3> HIDE DEF left
    <3>4. Trees'[m] = left
      <4>1. Len(Trees'[m]) = Len(left) /\ \A i \in 1 .. Len(Trees'[m]) : Trees'[m][i] = left[i]
        BY <2>1, <2>2, <3>3
      <4> QED
        BY <2>2, <3>3, <4>1, SameSeq
    <3> QED
      BY <3>2, <3>4 DEF left
  <2>4. CASE Kept(m) = Kept(m)'
    <3>1. t \notin Range(Trees[m])
      BY <1>5, <2>1, <2>4
    <3>2. Trees'[m] = Trees[m]
      BY <2>1, <2>2, <2>4, SameSeq
    <3> QED
      BY <3>1, <3>2
  <2> QED
    BY <2>1, <2>3, <2>4
<1>9. Doomed' = IF t = Doomed THEN None ELSE Doomed
  <2>1. /\ Len(calls') = Len(calls) - 1 /\ DOMAIN calls' = 1 .. Len(calls) - 1
        /\ \A k \in 1 .. Len(calls) - 1 : calls'[k] = calls[k + 1] /\ k + 1 \in 2 .. Len(calls)
    BY <1>2, CallDone
  <2>2. CASE Len(calls) = 1
    <3>1. ~(2 \in 2 .. Len(calls))
      BY <2>2
    <3>2. calls' = <<>> /\ Doomed = t
      BY <1>1, <1>3, <2>2, <3>1, EndFacts DEF Last
    <3> QED
      BY <3>2 DEF Doomed
  <2>3. CASE Len(calls) # 1
    <3>1. 2 \in 2 .. Len(calls) /\ Len(calls) \in 1 .. Len(calls) /\ 1 \in 1 .. Len(calls)
      <4>1. Len(calls) \in Nat \ {0}
        BY <1>2
      <4> QED
        BY <2>3, <4>1
    <3>2. calls[Len(calls)].node # t
      BY <1>1, <1>2, <2>3, <3>1, CallFacts DEF Inv, Shape, Frames
    <3>3. Len(calls) - 1 \in 1 .. Len(calls) - 1 /\ (Len(calls) - 1) + 1 = Len(calls)
      BY <1>2, <3>1
    <3>4. Last(calls') = Last(calls) /\ calls' # <<>>
      BY <2>1, <3>1, <3>3, EndFacts DEF Last
    <3> QED
      BY <1>2, <1>3, <3>2, <3>4 DEF Doomed, Last
  <2> QED
    BY <2>2, <2>3
<1>10. Abstract!Drop(t)
  <2>1. Trees' = [m \in DOMAIN node \ {t} |-> Trees'[m]]
    BY <1>2 DEF Trees
  <2>2. \A m \in DOMAIN node \ {t} :
          Trees'[m] = IF t \in Range(Trees[m])
                      THEN SubSeq(Trees[m], 1, Len(Trees[m]) - 1) ELSE Trees[m]
    BY <1>2, <1>8
  <2>3. Trees' = [m \in DOMAIN node \ {t} |->
                    IF t \in Range(Trees[m])
                    THEN SubSeq(Trees[m], 1, Len(Trees[m]) - 1) ELSE Trees[m]]
    BY <2>1, <2>2
  <2>4. \A m \in DOMAIN node : t \in Range(Trees[m]) => t = Trees[m][Len(Trees[m])]
    <3>1. t \notin Range(Trees[t])
      BY <1>7 DEF Range
    <3> QED
      BY <1>2, <1>8, <3>1
  <2> QED
    BY <1>2, <1>3, <1>6, <1>7, <1>9, <2>3, <2>4, TreesFunction
    DEF Abstract!Drop, Abstract!Exists, Abstract!Range, Range
<1> QED
  BY <1>2, <1>10 DEF Abstract!Next

\* A step maps to a step of the forest or to none.
LEMMA ForestNext ==
  ASSUME Inv, Reached, [Next]_vars
  PROVE  Abstract!Next \/ UNCHANGED Abstract!vars
<1>1. CASE UNCHANGED vars
  BY <1>1, SameForest DEF vars, Abstract!vars
<1> QED
  BY <1>1, CreateStep, DeleteStep, DeleteBranchStep, DeleteEndStep, AddBrStep DEF Next

-----------------------------------------------------------------------------
(* The theorem. *)

\* Nodes and branches behave as a forest: adding keeps the older branches and their order,
\* deleting a root frees the nodes of its tree, each once, after its branches, and no
\* other node (lines 97-221); for every caller, the machine stopping where a branch would
\* lie outside of its block.
THEOREM Refinement == Spec => IsForest
<1>1. Init => Reached
  BY DEF Init, Reached
<1>2. Inv /\ Reached /\ [Next]_vars => Reached'
  BY ReachedNext
<1>3. Inv /\ Reached /\ [Next]_vars => [Abstract!Next]_(Abstract!vars)
  BY ForestNext
<1>4. Init => Abstract!Init
  BY ForestInit
<1> QED
  BY <1>1, <1>2, <1>3, <1>4, Invariant, PTL DEF Spec, IsForest, Abstract!Spec
=============================================================================
