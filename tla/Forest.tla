------------------------------- MODULE Forest -------------------------------
(***************************************************************************)
(* What the nodes of the Yulark syntax tree promise to the parser that     *)
(* builds them: a forest with ordered branches.  Deleting a tree removes   *)
(* exactly its nodes, branches before the node they hang from and the last *)
(* branch first.  Memory does not appear here; YuAst implements this       *)
(* module.                                                                 *)
(***************************************************************************)
EXTENDS Sequences, Integers, Functions

CONSTANTS
  Nodes,   \* names of nodes
  None     \* not a node

VARIABLES
  branches,  \* node -> its branches, for every node that exists
  doomed,    \* the root of the tree that is being deleted, or None
  status     \* "run", or how the machine stopped

vars == <<branches, doomed, status>>

Exists == DOMAIN branches
IsRoot(n) == n \in Exists /\ \A m \in Exists : n \notin Range(branches[m])

\* The nodes of the tree below n: those in every set that holds n and the branches
\* of its members.
Below(n) ==
  {m \in Exists : \A S \in SUBSET Exists :
     n \in S /\ (\A x \in S : Range(branches[x]) \subseteq S) => m \in S}

Init == branches = <<>> /\ doomed = None /\ status = "run"

Idle == status = "run" /\ doomed = None

New(n) ==
  /\ Idle /\ n \notin Exists
  /\ branches' = [m \in Exists \union {n} |-> IF m = n THEN <<>> ELSE branches[m]]
  /\ UNCHANGED <<doomed, status>>

Attach(a, b) ==
  /\ Idle /\ a \in Exists /\ IsRoot(b) /\ a \notin Below(b)
  /\ branches' = [branches EXCEPT ![a] = Append(@, b)]
  /\ UNCHANGED <<doomed, status>>

Delete(r) ==
  /\ Idle /\ IsRoot(r)
  /\ doomed' = r
  /\ UNCHANGED <<branches, status>>

\* A node without branches goes, from the end of its parent's.
Drop(n) ==
  LET IsLast(m) == n \in Range(branches[m]) => n = branches[m][Len(branches[m])]
      Without(m) == IF n \in Range(branches[m])
                    THEN SubSeq(branches[m], 1, Len(branches[m]) - 1) ELSE branches[m]
  IN  /\ status = "run" /\ doomed # None
      /\ n \in Below(doomed) /\ branches[n] = <<>>
      /\ \A m \in Exists : IsLast(m)
      /\ branches' = [m \in Exists \ {n} |-> Without(m)]
      /\ doomed' = IF n = doomed THEN None ELSE doomed
      /\ UNCHANGED status

\* No memory for a new node or branch, a branch that does not fit into its block, or
\* no room for another recursion.
Fail ==
  /\ status = "run"
  /\ status' \in IF doomed = None THEN {"memory", "fault"} ELSE {"rstkovf"}
  /\ UNCHANGED <<branches, doomed>>

Next ==
  \/ \E n \in Nodes : New(n) \/ Delete(n) \/ Drop(n)
  \/ \E a, b \in Nodes : Attach(a, b)
  \/ Fail

Spec == Init /\ [][Next]_vars
=============================================================================
