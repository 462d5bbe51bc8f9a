------------------------------- MODULE Values -------------------------------
(***************************************************************************)
(* What buffer objects promise to a program that copies, moves and assigns  *)
(* them: each is a value of its own.  What happens to one object never      *)
(* shows in another.  Memory does not appear here; Buffers implements this  *)
(* module.                                                                 *)
(***************************************************************************)
EXTENDS Sequences

CONSTANTS
  Objects,  \* names of objects
  Chars,    \* what buffers hold
  Gone      \* the value of an object that does not exist

VARIABLE val

Init == val = [o \in Objects |-> Gone]

Exists(o) == val[o] # Gone

New(o) == ~Exists(o) /\ val' = [val EXCEPT ![o] = <<>>]
Delete(o) == Exists(o) /\ val' = [val EXCEPT ![o] = Gone]

\* What read() does, and only read(): the object holds whatever came in.
Fill(o) == Exists(o) /\ val'[o] \in Seq(Chars) /\ val' = [val EXCEPT ![o] = val'[o]]

\* o is created from s or assigned it.  A move leaves s empty, also when s is o itself.
Copy(o, s) == Exists(s) /\ val' = [val EXCEPT ![o] = val[s]]
Move(o, s) == Exists(s) /\ val' = [val EXCEPT ![o] = val[s], ![s] = <<>>]

Next ==
  \/ \E o \in Objects : New(o) \/ Delete(o) \/ Fill(o)
  \/ \E o, s \in Objects : Copy(o, s) \/ Move(o, s)

Spec == Init /\ [][Next]_val
=============================================================================
