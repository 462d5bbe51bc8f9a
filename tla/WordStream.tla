----------------------------- MODULE WordStream -----------------------------
(***************************************************************************)
(* What the input of the FORTH interpreter promises to a program: the      *)
(* words of the input run one after the other, and a word that calls EVAL  *)
(* puts the words of the evaluated texts in front of the rest.  Characters *)
(* and buffers do not appear here; ForthInput implements this module.      *)
(***************************************************************************)
EXTENDS Sequences, Integers

VARIABLES
  todo,    \* the words still to run, each a sequence of characters
  expand,  \* word -> the words it evaluates; absent for any other word
  errors,  \* reads that have failed
  status   \* "running", "end" or "fail"

vars == <<todo, expand, errors, status>>

Init == status = "running" /\ errors = 0

\* The first word runs.
Run ==
  /\ status = "running" /\ todo # <<>>
  /\ todo' = (IF Head(todo) \in DOMAIN expand THEN expand[Head(todo)] ELSE <<>>)
               \o Tail(todo)
  /\ UNCHANGED <<expand, errors, status>>

\* A failing read cuts the word it interrupts in two, or passes between two words.
ReadFails ==
  /\ status = "running" /\ errors' = errors + 1
  /\ \/ UNCHANGED todo
     \/ /\ todo # <<>>
        /\ \E k \in 1 .. Len(Head(todo)) - 1 :
             todo' = <<SubSeq(Head(todo), 1, k), SubSeq(Head(todo), k + 1, Len(Head(todo)))>>
                       \o Tail(todo)
  /\ UNCHANGED <<expand, status>>

\* The machine ends when no word is left ...
End ==
  /\ status = "running" /\ todo = <<>>
  /\ status' = "end"
  /\ UNCHANGED <<todo, expand, errors>>

\* ... or it fails: the evaluations nest too deeply, or a read failed.
Fail ==
  /\ status = "running"
  /\ status' = "fail" /\ todo' = <<>> /\ errors' \in {errors, errors + 1}
  /\ UNCHANGED expand

Next == Run \/ ReadFails \/ End \/ Fail

Spec == Init /\ [][Next]_vars
=============================================================================
