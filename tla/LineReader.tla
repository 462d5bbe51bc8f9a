----------------------------- MODULE LineReader -----------------------------
(***************************************************************************)
(* What a TextInfile promises to its reader: the lines of a file, one after *)
(* the other and each once, and FALSE at the end.  Buffers and the          *)
(* file's descriptor do not appear here; TextInput implements this module.  *)
(*                                                                         *)
(* Two things the promise has to leave open.  A read that fails in the      *)
(* middle of a line loses what was read of it, and the next line delivered  *)
(* is the rest of that line.  A reader that is opened a second time may     *)
(* start anywhere when it has been read from before.                        *)
(***************************************************************************)
EXTENDS Sequences, Integers

CONSTANTS Newline

VARIABLES
  text,    \* the file
  rest,    \* what is still to be delivered
  line,    \* the line delivered last
  number,  \* the number of the next line
  busy,    \* whether a line has been asked for
  answer,  \* what the last call returned
  error,   \* whether something failed since the last open or close
  used     \* whether an open need not start at the beginning

vars == <<text, rest, line, number, busy, answer, error, used>>

Init ==
  /\ rest = <<>> /\ line = <<>> /\ number = 1
  /\ busy = FALSE /\ answer = TRUE /\ error = FALSE /\ used = FALSE

From(s, k) == SubSeq(s, k, Len(s))
Suffixes(s) == {From(s, k) : k \in 1 .. Len(s) + 1}
Prefixes(s) == {SubSeq(s, 1, k) : k \in 0 .. Len(s)}

Ends(s) == {k \in DOMAIN s : s[k] = Newline}
Broken(s) == {k \in 0 .. Len(s) : \A j \in 1 .. k : s[j] # Newline}

Open ==
  /\ ~busy
  /\ answer' \in BOOLEAN
  /\ IF answer' THEN /\ rest' \in {rest} \union (IF used THEN Suffixes(text) ELSE {text})
                     /\ error' \in {error, FALSE}
     ELSE UNCHANGED rest /\ error' = TRUE
  /\ UNCHANGED <<text, line, number, busy, used>>

\* Asking for the position may note an error, or forget one.
Tell ==
  /\ ~busy
  /\ error' \in BOOLEAN
  /\ UNCHANGED <<text, rest, line, number, busy, answer, used>>

\* A reader that is closed still delivers what it has read ahead.
Close ==
  /\ ~busy
  /\ rest' \in Prefixes(rest) /\ error' = FALSE
  /\ UNCHANGED <<text, line, number, busy, answer, used>>

Ask ==
  /\ ~busy
  /\ busy' = TRUE /\ line' = <<>>
  /\ UNCHANGED <<text, rest, number, answer, error, used>>

\* The next line, with its newline if it has one.
Deliver ==
  /\ busy /\ rest # <<>>
  /\ LET k == IF Ends(rest) = {} THEN Len(rest)
              ELSE CHOOSE j \in Ends(rest) : \A i \in Ends(rest) : j <= i
     IN  /\ line' = SubSeq(rest, 1, k)
         /\ rest' = From(rest, k + 1)
         /\ number' = IF Ends(rest) = {} THEN number ELSE number + 1
  /\ busy' = FALSE /\ answer' = TRUE
  /\ UNCHANGED <<text, error>> /\ used' \in BOOLEAN

End ==
  /\ busy /\ rest = <<>>
  /\ busy' = FALSE /\ answer' = FALSE
  /\ UNCHANGED <<text, rest, line, number, error>> /\ used' \in BOOLEAN

\* A read fails; the end of the file is not mistaken for it, nor it for the end.
Fail ==
  /\ busy
  /\ \E k \in Broken(rest) :
       /\ rest' = From(rest, k + 1)
       /\ line' = SubSeq(rest, 1, k)
  /\ busy' = FALSE /\ answer' = FALSE /\ error' = TRUE
  /\ UNCHANGED <<text, number>> /\ used' \in BOOLEAN

\* Reading ahead shows only in where a second open may start.
Ahead == UNCHANGED <<text, rest, line, number, busy, answer, error>> /\ used' \in BOOLEAN

Next == Open \/ Close \/ Tell \/ Ask \/ Deliver \/ End \/ Fail \/ Ahead

Spec == Init /\ [][Next]_vars
=============================================================================
