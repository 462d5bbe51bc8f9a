--------------------------- MODULE YuTroughProofs ---------------------------
(***************************************************************************)
(* The input of the Yulark engine keeps its order for every text, every    *)
(* size of the trough and of the ring, and every sequence of calls         *)
(* (YuTrough).                                                             *)
(***************************************************************************)
EXTENDS YuTrough, FiniteSetTheorems, TLAPS

\* A character of the text.
LEMMA TextChar ==
  ASSUME TypeOK, NEW i \in 1 .. Len(text)
  PROVE  text[i] \in Char
BY DEF TypeOK

\* The markers are not characters.
LEMMA Markers == EOF \notin Char /\ NUL \notin Char /\ LF \in Char
BY DEF EOF, NUL, LF, Char, Letter, Digit

\* What is read next is a character when there is one.
LEMMA NextIsChar ==
  ASSUME TypeOK
  PROVE  /\ NextChar \in Char \union {EOF}
         /\ NextChar = EOF <=> putback = EOF /\ at = Len(text)
<1>1. at \in 0 .. Len(text) /\ Len(text) \in Nat /\ putback \in Char \union {EOF}
  BY DEF TypeOK
<1>2. CASE putback # EOF
  BY <1>1, <1>2 DEF NextChar
<1>3. CASE putback = EOF /\ at < Len(text)
  <2>1. text[at + 1] \in Char
    BY <1>1, <1>3, TextChar
  <2> QED
    BY <2>1, <1>1, <1>3, Markers DEF NextChar
<1>4. CASE putback = EOF /\ at = Len(text)
  BY <1>1, <1>4 DEF NextChar
<1> QED
  BY <1>1, <1>2, <1>3, <1>4

-----------------------------------------------------------------------------
(* Types. *)

\* What RdCh leaves behind.
LEMMA RdChType ==
  ASSUME TypeOK, NEW pb \in Char \union {EOF}, RdCh(pb), UNCHANGED <<text, shown>>
  PROVE  /\ at' \in 0 .. Len(text') /\ putback' \in Char \union {EOF} /\ line' \in Nat
         /\ ring' \in [0 .. RingSize - 1 -> Char \union {NUL}]
         /\ rpos' \in 0 .. RingSize - 1 /\ wpos' \in 0 .. RingSize - 1
         /\ shown' \in 0 .. at'
<1>1. CASE putback # EOF \/ at = Len(text)
  BY <1>1 DEF RdCh, TypeOK
<1>2. CASE ~(putback # EOF \/ at = Len(text))
  <2>1. at \in 0 .. Len(text) /\ Len(text) \in Nat /\ at + 1 \in 1 .. Len(text)
    BY <1>2 DEF TypeOK
  <2>2. text[at + 1] \in Char
    BY <2>1, TextChar
  <2>3. RbPutch(text[at + 1]) /\ at' = at + 1 /\ putback' = pb
        /\ line' = IF text[at + 1] = LF THEN line + 1 ELSE line
    BY <1>2 DEF RdCh
  <2>4. /\ wpos \in 0 .. RingSize - 1 /\ rpos \in 0 .. RingSize - 1 /\ RingSize \in Nat \ {0, 1}
        /\ ring \in [0 .. RingSize - 1 -> Char \union {NUL}]
    BY SizeAssumption DEF TypeOK
  <2>5. \A p \in 0 .. RingSize - 1 : Up(p) \in 0 .. RingSize - 1
    BY <2>4 DEF Up
  <2>6. ring' \in [0 .. RingSize - 1 -> Char \union {NUL}]
    BY <2>2, <2>3, <2>4 DEF RbPutch
  <2>7. rpos' \in 0 .. RingSize - 1 /\ wpos' \in 0 .. RingSize - 1
    BY <2>3, <2>4, <2>5 DEF RbPutch
  <2>8. at' \in 0 .. Len(text') /\ line' \in Nat /\ shown' \in 0 .. at'
    BY <2>1, <2>3 DEF TypeOK
  <2> QED
    BY <2>3, <2>6, <2>7, <2>8
<1> QED
  BY <1>1, <1>2

\* What Chuck leaves behind: the rest of the trough has moved down.
LEMMA ChuckType ==
  ASSUME TypeOK, NEW n \in Nat, Chuck(n)
  PROVE  /\ trough' \in [0 .. UPB -> Char \union {NUL}] /\ fill' \in 0 .. UPB /\ done' \in Nat
<1> DEFINE m == IF n > fill THEN fill ELSE n
<1>1. m \in 0 .. fill /\ fill \in 0 .. UPB /\ UPB \in Nat /\ done \in Nat
  BY SizeAssumption DEF TypeOK
<1>2. trough' = [i \in 0 .. UPB |-> IF i <= fill - m THEN trough[i + m] ELSE trough[i]]
  BY DEF Chuck
<1>3. fill' = fill - m /\ done' = done + m
  BY DEF Chuck
<1>4. \A i \in 0 .. UPB : (IF i <= fill - m THEN trough[i + m] ELSE trough[i]) \in Char \union {NUL}
  BY <1>1 DEF TypeOK
<1> HIDE DEF m
<1> QED
  BY <1>1, <1>2, <1>3, <1>4

\* Every step keeps the types.
LEMMA TypeStep ==
  ASSUME TypeOK, [Next]_vars
  PROVE  TypeOK'
<1> USE DEF TypeOK, const, input, store, call, memory
<1>0. \A k \in {"ident", "white"} : k \in Kinds
  BY DEF Kinds
<1>1. ASSUME NEW kinds \in Seq(Kinds), Begin(kinds)
      PROVE  TypeOK'
  BY <1>1 DEF Begin, None
<1>2. CASE Eat
  BY <1>1, <1>2, CallAssumption DEF Eat
<1>3. CASE EatWhite
  <2>1. <<"white">> \in Seq(Kinds)
    BY <1>0
  <2> QED
    BY <1>1, <1>3, <2>1 DEF EatWhite
<1>4. CASE AskEmpty
  <2>1. <<>> \in Seq(Kinds)
    OBVIOUS
  <2> QED
    BY <1>1, <1>4, <2>1 DEF AskEmpty
<1>5. CASE Free
  BY <1>5 DEF Free
<1>6. CASE Exit
  BY <1>6 DEF Exit
<1>7. CASE MakeRegex
  BY <1>6, <1>7 DEF MakeRegex
<1>8. CASE FreeRegex
  BY <1>8 DEF FreeRegex
<1>9. CASE RbPrint
  BY <1>9 DEF RbPrint
<1>10. CASE Look
  <2>1. CASE trough[0] # NUL \/ NextChar = EOF
    <3>1. /\ phase' = AfterLook(trough[0] = NUL)
          /\ UNCHANGED <<const, input, done, late, base, trough, fill, todo, got, asked, shown>>
      BY <1>10, <2>1 DEF Look
    <3> QED
      BY <3>1 DEF AfterLook
  <2>2. CASE ~(trough[0] # NUL \/ NextChar = EOF)
    <3>1. /\ RdCh(IF NextChar = LF THEN EOF ELSE NextChar)
          /\ done' = IF NextChar = LF THEN done + 1 ELSE done
          /\ base' = done' /\ late' = (todo # asked) /\ phase' = "fill"
          /\ UNCHANGED <<const, trough, fill, todo, got, asked, shown>>
      BY <1>10, <2>2 DEF Look
    <3>2. (IF NextChar = LF THEN EOF ELSE NextChar) \in Char \union {EOF}
      BY NextIsChar
    <3>3. /\ at' \in 0 .. Len(text') /\ putback' \in Char \union {EOF} /\ line' \in Nat
          /\ ring' \in [0 .. RingSize - 1 -> Char \union {NUL}]
          /\ rpos' \in 0 .. RingSize - 1 /\ wpos' \in 0 .. RingSize - 1
          /\ shown' \in 0 .. at'
      BY <3>1, <3>2, RdChType
    <3> QED
      BY <3>1, <3>3
  <2> QED
    BY <2>1, <2>2
<1>11. CASE FillTrough
  <2>1. UNCHANGED <<const, done, todo, got, asked, late, base, shown>> /\ phase = "fill"
    BY <1>11 DEF FillTrough
  <2>2. CASE FillStops
    <3>1. FillEnds
      BY <1>11, <2>2 DEF FillTrough
    <3>2. NextChar \in Char \union {EOF}
      BY NextIsChar
    <3>3. /\ at' \in 0 .. Len(text') /\ putback' \in Char \union {EOF} /\ line' \in Nat
          /\ ring' \in [0 .. RingSize - 1 -> Char \union {NUL}]
          /\ rpos' \in 0 .. RingSize - 1 /\ wpos' \in 0 .. RingSize - 1
          /\ shown' \in 0 .. at'
      BY <2>1, <3>1, <3>2, RdChType DEF FillEnds
    <3>4. trough' \in [0 .. UPB -> Char \union {NUL}] /\ fill' \in 0 .. UPB
      BY <3>1 DEF FillEnds
    <3>5. phase' \in {"idle", "match", "space"} /\ (phase' \in {"match", "space"} => todo # <<>>)
      BY <3>1 DEF FillEnds, AfterLook
    <3> QED
      BY <2>1, <3>3, <3>4, <3>5
  <2>3. CASE ~FillStops
    <3>1. /\ RdCh(EOF) /\ trough' = [trough EXCEPT ![fill] = NextChar]
          /\ fill' = fill + 1 /\ phase' = phase
      BY <1>11, <2>3 DEF FillTrough
    <3>2. NextChar \in Char /\ fill < UPB
      BY <2>3, NextIsChar, SizeAssumption DEF FillStops
    <3>3. /\ at' \in 0 .. Len(text') /\ putback' \in Char \union {EOF} /\ line' \in Nat
          /\ ring' \in [0 .. RingSize - 1 -> Char \union {NUL}]
          /\ rpos' \in 0 .. RingSize - 1 /\ wpos' \in 0 .. RingSize - 1
          /\ shown' \in 0 .. at'
      BY <2>1, <3>1, RdChType
    <3>4. trough' \in [0 .. UPB -> Char \union {NUL}] /\ fill' \in 0 .. UPB
      BY <3>1, <3>2, SizeAssumption
    <3> QED
      BY <2>1, <3>1, <3>3, <3>4
  <2> QED
    BY <2>2, <2>3
<1>12. CASE EatSpace
  <2>1. CASE Exit
    BY <1>6, <2>1
  <2>2. CASE ~Exit
    <3>1. PICK n \in 0 .. fill :
            /\ Chuck(n) /\ phase' = "match"
            /\ UNCHANGED <<const, input, todo, got, asked, late, base, shown>>
      BY <1>12, <2>2 DEF EatSpace
    <3>2. n \in Nat
      OBVIOUS
    <3>3. trough' \in [0 .. UPB -> Char \union {NUL}] /\ fill' \in 0 .. UPB /\ done' \in Nat
      BY <3>1, <3>2, ChuckType
    <3> QED
      BY <1>12, <3>1, <3>3 DEF EatSpace
  <2> QED
    BY <2>1, <2>2
<1>13. CASE Match
  <2>1. CASE Exit
    BY <1>6, <2>1
  <2>2. CASE Miss
    BY <1>13, <2>2 DEF Miss, Match
  <2>3. CASE ~Exit /\ ~Miss
    <3>1. PICK n \in 1 .. fill :
            /\ got' = [kind |-> Head(todo), from |-> done, len |-> n] /\ phase' = "bite"
            /\ UNCHANGED <<const, input, store, todo, asked, late, base, shown>>
      BY <1>13, <2>3 DEF Match
    <3>2. todo # <<>> /\ Head(todo) \in Kinds
      BY <1>13 DEF Match
    <3> QED
      BY <3>1, <3>2
  <2> QED
    BY <2>1, <2>2, <2>3
<1>14. CASE Bite
  <2>1. CASE Exit
    BY <1>6, <2>1
  <2>2. CASE ~Exit
    <3>1. /\ Chuck(got.len) /\ todo' = <<>> /\ phase' = "idle"
          /\ UNCHANGED <<const, input, got, asked, late, base, shown>>
      BY <1>14, <2>2 DEF Bite
    <3>2. trough' \in [0 .. UPB -> Char \union {NUL}] /\ fill' \in 0 .. UPB /\ done' \in Nat
      BY <3>1, ChuckType
    <3> QED
      BY <3>1, <3>2
  <2> QED
    BY <2>1, <2>2
<1>15. CASE UNCHANGED vars
  BY <1>15 DEF vars
<1> QED
  BY <1>2, <1>3, <1>4, <1>5, <1>7, <1>8, <1>9, <1>10, <1>11, <1>12, <1>13, <1>14, <1>15
  DEF Next

\* The trough starts within them.
LEMMA TypeInit ==
  ASSUME Init
  PROVE  TypeOK
<1>1. text \in Seq(Char) /\ tty \in BOOLEAN
  BY TextAssumption DEF Init
<1>2. at \in 0 .. Len(text) /\ done \in Nat /\ putback \in Char \union {EOF} /\ line \in Nat
  BY <1>1 DEF Init
<1>3. /\ ring \in [0 .. RingSize - 1 -> Char \union {NUL}]
      /\ rpos \in 0 .. RingSize - 1 /\ wpos \in 0 .. RingSize - 1
      /\ trough \in [0 .. UPB -> Char \union {NUL}] /\ fill \in 0 .. UPB
  BY SizeAssumption DEF Init
<1>4. phase = "idle" /\ todo \in Seq(Kinds) /\ asked \in Seq(Kinds)
  BY DEF Init
<1>5. got \in [kind : Kinds \union {"none"}, from : Nat, len : Nat]
  <2>1. got = [kind |-> "none", from |-> 0, len |-> 0]
    BY DEF Init, None
  <2> QED
    BY <2>1
<1>6. late \in BOOLEAN
  BY Zenon DEF Init
<1>7. base \in Nat /\ shown \in 0 .. at
  BY DEF Init
<1> QED
  BY <1>1, <1>2, <1>3, <1>4, <1>5, <1>6, <1>7 DEF TypeOK

\* The indices of the ring and of the trough stay inside, the trough has room for its
\* NUL, and a word that matches or eats has a kind to try, for every sequence of calls
\* (YU-RB-PUTCH, YU-FILL-TROUGH, YU-CHUCK).
THEOREM TypeTheorem == Spec => []TypeOK
<1> QED
  BY TypeInit, TypeStep, PTL DEF Spec

-----------------------------------------------------------------------------
(* The order of the characters. *)

\* What InOrder is about.
Channel == <<text, at, putback, done, trough, fill>>

\* The order of the blocks depends on these variables only.
LEMMA OrderKept ==
  ASSUME InOrder, UNCHANGED Channel, phase' # "fill" => phase # "fill"
  PROVE  InOrder'
BY DEF InOrder, Channel

\* In the trough are characters of the text, so that its first byte tells whether it is
\* empty.
LEMMA EmptyMeansNone ==
  ASSUME TypeOK, InOrder, trough[0] = NUL
  PROVE  fill = 0
<1> SUFFICES ASSUME fill # 0
             PROVE  FALSE
  OBVIOUS
<1>1. /\ fill \in Nat /\ done \in Nat /\ at \in 0 .. Len(text) /\ Len(text) \in Nat
      /\ putback \in Char \union {EOF}
  BY SizeAssumption DEF TypeOK
<1>2. 0 \in 0 .. fill - 1
  BY <1>1
<1>3. trough[0] = text[done + 1]
  BY <1>1, <1>2 DEF InOrder
<1>4. done + 1 <= at
  BY <1>1 DEF InOrder
<1>5. text[done + 1] \in Char
  BY <1>1, <1>4, TextChar
<1> QED
  BY <1>3, <1>5, Markers

\* YU-CHUCK takes characters off the front.
LEMMA ChuckOrder ==
  ASSUME TypeOK, InOrder, phase # "fill", NEW n \in Nat, Chuck(n),
         UNCHANGED <<text, at, putback>>
  PROVE  InOrder'
<1> DEFINE m == IF n > fill THEN fill ELSE n
<1>1. m \in 0 .. fill /\ fill \in 0 .. UPB /\ UPB \in Nat /\ done \in Nat
  BY SizeAssumption DEF TypeOK
<1>2. trough' = [i \in 0 .. UPB |-> IF i <= fill - m THEN trough[i + m] ELSE trough[i]]
  BY DEF Chuck
<1>3. fill' = fill - m /\ done' = done + m
  BY DEF Chuck
<1> HIDE DEF m
<1>4. m \in Nat /\ fill \in Nat /\ m <= fill /\ fill <= UPB
  BY <1>1
<1>5. at' = done' + fill' + (IF putback' = EOF THEN 0 ELSE 1)
  BY <1>1, <1>3, <1>4 DEF InOrder
<1>6. putback' # EOF => putback' = text'[at']
  BY DEF InOrder
<1>7. ASSUME NEW i \in 0 .. fill' - 1
      PROVE  trough'[i] = text'[done' + i + 1]
  <2>1. i \in Nat /\ i + m \in 0 .. fill - 1 /\ i \in 0 .. UPB /\ i <= fill - m
    BY <1>1, <1>3, <1>4
  <2>2. trough'[i] = trough[i + m]
    BY <1>2, <2>1
  <2>3. trough[i + m] = text[done + (i + m) + 1]
    BY <2>1 DEF InOrder
  <2>4. done + (i + m) + 1 = done' + i + 1
    BY <1>1, <1>3, <1>4, <2>1
  <2> QED
    BY <2>2, <2>3, <2>4
<1>8. trough'[fill'] = NUL
  <2>1. trough'[fill'] = trough[fill' + m]
    BY <1>1, <1>2, <1>3, <1>4
  <2>2. fill' + m = fill
    BY <1>3, <1>4
  <2> QED
    BY <2>1, <2>2 DEF InOrder
<1> QED
  BY <1>5, <1>6, <1>7, <1>8 DEF InOrder

\* ?YU-TROUGH-EMPTY: the first character of a new line is put back, or dropped when it
\* is the line feed that ended the last one.
LEMMA LookOrder ==
  ASSUME TypeOK, InOrder, Look
  PROVE  InOrder'
<1>1. phase = "look" /\ UNCHANGED <<text, trough, fill>>
  BY DEF Look, const
<1>2. CASE trough[0] # NUL \/ NextChar = EOF
  <2>1. UNCHANGED Channel
    BY <1>1, <1>2 DEF Look, Channel, input
  <2> QED
    BY <1>1, <2>1, OrderKept
<1>3. CASE ~(trough[0] # NUL \/ NextChar = EOF)
  <2>1. fill = 0
    BY <1>3, EmptyMeansNone
  <2>2. /\ RdCh(IF NextChar = LF THEN EOF ELSE NextChar)
        /\ done' = IF NextChar = LF THEN done + 1 ELSE done
        /\ phase' = "fill"
    BY <1>3 DEF Look
  <2>3. /\ at \in 0 .. Len(text) /\ Len(text) \in Nat /\ done \in Nat
        /\ NextChar \in Char
    BY <1>3, NextIsChar DEF TypeOK
  <2>4. at' = at + (IF putback = EOF THEN 1 ELSE 0)
    BY <1>3, <2>2, <2>3, NextIsChar DEF RdCh
  <2>5. putback' = IF NextChar = LF THEN EOF ELSE NextChar
    BY <2>2 DEF RdCh
  <2>6. NextChar = text[at']
    <3>1. CASE putback # EOF
      BY <2>3, <2>4, <3>1 DEF NextChar, InOrder
    <3>2. CASE putback = EOF
      <4>1. at < Len(text)
        BY <1>3, <2>3, <3>2, NextIsChar
      <4> QED
        BY <2>3, <2>4, <3>2, <4>1 DEF NextChar
    <3> QED
      BY <3>1, <3>2
  <2>7. at' = done + 1
    BY <2>1, <2>3, <2>4 DEF InOrder
  <2>8. at' = done' + fill' + (IF putback' = EOF THEN 0 ELSE 1)
    BY <1>1, <2>1, <2>2, <2>3, <2>5, <2>7, Markers
  <2> QED
    BY <1>1, <2>1, <2>2, <2>5, <2>6, <2>8 DEF InOrder
<1> QED
  BY <1>2, <1>3

\* YU-FILL-TROUGH: a character goes from the input into the trough, or is put back.
LEMMA FillOrder ==
  ASSUME TypeOK, InOrder, FillTrough
  PROVE  InOrder'
<1>1. phase = "fill" /\ UNCHANGED <<text, done>>
  BY DEF FillTrough, const
<1>2. /\ at \in 0 .. Len(text) /\ Len(text) \in Nat /\ done \in Nat /\ fill \in 0 .. UPB
      /\ UPB \in Nat /\ trough \in [0 .. UPB -> Char \union {NUL}]
  BY SizeAssumption DEF TypeOK
<1>3. NextChar # EOF => at' = (IF putback = EOF THEN at + 1 ELSE at) /\ NextChar = text[at']
  <2> SUFFICES ASSUME NextChar # EOF
               PROVE  at' = (IF putback = EOF THEN at + 1 ELSE at) /\ NextChar = text[at']
    OBVIOUS
  <2>1. at' = IF putback = EOF THEN at + 1 ELSE at
    BY <1>2, NextIsChar DEF FillTrough, FillEnds, RdCh
  <2>2. CASE putback # EOF
    BY <2>1, <2>2 DEF NextChar, InOrder
  <2>3. CASE putback = EOF
    <3>1. at < Len(text)
      BY <1>2, <2>3, NextIsChar
    <3> QED
      BY <2>1, <2>3, <3>1 DEF NextChar
  <2> QED
    BY <2>1, <2>2, <2>3
<1>4. CASE FillStops
  <2>1. FillEnds
    BY <1>4 DEF FillTrough
  <2>2. /\ putback' = NextChar /\ trough' = [trough EXCEPT ![fill] = NUL] /\ fill' = fill
    BY <2>1 DEF FillEnds, RdCh
  <2>3. \A i \in 0 .. fill' - 1 : trough'[i] = text'[done' + i + 1]
    BY <1>1, <1>2, <2>2 DEF InOrder
  <2>4. trough'[fill'] = NUL
    BY <1>2, <2>2
  <2>5. CASE NextChar # EOF
    <3>1. at' = done + fill + 1
      BY <1>2, <1>3, <2>5 DEF InOrder
    <3> QED
      BY <1>1, <1>2, <1>3, <2>2, <2>3, <2>4, <2>5, <3>1 DEF InOrder
  <2>6. CASE NextChar = EOF
    <3>1. putback = EOF /\ at = Len(text)
      BY <2>6, NextIsChar
    <3>2. at' = at
      BY <2>1, <3>1 DEF FillEnds, RdCh
    <3> QED
      BY <1>1, <1>2, <2>2, <2>3, <2>4, <2>6, <3>1, <3>2 DEF InOrder
  <2> QED
    BY <2>5, <2>6
<1>5. CASE ~FillStops
  <2>1. /\ putback' = EOF /\ trough' = [trough EXCEPT ![fill] = NextChar]
        /\ fill' = fill + 1 /\ phase' = "fill"
    BY <1>1, <1>5 DEF FillTrough, RdCh
  <2>2. NextChar # EOF /\ fill < UPB
    BY <1>2, <1>5 DEF FillStops
  <2>3. at' = done + fill + 1
    BY <1>2, <1>3, <2>2 DEF InOrder
  <2>4. ASSUME NEW i \in 0 .. fill' - 1
        PROVE  trough'[i] = text'[done' + i + 1]
    <3>1. CASE i = fill
      BY <1>1, <1>2, <1>3, <2>1, <2>2, <2>3, <3>1
    <3>2. CASE i # fill
      <4>1. i \in 0 .. fill - 1 /\ i \in 0 .. UPB
        BY <1>2, <2>1, <3>2
      <4> QED
        BY <1>1, <1>2, <2>1, <3>2, <4>1 DEF InOrder
    <3> QED
      BY <3>1, <3>2
  <2> QED
    BY <1>1, <1>2, <2>1, <2>3, <2>4 DEF InOrder
<1> QED
  BY <1>4, <1>5

\* Every step keeps the order of the blocks.
LEMMA OrderStep ==
  ASSUME TypeOK, InOrder, [Next]_vars
  PROVE  InOrder'
<1> USE DEF const, input, store, call, memory, Channel
<1>1. ASSUME NEW kinds, Begin(kinds)
      PROVE  InOrder'
  BY <1>1, OrderKept DEF Begin
<1>2. CASE Eat \/ EatWhite \/ AskEmpty
  BY <1>1, <1>2 DEF Eat, EatWhite, AskEmpty
<1>3. ASSUME Exit, phase # "fill"
      PROVE  InOrder'
  BY <1>3, OrderKept DEF Exit
<1>4. CASE Free \/ FreeRegex \/ RbPrint
  BY <1>4, OrderKept DEF Free, FreeRegex, RbPrint
<1>5. CASE MakeRegex
  <2>1. phase = "idle"
    BY <1>5 DEF MakeRegex
  <2>2. CASE Exit
    BY <1>3, <2>1, <2>2
  <2>3. CASE ~Exit
    BY <1>5, <2>1, <2>3, OrderKept DEF MakeRegex
  <2> QED
    BY <2>2, <2>3
<1>6. CASE Look
  BY <1>6, LookOrder
<1>7. CASE FillTrough
  BY <1>7, FillOrder
<1>8. CASE EatSpace
  <2>1. CASE Exit
    BY <1>3, <1>8, <2>1 DEF EatSpace
  <2>2. CASE ~Exit
    <3>1. PICK n \in 0 .. fill : Chuck(n) /\ UNCHANGED <<text, at, putback>> /\ phase = "space"
      BY <1>8, <2>2 DEF EatSpace
    <3>2. n \in Nat
      BY SizeAssumption DEF TypeOK
    <3> QED
      BY <3>1, <3>2, ChuckOrder
  <2> QED
    BY <2>1, <2>2
<1>9. CASE Match
  <2>1. CASE Exit
    BY <1>3, <1>9, <2>1 DEF Match
  <2>2. CASE ~Exit
    <3>1. UNCHANGED Channel /\ phase = "match"
      BY <1>9, <2>2 DEF Match, Miss
    <3> QED
      BY <3>1, OrderKept
  <2> QED
    BY <2>1, <2>2
<1>10. CASE Bite
  <2>1. CASE Exit
    BY <1>3, <1>10, <2>1 DEF Bite
  <2>2. CASE ~Exit
    <3>1. Chuck(got.len) /\ UNCHANGED <<text, at, putback>> /\ phase = "bite"
      BY <1>10, <2>2 DEF Bite
    <3>2. got.len \in Nat
      BY DEF TypeOK
    <3> QED
      BY <3>1, <3>2, ChuckOrder
  <2> QED
    BY <2>1, <2>2
<1>11. CASE UNCHANGED vars
  BY <1>11, OrderKept DEF vars
<1> QED
  BY <1>2, <1>4, <1>5, <1>6, <1>7, <1>8, <1>9, <1>10, <1>11 DEF Next

\* A trough without blocks is in order.
LEMMA OrderInit ==
  ASSUME Init
  PROVE  InOrder
<1>1. at = 0 /\ done = 0 /\ fill = 0 /\ putback = EOF /\ trough = [i \in 0 .. UPB |-> NUL]
  BY DEF Init
<1>2. trough[0] = NUL
  BY <1>1, SizeAssumption
<1> QED
  BY <1>1, <1>2 DEF InOrder

\* The characters that were read and are not yet eaten are in the trough and in the
\* variable of the character put back, in order and each once (YU-FILL-TROUGH,
\* ?YU-TROUGH-EMPTY, YU-CHUCK, YU-CHOMP).
THEOREM OrderTheorem == Spec => []InOrder
<1>1. Init => TypeOK /\ InOrder
  BY TypeInit, OrderInit
<1>2. TypeOK /\ InOrder /\ [Next]_vars => TypeOK' /\ InOrder'
  BY TypeStep, OrderStep
<1> QED
  BY <1>1, <1>2, PTL DEF Spec

-----------------------------------------------------------------------------
(* The ring buffer. *)

\* Reading is the only thing that moves the end of the ring: everything else leaves the
\* variables of RingIsRecent alone.
Ring == <<text, at, ring, rpos, wpos, shown>>

\* The ring depends on these variables only.
LEMMA RingKept ==
  ASSUME RingIsRecent, UNCHANGED Ring
  PROVE  RingIsRecent'
BY DEF RingIsRecent, Ring, Kept, Back

\* YU-RB-PUTCH: the oldest character makes room when the ring is full.
LEMMA PutchRing ==
  ASSUME TypeOK, RingIsRecent, at < Len(text), RbPutch(text[at + 1]), at' = at + 1,
         UNCHANGED <<text, shown>>
  PROVE  RingIsRecent'
<1>1. /\ RingSize \in Nat /\ RingSize >= 2 /\ at \in Nat /\ shown \in 0 .. at
      /\ wpos \in 0 .. RingSize - 1 /\ rpos \in 0 .. RingSize - 1
      /\ ring \in [0 .. RingSize - 1 -> Char \union {NUL}]
  BY SizeAssumption DEF TypeOK
<1>2. /\ ring' = [ring EXCEPT ![wpos] = text[at + 1]]
      /\ wpos' = Up(wpos)
      /\ rpos' = IF Up(wpos) = rpos THEN Up(rpos) ELSE rpos
  BY DEF RbPutch
<1>3. /\ Kept \in 0 .. RingSize - 1
      /\ Kept' = IF Kept < RingSize - 1 THEN Kept + 1 ELSE Kept
  BY <1>1 DEF Kept
<1>4. \A i \in 1 .. RingSize - 1 : Back(i)' = Back(i - 1)
  BY <1>1, <1>2 DEF Back, Up
<1>5. \A i \in 1 .. RingSize - 1 : Back(i) \in 0 .. RingSize - 1 /\ Back(i) # wpos
  BY <1>1 DEF Back
<1>6. Back(0) = wpos
  BY <1>1 DEF Back
<1>7. rpos' = IF wpos' >= Kept' THEN wpos' - Kept' ELSE wpos' - Kept' + RingSize
  <2>1. rpos = IF wpos >= Kept THEN wpos - Kept ELSE wpos - Kept + RingSize
    BY DEF RingIsRecent, Back
  <2>2. CASE Kept < RingSize - 1
    BY <1>1, <1>2, <1>3, <2>1, <2>2 DEF Up
  <2>3. CASE Kept = RingSize - 1
    BY <1>1, <1>2, <1>3, <2>1, <2>3 DEF Up
  <2> QED
    BY <1>1, <1>3, <2>2, <2>3
<1>8. ASSUME NEW i \in 1 .. Kept'
      PROVE  ring'[Back(i)'] = text'[at' - i + 1]
  <2>1. i \in 1 .. RingSize - 1 /\ i \in Nat
    BY <1>1, <1>3
  <2>2. CASE i = 1
    <3>1. Back(i)' = wpos
      BY <1>4, <1>6, <2>1, <2>2
    <3>2. at' - i + 1 = at + 1
      BY <1>1, <2>2
    <3> QED
      BY <1>1, <1>2, <3>1, <3>2
  <2>3. CASE i # 1
    <3>1. i - 1 \in 1 .. Kept /\ i - 1 \in 1 .. RingSize - 1
      BY <1>1, <1>3, <2>1, <2>3
    <3>2. Back(i)' = Back(i - 1)
      BY <1>4, <2>1
    <3>3. ring'[Back(i - 1)] = ring[Back(i - 1)]
      BY <1>1, <1>2, <1>5, <3>1
    <3>4. ring[Back(i - 1)] = text[at - (i - 1) + 1]
      BY <3>1 DEF RingIsRecent
    <3>5. at - (i - 1) + 1 = at' - i + 1
      BY <1>1, <2>1
    <3> QED
      BY <3>2, <3>3, <3>4, <3>5
  <2> QED
    BY <2>2, <2>3
<1> QED
  BY <1>7, <1>8 DEF RingIsRecent, Back

\* YU-RDCH records what it reads, and does not record again what was put back.
LEMMA RdChRing ==
  ASSUME TypeOK, RingIsRecent, NEW pb, RdCh(pb), UNCHANGED <<text, shown>>
  PROVE  RingIsRecent'
<1>1. CASE putback # EOF \/ at = Len(text)
  BY <1>1, RingKept DEF RdCh, Ring
<1>2. CASE ~(putback # EOF \/ at = Len(text))
  <2>1. at < Len(text) /\ RbPutch(text[at + 1]) /\ at' = at + 1
    BY <1>2 DEF RdCh, TypeOK
  <2> QED
    BY <2>1, PutchRing
<1> QED
  BY <1>1, <1>2

\* Every step keeps the ring.
LEMMA RingStep ==
  ASSUME TypeOK, RingIsRecent, [Next]_vars
  PROVE  RingIsRecent'
<1> USE DEF const, input, store, call, memory
<1>1. CASE RbPrint
  <2>1. rpos' = wpos /\ shown' = at /\ UNCHANGED <<text, at, ring, wpos>>
    BY <1>1 DEF RbPrint
  <2>2. at \in Nat /\ wpos \in Nat /\ RingSize \in Nat /\ RingSize >= 2
    BY SizeAssumption DEF TypeOK
  <2>3. Kept' = 0
    BY <2>1, <2>2 DEF Kept
  <2>4. Back(0)' = wpos
    BY <2>1, <2>2 DEF Back
  <2> QED
    BY <2>1, <2>3, <2>4 DEF RingIsRecent
<1>2. CASE Look
  <2>1. CASE trough[0] # NUL \/ NextChar = EOF
    BY <1>2, <2>1, RingKept DEF Look, Ring
  <2>2. CASE ~(trough[0] # NUL \/ NextChar = EOF)
    BY <1>2, <2>2, RdChRing DEF Look
  <2> QED
    BY <2>1, <2>2
<1>3. CASE FillTrough
  <2>1. CASE FillStops
    BY <1>3, <2>1, RdChRing DEF FillTrough, FillEnds
  <2>2. CASE ~FillStops
    BY <1>3, <2>2, RdChRing DEF FillTrough
  <2> QED
    BY <2>1, <2>2
<1>4. CASE Eat \/ EatWhite \/ AskEmpty
  BY <1>4, RingKept DEF Eat, EatWhite, AskEmpty, Begin, Ring
<1>5. CASE Free \/ MakeRegex \/ FreeRegex
  BY <1>5, RingKept DEF Free, MakeRegex, FreeRegex, Exit, Ring
<1>6. CASE EatSpace \/ Match \/ Bite
  BY <1>6, RingKept DEF EatSpace, Match, Miss, Bite, Exit, Ring
<1>7. CASE UNCHANGED vars
  BY <1>7, RingKept DEF vars, Ring
<1> QED
  BY <1>1, <1>2, <1>3, <1>4, <1>5, <1>6, <1>7 DEF Next

\* The ring starts empty.
LEMMA RingInit ==
  ASSUME Init
  PROVE  RingIsRecent
<1>1. at = 0 /\ shown = 0 /\ rpos = 0 /\ wpos = 0 /\ RingSize \in Nat /\ RingSize >= 2
  BY SizeAssumption DEF Init
<1>2. Kept = 0 /\ Back(0) = 0
  BY <1>1 DEF Kept, Back
<1> QED
  BY <1>1, <1>2 DEF RingIsRecent

\* Whatever the size of the ring, it holds the characters read last, in order: a full
\* ring loses the oldest one and is never taken for an empty one (YU-RB-PUTCH), and
\* characters that were put back are recorded once (YU-RDCH).
THEOREM RingTheorem == Spec => []RingIsRecent
<1>1. Init => TypeOK /\ RingIsRecent
  BY TypeInit, RingInit
<1>2. TypeOK /\ RingIsRecent /\ [Next]_vars => TypeOK' /\ RingIsRecent'
  BY TypeStep, RingStep
<1> QED
  BY <1>1, <1>2, PTL DEF Spec

-----------------------------------------------------------------------------
(* The line number. *)

Feeds == {i \in 1 .. at : text[i] = LF}

\* A text has finitely many line feeds.
LEMMA FeedsFinite ==
  ASSUME TypeOK
  PROVE  IsFiniteSet(Feeds)
<1>1. at \in Int
  BY DEF TypeOK
<1>2. IsFiniteSet(1 .. at)
  BY <1>1, FS_Interval
<1> QED
  BY <1>2, FS_Subset DEF Feeds

\* YU-RDCH counts a line feed when it comes from the input.
LEMMA RdChLines ==
  ASSUME TypeOK, LinesCounted, NEW pb, RdCh(pb), UNCHANGED text
  PROVE  LinesCounted'
<1>1. LinesCounted <=> line = Cardinality(Feeds)
  BY DEF LinesCounted, Feeds
<1>2. LinesCounted' <=> line' = Cardinality(Feeds')
  BY DEF LinesCounted, Feeds
<1>3. CASE putback # EOF \/ at = Len(text)
  <2>1. line' = line /\ Feeds' = Feeds
    BY <1>3 DEF RdCh, Feeds
  <2> QED
    BY <1>1, <1>2, <2>1
<1>4. CASE ~(putback # EOF \/ at = Len(text))
  <2>1. at' = at + 1 /\ line' = (IF text[at + 1] = LF THEN line + 1 ELSE line) /\ at \in Nat
    BY <1>4 DEF RdCh, TypeOK
  <2>2. CASE text[at + 1] = LF
    <3>1. Feeds' = Feeds \union {at + 1} /\ at + 1 \notin Feeds
      BY <2>1, <2>2 DEF Feeds
    <3>2. Cardinality(Feeds \union {at + 1}) = Cardinality(Feeds) + 1
      BY <3>1, FeedsFinite, FS_AddElement
    <3> QED
      BY <1>1, <1>2, <2>1, <2>2, <3>1, <3>2
  <2>3. CASE text[at + 1] # LF
    <3>1. Feeds' = Feeds
      BY <2>1, <2>3 DEF Feeds
    <3> QED
      BY <1>1, <1>2, <2>1, <2>3, <3>1
  <2> QED
    BY <2>2, <2>3
<1> QED
  BY <1>3, <1>4

\* The count of the lines depends on these variables only.
LEMMA LinesKept ==
  ASSUME LinesCounted, UNCHANGED <<text, at, line>>
  PROVE  LinesCounted'
BY DEF LinesCounted

\* Every step keeps the count of the lines.
LEMMA LinesStep ==
  ASSUME TypeOK, LinesCounted, [Next]_vars
  PROVE  LinesCounted'
<1> USE DEF const, input, store, call, memory
<1>1. CASE Look
  <2>1. CASE trough[0] # NUL \/ NextChar = EOF
    BY <1>1, <2>1, LinesKept DEF Look
  <2>2. CASE ~(trough[0] # NUL \/ NextChar = EOF)
    BY <1>1, <2>2, RdChLines DEF Look
  <2> QED
    BY <2>1, <2>2
<1>2. CASE FillTrough
  <2>1. CASE FillStops
    BY <1>2, <2>1, RdChLines DEF FillTrough, FillEnds
  <2>2. CASE ~FillStops
    BY <1>2, <2>2, RdChLines DEF FillTrough
  <2> QED
    BY <2>1, <2>2
<1>3. CASE Eat \/ EatWhite \/ AskEmpty
  BY <1>3, LinesKept DEF Eat, EatWhite, AskEmpty, Begin
<1>4. CASE Free \/ MakeRegex \/ FreeRegex \/ RbPrint
  BY <1>4, LinesKept DEF Free, MakeRegex, FreeRegex, RbPrint, Exit
<1>5. CASE EatSpace \/ Match \/ Bite
  BY <1>5, LinesKept DEF EatSpace, Match, Miss, Bite, Exit
<1>6. CASE UNCHANGED vars
  BY <1>6, LinesKept DEF vars
<1> QED
  BY <1>1, <1>2, <1>3, <1>4, <1>5, <1>6 DEF Next

\* No line is read at first.
LEMMA LinesInit ==
  ASSUME Init
  PROVE  LinesCounted
<1>1. at = 0 /\ line = 0
  BY DEF Init
<1>2. {i \in 1 .. at : text[i] = LF} = {}
  BY <1>1
<1> QED
  BY <1>1, <1>2, FS_EmptySet DEF LinesCounted

\* The line number is that of the last character read: a line feed that was put back
\* and read again is counted once (YU-RDCH, ?YU-TROUGH-EMPTY).
THEOREM LinesTheorem == Spec => []LinesCounted
<1>1. Init => TypeOK /\ LinesCounted
  BY TypeInit, LinesInit
<1>2. TypeOK /\ LinesCounted /\ [Next]_vars => TypeOK' /\ LinesCounted'
  BY TypeStep, LinesStep
<1> QED
  BY <1>1, <1>2, PTL DEF Spec

-----------------------------------------------------------------------------
(* The heap blocks. *)

\* OnlyMatchesLeak with the types of what it counts.
Blocks == [reinfo : Int, pattern : Int, matches : Int, result : Int, string : Int]
Counts ==
  /\ heap \in Blocks
  /\ held \in Int /\ made \in Int

\* A match leaves one array that is lost and one result that its caller has to free.
LEMMA MatchedBlocks ==
  ASSUME Counts
  PROVE  /\ Matched \in Blocks
         /\ Matched.result = heap.result + 1 /\ Matched.string = heap.string
         /\ Matched.reinfo = heap.reinfo /\ Matched.pattern = heap.pattern
<1>1. Lose(heap.matches) \in Int
  BY SizeAssumption DEF Lose, Counts, Blocks
<1>2. heap \in Blocks /\ heap.result + 1 \in Int
  BY DEF Counts, Blocks
<1>3. Matched \in Blocks
  BY <1>1, <1>2 DEF Matched, Blocks
<1>4. Matched.result = heap.result + 1
  BY <1>2 DEF Matched, Blocks
<1>5. Matched.string = heap.string
  BY <1>2 DEF Matched, Blocks
<1>6. Matched.reinfo = heap.reinfo
  BY <1>2 DEF Matched, Blocks
<1>7. Matched.pattern = heap.pattern
  BY <1>2 DEF Matched, Blocks
<1> QED
  BY <1>3, <1>4, <1>5, <1>6, <1>7

\* The count of results alone.
LEMMA ResultCount ==
  ASSUME NEW h \in Blocks, NEW m \in Int, NEW g, g = [h EXCEPT !.result = m]
  PROVE  /\ g \in Blocks /\ g.result = m /\ g.string = h.string
         /\ g.reinfo = h.reinfo /\ g.pattern = h.pattern
<1>1. g \in Blocks /\ g.result = m
  BY DEF Blocks
<1>2. g.string = h.string
  BY DEF Blocks
<1>3. g.reinfo = h.reinfo
  BY DEF Blocks
<1>4. g.pattern = h.pattern
  BY DEF Blocks
<1> QED
  BY <1>1, <1>2, <1>3, <1>4

\* The count of strings alone.
LEMMA StringCount ==
  ASSUME NEW h \in Blocks, NEW m \in Int, NEW g, g = [h EXCEPT !.string = m]
  PROVE  /\ g \in Blocks /\ g.string = m /\ g.result = h.result
         /\ g.reinfo = h.reinfo /\ g.pattern = h.pattern
<1>1. g \in Blocks /\ g.string = m
  BY DEF Blocks
<1>2. g.result = h.result
  BY DEF Blocks
<1>3. g.reinfo = h.reinfo
  BY DEF Blocks
<1>4. g.pattern = h.pattern
  BY DEF Blocks
<1> QED
  BY <1>1, <1>2, <1>3, <1>4

\* Steps that allocate and free nothing keep the count of the blocks.
LEMMA BlocksKept ==
  ASSUME Counts, OnlyMatchesLeak, UNCHANGED memory, phase # "exit",
         phase' = "bite" <=> phase = "bite"
  PROVE  Counts' /\ OnlyMatchesLeak'
BY DEF Counts, OnlyMatchesLeak, memory

\* Every step keeps the count of the blocks.
LEMMA BlocksStep ==
  ASSUME TypeOK, Counts, OnlyMatchesLeak, [Next]_vars
  PROVE  Counts' /\ OnlyMatchesLeak'
<1> USE DEF const, input, store, call, memory
<1>0. /\ heap \in Blocks /\ heap.result \in Int /\ heap.string \in Int
      /\ heap.reinfo \in Int /\ heap.pattern \in Int
      /\ heap.result - 1 \in Int /\ heap.string - 1 \in Int /\ heap.string + 1 \in Int
      /\ heap.reinfo + 1 \in Int /\ heap.pattern + 1 \in Int
      /\ heap.reinfo - 1 \in Int /\ heap.pattern - 1 \in Int
  BY DEF Counts, Blocks
<1>1. CASE Eat \/ EatWhite \/ AskEmpty
  BY <1>1, BlocksKept DEF Eat, EatWhite, AskEmpty, Begin
<1>2. CASE Exit
  BY <1>2 DEF Exit, Counts, OnlyMatchesLeak
<1>3. CASE Free
  <2>1. /\ phase = "idle" /\ phase' = "idle" /\ made' = made /\ held' = held - 1
        /\ heap' = [heap EXCEPT !.string = @ - 1]
    BY <1>3 DEF Free
  <2>2. /\ heap' \in Blocks /\ heap'.result = heap.result /\ heap'.string = heap.string - 1
        /\ heap'.reinfo = heap.reinfo /\ heap'.pattern = heap.pattern
    BY <1>0, <2>1, StringCount
  <2> QED
    BY <2>1, <2>2 DEF Counts, OnlyMatchesLeak
<1>4. CASE MakeRegex
  <2>1. CASE ~Exit
    <3>1. /\ phase = "idle" /\ phase' = "idle" /\ made' = made + 1 /\ held' = held
          /\ heap' = [heap EXCEPT !.reinfo = @ + 1, !.pattern = @ + 1]
      BY <1>4, <2>1 DEF MakeRegex
    <3>2. heap' \in Blocks
      BY <1>0, <3>1 DEF Blocks
    <3>3. heap'.reinfo = heap.reinfo + 1
      BY <1>0, <3>1 DEF Blocks
    <3>4. heap'.pattern = heap.pattern + 1
      BY <1>0, <3>1 DEF Blocks
    <3>5. heap'.result = heap.result
      BY <1>0, <3>1 DEF Blocks
    <3>6. heap'.string = heap.string
      BY <1>0, <3>1 DEF Blocks
    <3> QED
      BY <3>1, <3>2, <3>3, <3>4, <3>5, <3>6 DEF Counts, OnlyMatchesLeak
  <2> QED
    BY <1>2, <2>1
<1>5. CASE FreeRegex
  <2>1. /\ phase = "idle" /\ phase' = "idle" /\ made' = made - 1 /\ held' = held
        /\ heap' = [heap EXCEPT !.reinfo = @ - 1, !.pattern = @ - 1]
    BY <1>5 DEF FreeRegex
  <2>2. heap' \in Blocks
    BY <1>0, <2>1 DEF Blocks
  <2>3. heap'.reinfo = heap.reinfo - 1
    BY <1>0, <2>1 DEF Blocks
  <2>4. heap'.pattern = heap.pattern - 1
    BY <1>0, <2>1 DEF Blocks
  <2>5. heap'.result = heap.result
    BY <1>0, <2>1 DEF Blocks
  <2>6. heap'.string = heap.string
    BY <1>0, <2>1 DEF Blocks
  <2> QED
    BY <2>1, <2>2, <2>3, <2>4, <2>5, <2>6 DEF Counts, OnlyMatchesLeak
<1>6. CASE RbPrint
  BY <1>6, BlocksKept DEF RbPrint
<1>7. CASE Look
  <2>1. phase = "look" /\ UNCHANGED memory
    BY <1>7 DEF Look
  <2>2. phase' # "bite"
    BY <1>7 DEF Look, AfterLook
  <2> QED
    BY <2>1, <2>2, BlocksKept
<1>8. CASE FillTrough
  <2>1. phase = "fill" /\ UNCHANGED memory
    BY <1>8 DEF FillTrough
  <2>2. phase' # "bite"
    BY <1>8 DEF FillTrough, FillEnds, AfterLook
  <2> QED
    BY <2>1, <2>2, BlocksKept
<1>9. CASE EatSpace
  <2>1. CASE ~Exit
    <3>1. /\ phase = "space" /\ phase' = "match" /\ UNCHANGED <<held, made>>
          /\ heap' = [Matched EXCEPT !.result = @ - 1]
      BY <1>9, <2>1 DEF EatSpace
    <3>2. Matched \in Blocks /\ Matched.result - 1 = heap.result
      BY <1>0, MatchedBlocks
    <3>3. /\ heap' \in Blocks /\ heap'.result = heap.result /\ heap'.string = heap.string
          /\ heap'.reinfo = heap.reinfo /\ heap'.pattern = heap.pattern
      BY <1>0, <3>1, <3>2, MatchedBlocks, ResultCount
    <3> QED
      BY <3>1, <3>3 DEF Counts, OnlyMatchesLeak
  <2> QED
    BY <1>2, <2>1
<1>10. CASE Match
  <2>1. CASE Miss
    <3>1. phase = "match" /\ phase' # "bite" /\ UNCHANGED memory
      BY <1>10, <2>1 DEF Match, Miss
    <3> QED
      BY <3>1, BlocksKept
  <2>2. CASE ~Exit /\ ~Miss
    <3>1. /\ phase = "match" /\ phase' = "bite" /\ UNCHANGED <<held, made>> /\ heap' = Matched
      BY <1>10, <2>2 DEF Match
    <3> QED
      BY <3>1, MatchedBlocks DEF Counts, OnlyMatchesLeak
  <2> QED
    BY <1>2, <2>1, <2>2
<1>11. CASE Bite
  <2>1. CASE ~Exit
    <3>1. /\ phase = "bite" /\ phase' = "idle" /\ UNCHANGED made /\ held' = held + 1
          /\ heap' = [heap EXCEPT !.result = @ - 1, !.string = @ + 1]
      BY <1>11, <2>1 DEF Bite
    <3>2. heap' \in Blocks
      BY <1>0, <3>1 DEF Blocks
    <3>3. heap'.reinfo = heap.reinfo
      BY <1>0, <3>1 DEF Blocks
    <3>4. heap'.pattern = heap.pattern
      BY <1>0, <3>1 DEF Blocks
    <3>5. heap'.result = heap.result - 1
      BY <1>0, <3>1 DEF Blocks
    <3>6. heap'.string = heap.string + 1
      BY <1>0, <3>1 DEF Blocks
    <3> QED
      BY <3>1, <3>2, <3>3, <3>4, <3>5, <3>6 DEF Counts, OnlyMatchesLeak
  <2> QED
    BY <1>2, <2>1
<1>12. CASE UNCHANGED vars
  BY <1>12 DEF vars, Counts, OnlyMatchesLeak
<1> QED
  BY <1>1, <1>3, <1>4, <1>5, <1>6, <1>7, <1>8, <1>9, <1>10, <1>11, <1>12 DEF Next

\* However often token words succeed, fail and are called again, each result array has
\* been freed when a word returns and each string has one owner (YU-TROUGH-EAT?,
\* YU-CHOMP, match_reinfo).
THEOREM BlocksTheorem == Spec => []OnlyMatchesLeak
<1>1. Init => TypeOK /\ Counts /\ OnlyMatchesLeak
  <2> SUFFICES ASSUME Init
               PROVE  Counts /\ OnlyMatchesLeak
    BY TypeInit
  <2>1. /\ heap = [reinfo |-> 9, pattern |-> 9, matches |-> 0, result |-> 0, string |-> 0]
        /\ held = 0 /\ made = 9 /\ phase = "idle"
    BY DEF Init
  <2> QED
    BY <2>1 DEF Counts, Blocks, OnlyMatchesLeak
<1>2. TypeOK /\ Counts /\ OnlyMatchesLeak /\ [Next]_vars
        => TypeOK' /\ Counts' /\ OnlyMatchesLeak'
  BY TypeStep, BlocksStep
<1> QED
  BY <1>1, <1>2, PTL DEF Spec

-----------------------------------------------------------------------------
(* The answers of the token words. *)

\* The trough ends where the input, the space in it, or a line of the terminal ends.
Ends == done + fill = Len(text) \/ WindowEnds

\* Leading white space is gone.
Trimmed == fill = 0 \/ trough[0] \notin Blank

\* The kinds that were tried are a prefix of those that were asked for.
Suffix ==
  /\ Len(todo) <= Len(asked)
  /\ \A j \in 1 .. Len(todo) : todo[j] = asked[Len(asked) - Len(todo) + j]

\* None of them fits what is in the trough.
Tried ==
  got = None /\ ~late =>
    \A i \in 1 .. Len(asked) - Len(todo) : \A n \in 1 .. fill : ~Matches(asked[i], Window(n))

\* What the word gave to its caller, or is about to give.
GotIsLongest ==
  got # None =>
    /\ Matches(got.kind, Ahead(got.from, got.len))
    /\ \A n \in got.len + 1 .. Len(text) - got.from :
         Matches(got.kind, Ahead(got.from, n)) => got.from + n > done + fill

\* AnswerIsNext between the calls and in the middle of one.
AInv ==
  /\ Suffix /\ Tried /\ GotIsLongest
  /\ phase = "idle" => todo = <<>>
  /\ phase \in {"look", "fill", "space", "match"} => got = None
  /\ phase \in {"look", "fill"} /\ todo = <<>> => asked = <<>>
  /\ phase = "fill" => done = base /\ (late \/ todo = asked)
  /\ phase \in {"space", "match", "bite"} => Ends
  /\ phase = "bite" => got # None
  /\ phase \in {"idle", "look"} /\ fill > 0 => Ends
  /\ phase = "idle" /\ (asked # <<>> \/ got # None) => Ends
  /\ phase = "match" => Trimmed
  /\ phase \in {"look", "space"} /\ todo # asked /\ ~late => Trimmed

\* What AInv is about, without the phase.
Words == <<text, tty, done, trough, fill, todo, got, asked, late, base>>

\* Steps that move no character and end no attempt keep the answer.
LEMMA AnswerKept ==
  ASSUME AInv, UNCHANGED Words, phase' = phase \/ phase' = "exit"
  PROVE  AInv'
BY DEF AInv, Words, Suffix, Tried, GotIsLongest, Ends, WindowEnds, Trimmed, Window, Ahead

\* The trough is a window on the text.
LEMMA WindowIsAhead ==
  ASSUME TypeOK, InOrder, NEW n \in 0 .. fill
  PROVE  Window(n) = Ahead(done, n)
<1>1. fill \in Nat /\ done \in Nat
  BY SizeAssumption DEF TypeOK
<1>2. \A i \in 1 .. n : trough[i - 1] = text[done + i]
  <2> TAKE i \in 1 .. n
  <2>1. i - 1 \in 0 .. fill - 1 /\ done + (i - 1) + 1 = done + i
    BY <1>1
  <2> QED
    BY <2>1 DEF InOrder
<1> QED
  BY <1>2 DEF Window, Ahead

\* The invariant makes the answer the next word of the text.
LEMMA AnswerFollows ==
  ASSUME TypeOK, InOrder, AInv
  PROVE  AnswerIsNext
<1>1. /\ fill \in Nat /\ done \in Nat /\ Len(text) \in Nat /\ asked \in Seq(Kinds)
      /\ got \in [kind : Kinds \union {"none"}, from : Nat, len : Nat]
  BY SizeAssumption DEF TypeOK
<1> SUFFICES ASSUME phase = "idle"
             PROVE  IF got = None
                    THEN \A i \in DOMAIN asked : \A n \in 1 .. Len(text) - done :
                           Matches(asked[i], Ahead(done, n)) => late \/ (n > fill /\ WindowEnds)
                    ELSE /\ Matches(got.kind, Ahead(got.from, got.len))
                         /\ \A n \in got.len + 1 .. Len(text) - got.from :
                              Matches(got.kind, Ahead(got.from, n)) =>
                                got.from + n > done + fill /\ WindowEnds
  BY DEF AnswerIsNext
<1>2. CASE got = None
  <2> SUFFICES ASSUME NEW i \in DOMAIN asked, NEW n \in 1 .. Len(text) - done,
                      Matches(asked[i], Ahead(done, n)), ~late
               PROVE  n > fill /\ WindowEnds
    BY <1>2
  <2>1. i \in 1 .. Len(asked) - Len(todo) /\ asked # <<>> /\ n \in Nat
    BY <1>1 DEF AInv
  <2>2. n > fill
    <3> SUFFICES ASSUME ~(n > fill)
                 PROVE  FALSE
      OBVIOUS
    <3>1. n \in 1 .. fill /\ n \in 0 .. fill
      BY <1>1
    <3>2. ~Matches(asked[i], Window(n))
      BY <1>2, <2>1, <3>1 DEF AInv, Tried
    <3> QED
      BY <3>1, <3>2, WindowIsAhead
  <2>3. Ends
    BY <2>1 DEF AInv
  <2> QED
    BY <1>1, <2>2, <2>3 DEF Ends
<1>3. CASE got # None
  <2>1. Ends /\ GotIsLongest
    BY <1>3 DEF AInv
  <2> SUFFICES ASSUME NEW n \in got.len + 1 .. Len(text) - got.from,
                      Matches(got.kind, Ahead(got.from, n))
               PROVE  got.from + n > done + fill /\ WindowEnds
    BY <1>3, <2>1 DEF GotIsLongest
  <2>2. got.from + n > done + fill
    BY <1>3, <2>1 DEF GotIsLongest
  <2>3. got.from \in Nat /\ got.len \in Nat /\ n <= Len(text) - got.from
    BY <1>1
  <2> QED
    BY <1>1, <2>1, <2>2, <2>3 DEF Ends
<1> QED
  BY <1>2, <1>3

\* The numbers of the state.
LEMMA Sizes ==
  ASSUME TypeOK
  PROVE  /\ fill \in Nat /\ UPB \in Nat /\ UPB > 0 /\ fill <= UPB
         /\ done \in Nat /\ base \in Nat /\ at \in Nat /\ at <= Len(text) /\ Len(text) \in Nat
         /\ todo \in Seq(Kinds) /\ asked \in Seq(Kinds)
         /\ Len(todo) \in Nat /\ Len(asked) \in Nat
         /\ got \in [kind : Kinds \union {"none"}, from : Nat, len : Nat]
BY SizeAssumption DEF TypeOK

\* A call begins: nothing has been tried.
LEMMA BeginAnswer ==
  ASSUME TypeOK, AInv, NEW kinds \in Seq(Kinds), Begin(kinds)
  PROVE  AInv'
<1>1. /\ phase = "idle" /\ phase' = "look" /\ todo' = kinds /\ asked' = kinds
      /\ got' = None /\ late' = FALSE
      /\ UNCHANGED <<text, tty, done, trough, fill, base>>
  BY DEF Begin, const, store
<1>2. Suffix'
  BY <1>1 DEF Suffix
<1>3. Tried'
  BY <1>1 DEF Tried
<1>4. GotIsLongest'
  BY <1>1 DEF GotIsLongest
<1>5. fill' > 0 => Ends'
  BY <1>1 DEF AInv, Ends, WindowEnds
<1> QED
  BY <1>1, <1>2, <1>3, <1>4, <1>5 DEF AInv

\* ?YU-TROUGH-EMPTY: the trough is filled again before the first attempt, or the call
\* is late from then on.
LEMMA LookAnswer ==
  ASSUME TypeOK, InOrder, AInv, Look
  PROVE  AInv'
<1>1. phase = "look" /\ UNCHANGED <<text, tty, trough, fill, todo, got, asked>> /\ got = None
  BY DEF Look, const, AInv
<1>2. trough[fill] = NUL
  BY <1>1 DEF InOrder
<1>3. CASE trough[0] # NUL \/ NextChar = EOF
  <2>1. UNCHANGED <<done, late, base>> /\ phase' = AfterLook(trough[0] = NUL)
    BY <1>3 DEF Look
  <2>2. Ends
    <3>1. CASE fill > 0
      BY <1>1, <3>1 DEF AInv
    <3>2. CASE fill = 0
      <4>1. NextChar = EOF
        BY <1>2, <1>3, <3>2
      <4>2. putback = EOF /\ at = Len(text)
        BY <4>1, NextIsChar
      <4> QED
        BY <3>2, <4>2, Sizes DEF InOrder, Ends
    <3> QED
      BY <3>1, <3>2, Sizes
  <2>3. Suffix' /\ Tried' /\ GotIsLongest' /\ Ends'
    BY <1>1, <2>1, <2>2 DEF AInv, Suffix, Tried, GotIsLongest, Ends, WindowEnds, Window, Ahead
  <2>4. CASE phase' = "idle"
    <3>1. todo = <<>>
      BY <2>1, <2>4 DEF AfterLook
    <3>2. asked = <<>>
      BY <1>1, <3>1 DEF AInv
    <3> QED
      BY <1>1, <2>3, <2>4, <3>1 DEF AInv
  <2>5. CASE phase' = "match"
    <3>1. trough[0] = NUL
      BY <2>1, <2>5 DEF AfterLook
    <3>2. fill = 0
      BY <3>1, EmptyMeansNone
    <3> QED
      BY <1>1, <2>3, <2>5, <3>2 DEF AInv, Trimmed
  <2>6. CASE phase' = "space"
    <3>1. todo # asked /\ ~late => Trimmed
      BY <1>1 DEF AInv
    <3> QED
      BY <1>1, <2>1, <2>3, <2>6, <3>1 DEF AInv, Trimmed
  <2> QED
    BY <2>1, <2>4, <2>5, <2>6 DEF AfterLook
<1>4. CASE ~(trough[0] # NUL \/ NextChar = EOF)
  <2>1. /\ base' = done' /\ late' = (todo # asked) /\ phase' = "fill"
    BY <1>4 DEF Look
  <2>2. fill = 0
    BY <1>4, EmptyMeansNone
  <2>3. Suffix' /\ Tried' /\ GotIsLongest'
    BY <1>1, <2>2 DEF AInv, Suffix, Tried, GotIsLongest
  <2>4. todo' = <<>> => asked' = <<>>
    BY <1>1 DEF AInv
  <2>5. late' \/ todo' = asked'
    BY <1>1, <2>1
  <2> QED
    BY <1>1, <2>1, <2>3, <2>4, <2>5 DEF AInv
<1> QED
  BY <1>3, <1>4

\* YU-FILL-TROUGH stops where Ends says.
LEMMA FillAnswer ==
  ASSUME TypeOK, InOrder, AInv, FillTrough
  PROVE  AInv'
<1>1. /\ phase = "fill" /\ UNCHANGED <<text, tty, done, todo, got, asked, late, base>>
      /\ got = None /\ done = base /\ (late \/ todo = asked)
      /\ (todo = <<>> => asked = <<>>)
  BY DEF FillTrough, const, AInv
<1>2. Suffix' /\ Tried' /\ GotIsLongest'
  <2>1. Suffix' /\ GotIsLongest'
    BY <1>1 DEF AInv, Suffix, GotIsLongest
  <2>2. Tried'
    <3>1. CASE late
      BY <1>1, <3>1 DEF Tried
    <3>2. CASE todo = asked
      BY <1>1, <3>2, Sizes DEF Tried
    <3> QED
      BY <1>1, <3>1, <3>2
  <2> QED
    BY <2>1, <2>2
<1>3. CASE FillStops
  <2>1. fill' = fill /\ phase' = AfterLook(fill = 0)
    BY <1>3 DEF FillTrough, FillEnds
  <2>2. Ends
    <3>1. CASE NextChar = EOF
      <4>1. putback = EOF /\ at = Len(text)
        BY <3>1, NextIsChar
      <4> QED
        BY <4>1, Sizes DEF InOrder, Ends
    <3>2. CASE NextChar = LF /\ tty
      <4>1. NextChar = text[done + fill + 1] /\ done + fill < Len(text)
        <5>1. CASE putback # EOF
          BY <5>1, Sizes DEF NextChar, InOrder
        <5>2. CASE putback = EOF
          <6>1. at < Len(text)
            BY <3>2, <5>2, Sizes DEF NextChar, LF, EOF
          <6> QED
            BY <5>2, <6>1, Sizes DEF NextChar, InOrder
        <5> QED
          BY <5>1, <5>2
      <4> QED
        BY <3>2, <4>1 DEF Ends, WindowEnds
    <3>3. CASE fill >= UPB
      BY <1>1, <3>3, Sizes DEF Ends, WindowEnds
    <3> QED
      BY <1>3, <3>1, <3>2, <3>3 DEF FillStops
  <2>3. Ends'
    BY <1>1, <2>1, <2>2 DEF Ends, WindowEnds
  <2>4. CASE phase' = "idle"
    BY <1>1, <1>2, <2>1, <2>3, <2>4 DEF AInv, AfterLook
  <2>5. CASE phase' = "match"
    <3>1. fill = 0
      BY <2>1, <2>5 DEF AfterLook
    <3> QED
      BY <1>1, <1>2, <2>1, <2>3, <2>5, <3>1 DEF AInv, Trimmed
  <2>6. CASE phase' = "space"
    BY <1>1, <1>2, <2>3, <2>6 DEF AInv
  <2> QED
    BY <2>1, <2>4, <2>5, <2>6 DEF AfterLook
<1>4. CASE ~FillStops
  <2>1. phase' = "fill"
    BY <1>1, <1>4 DEF FillTrough
  <2> QED
    BY <1>1, <1>2, <2>1 DEF AInv
<1> QED
  BY <1>3, <1>4

\* YU-CHUCK does not move the end of the trough.
LEMMA ChuckEnds ==
  ASSUME TypeOK, NEW n \in 0 .. fill, Chuck(n)
  PROVE  /\ fill' = fill - n /\ done' = done + n /\ fill' \in Nat
         /\ done' + fill' = done + fill
         /\ trough' = [i \in 0 .. UPB |-> IF i <= fill - n THEN trough[i + n] ELSE trough[i]]
<1>1. n \in Nat /\ ~(n > fill)
  BY Sizes
<1>2. /\ fill' = fill - n /\ done' = done + n
      /\ trough' = [i \in 0 .. UPB |-> IF i <= fill - n THEN trough[i + n] ELSE trough[i]]
  BY <1>1 DEF Chuck
<1>3. fill \in Nat /\ n <= fill /\ done \in Nat
  BY <1>1, Sizes
<1>4. fill' \in Nat /\ done' + fill' = done + fill
  BY <1>1, <1>2, <1>3
<1> QED
  BY <1>2, <1>4

\* The white space before a later attempt is empty, unless the call is late.
LEMMA SpaceAnswer ==
  ASSUME TypeOK, AInv, EatSpace, ~Exit
  PROVE  AInv'
<1>1. phase = "space" /\ got = None /\ Ends
  BY DEF EatSpace, AInv
<1>2. PICK n \in 0 .. fill :
        /\ \A i \in 0 .. n - 1 : trough[i] \in Blank
        /\ n < fill => trough[n] \notin Blank
        /\ Chuck(n) /\ phase' = "match"
        /\ UNCHANGED <<text, tty, todo, got, asked, late, base>>
  BY DEF EatSpace, const
<1>3. /\ fill' = fill - n /\ done' = done + n /\ fill' \in Nat
      /\ done' + fill' = done + fill
      /\ trough' = [i \in 0 .. UPB |-> IF i <= fill - n THEN trough[i + n] ELSE trough[i]]
  BY <1>2, ChuckEnds
<1>4. Ends'
  BY <1>1, <1>2, <1>3 DEF Ends, WindowEnds
<1>5. Trimmed'
  <2>1. CASE n = fill
    BY <1>3, <2>1, Sizes DEF Trimmed
  <2>2. CASE n # fill
    <3>1. n < fill /\ trough'[0] = trough[n]
      BY <1>3, <2>2, Sizes
    <3> QED
      BY <1>2, <3>1 DEF Trimmed
  <2> QED
    BY <2>1, <2>2
<1>6. Suffix' /\ GotIsLongest'
  BY <1>1, <1>2 DEF AInv, Suffix, GotIsLongest
<1>7. Tried'
  <2>1. CASE late
    BY <1>2, <2>1 DEF Tried
  <2>2. CASE todo = asked
    BY <1>2, <2>2, Sizes DEF Tried
  <2>3. CASE ~late /\ todo # asked
    <3>1. Trimmed
      BY <1>1, <2>3 DEF AInv
    <3>2. n = 0
      <4> SUFFICES ASSUME n # 0
                   PROVE  FALSE
        OBVIOUS
      <4>1. 0 \in 0 .. n - 1 /\ fill # 0
        BY Sizes
      <4> QED
        BY <1>2, <3>1, <4>1 DEF Trimmed
    <3>3. fill' = fill /\ \A i \in 0 .. UPB : trough'[i] = trough[i]
      BY <1>3, <3>2, Sizes
    <3>4. \A k \in 1 .. fill : Window(k)' = Window(k)
      BY <3>3, Sizes DEF Window
    <3> QED
      BY <1>1, <1>2, <3>3, <3>4 DEF AInv, Tried
  <2> QED
    BY <2>1, <2>2, <2>3
<1> QED
  BY <1>1, <1>2, <1>4, <1>5, <1>6, <1>7 DEF AInv

\* A match that fails adds its kind to those that were tried.
LEMMA MissAnswer ==
  ASSUME TypeOK, AInv, phase = "match", todo # <<>>,
         \A n \in 1 .. fill : ~Matches(Head(todo), Window(n)), Miss
  PROVE  AInv'
<1>1. /\ todo' = Tail(todo) /\ phase' = IF Len(todo) = 1 THEN "idle" ELSE "look"
      /\ UNCHANGED <<text, tty, done, trough, fill, got, asked, late, base>>
      /\ got = None /\ Ends /\ Trimmed
  BY DEF Miss, const, store, AInv
<1>2. Len(todo) \in Nat \ {0} /\ Len(todo') = Len(todo) - 1
      /\ \A j \in 1 .. Len(todo') : todo'[j] = todo[j + 1]
  BY <1>1, Sizes
<1>3. Suffix'
  <2>1. Len(todo') <= Len(asked')
    BY <1>1, <1>2, Sizes DEF AInv, Suffix
  <2>2. ASSUME NEW j \in 1 .. Len(todo')
        PROVE  todo'[j] = asked'[Len(asked') - Len(todo') + j]
    <3>1. j + 1 \in 1 .. Len(todo) /\ todo'[j] = todo[j + 1]
      BY <1>2
    <3>2. todo[j + 1] = asked[Len(asked) - Len(todo) + (j + 1)]
      BY <3>1 DEF AInv, Suffix
    <3>3. Len(asked) - Len(todo) + (j + 1) = Len(asked') - Len(todo') + j
      BY <1>1, <1>2, Sizes
    <3> QED
      BY <1>1, <3>1, <3>2, <3>3
  <2> QED
    BY <2>1, <2>2 DEF Suffix
<1>4. Tried'
  <2>1. Head(todo) = asked[Len(asked) - Len(todo) + 1]
    BY <1>2, Sizes DEF AInv, Suffix
  <2>2. ASSUME ~late, NEW i \in 1 .. Len(asked') - Len(todo'), NEW n \in 1 .. fill
        PROVE  ~Matches(asked[i], Window(n))
    <3>0. i \in 1 .. Len(asked) - Len(todo) + 1 /\ Len(asked) - Len(todo) \in Int
      <4>1. Len(asked') - Len(todo') = Len(asked) - Len(todo) + 1
        BY <1>1, <1>2, Sizes
      <4> QED
        BY <4>1, Sizes
    <3>1. CASE i = Len(asked) - Len(todo) + 1
      BY <2>1, <3>1
    <3>2. CASE i # Len(asked) - Len(todo) + 1
      <4>1. i \in 1 .. Len(asked) - Len(todo)
        BY <3>0, <3>2
      <4> QED
        BY <1>1, <2>2, <4>1 DEF AInv, Tried
    <3> QED
      BY <3>1, <3>2
  <2>3. \A n : Window(n)' = Window(n)
    BY <1>1 DEF Window
  <2> QED
    BY <1>1, <2>2, <2>3 DEF Tried
<1>5. GotIsLongest' /\ Ends' /\ Trimmed'
  BY <1>1 DEF GotIsLongest, Ends, WindowEnds, Trimmed
<1>6. CASE Len(todo) = 1
  <2>1. phase' = "idle" /\ todo' = <<>>
    BY <1>1, <1>2, <1>6, Sizes
  <2> QED
    BY <1>3, <1>4, <1>5, <2>1 DEF AInv
<1>7. CASE Len(todo) # 1
  <2>1. phase' = "look" /\ Len(todo') # 0
    BY <1>1, <1>2, <1>7
  <2> QED
    BY <1>1, <1>3, <1>4, <1>5, <2>1 DEF AInv
<1> QED
  BY <1>6, <1>7

\* YU-CHOMP takes the token away and ends the call.
LEMMA BiteAnswer ==
  ASSUME TypeOK, AInv, Bite, ~Exit
  PROVE  AInv'
<1>1. /\ phase = "bite" /\ phase' = "idle" /\ todo' = <<>> /\ Chuck(got.len) /\ Ends
      /\ UNCHANGED <<text, tty, got, asked, late, base>> /\ got # None
  BY DEF Bite, const, input, AInv
<1>2. done' + fill' = done + fill
  BY Sizes, <1>1 DEF Chuck
<1>3. Ends'
  BY <1>1, <1>2 DEF Ends, WindowEnds
<1>4. GotIsLongest'
  BY <1>1, <1>2 DEF AInv, GotIsLongest, Ahead
<1>5. Suffix' /\ Tried'
  BY <1>1, Sizes DEF Suffix, Tried
<1> QED
  BY <1>1, <1>3, <1>4, <1>5 DEF AInv

\* A match that succeeds is the longest one in the trough.
LEMMA MatchAnswer ==
  ASSUME TypeOK, InOrder, AInv, phase = "match", todo # <<>>,
         NEW n \in 1 .. fill, Found(Head(todo), n),
         got' = [kind |-> Head(todo), from |-> done, len |-> n], phase' = "bite",
         UNCHANGED <<text, tty, done, trough, fill, todo, asked, late, base>>
  PROVE  AInv'
<1>1. n \in Nat /\ n \in 0 .. fill /\ Head(todo) \in Kinds /\ "none" \notin Kinds
  BY Sizes DEF Kinds
<1>2. got' # None
  BY <1>1 DEF None
<1>3. GotIsLongest'
  <2>1. Matches(Head(todo), Ahead(done, n))
    BY <1>1, WindowIsAhead DEF Found
  <2>2. ASSUME NEW m \in n + 1 .. Len(text) - done, Matches(Head(todo), Ahead(done, m))
        PROVE  done + m > done + fill
    <3> SUFFICES ASSUME ~(done + m > done + fill)
                 PROVE  FALSE
      OBVIOUS
    <3>1. m \in n + 1 .. fill /\ m \in 0 .. fill
      BY <1>1, Sizes
    <3> QED
      BY <2>2, <3>1, WindowIsAhead DEF Found
  <2>3. \A p, m : Ahead(p, m)' = Ahead(p, m)
    BY DEF Ahead
  <2> QED
    BY <2>1, <2>2, <2>3 DEF GotIsLongest
<1>4. Suffix' /\ Tried' /\ Ends'
  BY <1>2 DEF AInv, Suffix, Tried, Ends, WindowEnds
<1> QED
  BY <1>2, <1>3, <1>4 DEF AInv

\* Every step keeps the answer.
LEMMA AnswerStep ==
  ASSUME TypeOK, InOrder, AInv, [Next]_vars
  PROVE  AInv'
<1> USE DEF const, input, store, call, memory
<1>1. CASE Eat \/ EatWhite \/ AskEmpty
  <2>1. \A kinds \in Calls : kinds \in Seq(Kinds)
    BY CallAssumption
  <2>2. <<"white">> \in Seq(Kinds) /\ <<>> \in Seq(Kinds)
    BY DEF Kinds
  <2>3. PICK kinds \in Seq(Kinds) : Begin(kinds)
    BY <1>1, <2>1, <2>2 DEF Eat, EatWhite, AskEmpty
  <2> QED
    BY <2>3, BeginAnswer
<1>2. CASE Exit
  BY <1>2, AnswerKept DEF Exit, Words
<1>3. CASE Free \/ FreeRegex \/ RbPrint
  BY <1>3, AnswerKept DEF Free, FreeRegex, RbPrint, Words
<1>4. CASE MakeRegex
  <2>1. CASE ~Exit
    BY <1>4, <2>1, AnswerKept DEF MakeRegex, Words
  <2> QED
    BY <1>2, <2>1
<1>5. CASE Look
  BY <1>5, LookAnswer
<1>6. CASE FillTrough
  BY <1>6, FillAnswer
<1>7. CASE EatSpace
  BY <1>2, <1>7, SpaceAnswer
<1>8. CASE Match
  <2>1. phase = "match" /\ todo # <<>>
    BY <1>8 DEF Match, TypeOK
  <2>2. CASE (\A n \in 1 .. fill : ~Matches(Head(todo), Window(n))) /\ Miss
    BY <2>1, <2>2, MissAnswer
  <2>3. ASSUME NEW n \in 1 .. fill, Found(Head(todo), n),
               got' = [kind |-> Head(todo), from |-> done, len |-> n], phase' = "bite",
               UNCHANGED <<const, input, store, todo, asked, late, base>>
        PROVE  AInv'
    BY <2>1, <2>3, MatchAnswer
  <2> QED
    BY <1>2, <1>8, <2>2, <2>3 DEF Match
<1>9. CASE Bite
  BY <1>2, <1>9, BiteAnswer
<1>10. CASE UNCHANGED vars
  BY <1>10, AnswerKept DEF vars, Words
<1> QED
  BY <1>1, <1>3, <1>4, <1>5, <1>6, <1>7, <1>8, <1>9, <1>10 DEF Next

\* No answer has been given at first.
LEMMA AnswerInit ==
  ASSUME Init
  PROVE  AInv
<1>1. /\ phase = "idle" /\ todo = <<>> /\ asked = <<>> /\ got = None /\ fill = 0
  BY DEF Init
<1> QED
  BY <1>1 DEF AInv, Suffix, Tried, GotIsLongest

\* For every input, every size of the trough and every list of kinds: a token word
\* answers with the longest token that comes next, and its two ways to be wrong are the
\* end of the trough and a trough that was filled between two attempts
\* (YU-TROUGH-EAT?, YU-EAT-NUM, YU-EAT-STR).
THEOREM AnswerTheorem == Spec => []AnswerIsNext
<1>1. Init => TypeOK /\ InOrder /\ AInv
  BY TypeInit, OrderInit, AnswerInit
<1>2. TypeOK /\ InOrder /\ AInv /\ [Next]_vars => TypeOK' /\ InOrder' /\ AInv'
  BY TypeStep, OrderStep, AnswerStep
<1>3. TypeOK /\ InOrder /\ AInv => AnswerIsNext
  BY AnswerFollows
<1> QED
  BY <1>1, <1>2, <1>3, PTL DEF Spec
=============================================================================
