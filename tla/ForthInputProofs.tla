-------------------------- MODULE ForthInputProofs --------------------------
(***************************************************************************)
(* The evaluation stack and the prompts of the interpreter's input, for    *)
(* every text, every buffer, every number of slots and every program       *)
(* (ForthInput); and, where no read fails, that the interpreter runs the   *)
(* words of its input as WordStream says.                                  *)
(***************************************************************************)
EXTENDS ForthInput, FiniteSetTheorems, SequenceTheorems, WellFoundedInduction, TLAPS

\* The input and those it interrupts, from the one that is read to the outermost one.
All(i) == <<Current(i)>> \o i.stack

\* The registers of the input are in their bounds, and the inputs lie on each other as they
\* were pushed: only the outermost one can be the file or the first text.
Sized(i) ==
  /\ i \in Inputs
  /\ i.errs <= MaxErrors /\ i.nread <= Len(file)
  /\ Len(i.inp) <= Chunk /\ i.ipos <= Len(i.inp)
  /\ Len(i.stack) <= EvalSlots

Nested(i, a) ==
  /\ \A k \in 1 .. Len(a) : a[k].pos <= Len(a[k].text)
  /\ \A k \in 1 .. Len(a) - 1 : a[k].eval
  /\ a[Len(a)].eval => a[Len(a)].text = i.boot /\ i.nread = 0
  /\ \A k \in 2 .. Len(a) : a[k].putback \in Spaces \union {None}

Fine(i) == Sized(i) /\ Nested(i, All(i))

-----------------------------------------------------------------------------
(* The helpers. *)

LEMMA AllFacts ==
  ASSUME NEW i \in Inputs
  PROVE  /\ All(i) \in Seq(Contexts) /\ Len(All(i)) = Len(i.stack) + 1
         /\ Len(i.stack) \in Nat /\ i.stack \in Seq(Contexts)
         /\ Current(i) \in Contexts /\ All(i)[1] = Current(i)
         /\ \A k \in 1 .. Len(i.stack) : All(i)[k + 1] = i.stack[k]
<1>1. i.stack \in Seq(Contexts)
  BY DEF Inputs
<1>2. Current(i) \in Contexts
  BY DEF Inputs, Contexts, Current, Context
<1> DEFINE c == Current(i)  st == i.stack
<1>3. c \in Contexts /\ st \in Seq(Contexts) /\ All(i) = <<c>> \o st
  BY <1>1, <1>2 DEF All
<1> HIDE DEF c, st
<1>4. /\ <<c>> \o st \in Seq(Contexts) /\ Len(<<c>> \o st) = Len(st) + 1
      /\ (<<c>> \o st)[1] = c /\ \A k \in 1 .. Len(st) : (<<c>> \o st)[k + 1] = st[k]
      /\ Len(st) \in Nat
  BY <1>3
<1> QED
  BY <1>3, <1>4 DEF c, st

LEMMA ResumeFacts ==
  ASSUME NEW i \in Inputs, NEW c \in Contexts, NEW st \in Seq(Contexts), NEW s, s = Resume(i, c, st)
  PROVE  /\ s \in Inputs /\ Current(s) = c /\ s.stack = st
         /\ s.eval = c.eval /\ s.text = c.text /\ s.pos = c.pos /\ s.putback = c.putback
         /\ s.inp = i.inp /\ s.ipos = i.ipos /\ s.nread = i.nread /\ s.errs = i.errs
         /\ s.boot = i.boot /\ s.lines = i.lines
<1>1. /\ s.stack = st
      /\ s.eval = c.eval /\ s.text = c.text /\ s.pos = c.pos /\ s.putback = c.putback
      /\ s.inp = i.inp /\ s.ipos = i.ipos /\ s.nread = i.nread /\ s.errs = i.errs
      /\ s.boot = i.boot /\ s.lines = i.lines
  BY DEF Resume, Inputs
<1>2. s \in Inputs
  BY <1>1 DEF Resume, Inputs, Contexts
<1>3. Current(s) = c
  BY <1>1 DEF Current, Context, Contexts
<1> QED
  BY <1>1, <1>2, <1>3

\* The least element of a set of numbers.
LEMMA LeastExists ==
  ASSUME NEW T, T \subseteq Nat, T # {}
  PROVE  \E x \in T : \A y \in T : x <= y
<1>1. PICK x \in T : \A y \in T : ~ (<<y, x>> \in OpToRel(<, Nat))
  BY WFMin, NatLessThanWellFounded, Zenon
<1>2. \A y \in T : ~ (y < x)
  BY <1>1, Zenon DEF OpToRel
<1> QED
  BY <1>2

LEMMA MinIsLeast ==
  ASSUME NEW T, T \subseteq Nat, T # {}
  PROVE  Min(T) \in T /\ \A y \in T : Min(T) <= y
BY LeastExists DEF Min

\* The state of the inputs is that of its list of inputs.
LEMMA FineBy ==
  ASSUME NEW i, Sized(i), NEW a, a = All(i), Nested(i, a)
  PROVE  Fine(i)
BY DEF Fine

\* k - 1 inputs are used up and gone, or all of them.
Popped(i, s, k) ==
  /\ \A j \in 1 .. k - 1 : UsedUp(All(i)[j])
  /\ Len(All(s)) = Len(All(i)) - k + 1
  /\ \A j \in 1 .. Len(All(s)) : All(s)[j] = All(i)[k + j - 1]

AllPopped(i, s) ==
  /\ s.stack = <<>> /\ Current(s) = FileContext /\ s.putback = None
  /\ \A j \in 1 .. Len(All(i)) : UsedUp(All(i)[j])

\* >IN: the inputs that are used up are popped, or all of them.
LEMMA SettleFacts ==
  ASSUME NEW i, Fine(i), i.putback \in Spaces \union {None}, NEW s, s = Settle(i)
  PROVE  /\ Fine(s) /\ s.putback \in Spaces \union {None}
         /\ s.eval => s.pos < Len(s.text)
         /\ ~s.eval => s.stack = <<>>
         /\ s.lines = i.lines /\ s.errs = i.errs
         /\ s.inp = i.inp /\ s.ipos = i.ipos /\ s.nread = i.nread
         /\ AllPopped(i, s) \/ \E k \in 1 .. Len(All(i)) : Popped(i, s, k)
<1> DEFINE a == All(i)
           live == {k \in DOMAIN a : ~UsedUp(a[k])}
<1>1. /\ i \in Inputs /\ Sized(i) /\ Nested(i, a)
  BY DEF Fine, Sized
<1>2. /\ a \in Seq(Contexts) /\ Len(a) = Len(i.stack) + 1 /\ Len(i.stack) \in Nat
      /\ a[1] = Current(i) /\ DOMAIN a = 1 .. Len(a) /\ Len(a) \in Nat
  BY <1>1, AllFacts
<1>3. s = IF live = {} THEN Resume(i, FileContext, <<>>)
          ELSE Resume(i, a[Min(live)], SubSeq(a, Min(live) + 1, Len(a)))
  BY DEF Settle, All
<1> HIDE DEF a
<1>4. CASE live = {}
  <2>1. FileContext \in Contexts /\ <<>> \in Seq(Contexts)
    BY DEF FileContext, Context, Contexts
  <2>2. s = Resume(i, FileContext, <<>>)
    BY <1>3, <1>4
  <2> DEFINE c == FileContext  none == <<>>
  <2> HIDE DEF c, none
  <2>3. /\ s \in Inputs /\ Current(s) = FileContext /\ s.stack = <<>>
        /\ s.eval = FALSE /\ s.text = <<>> /\ s.pos = 0 /\ s.putback = None
        /\ s.inp = i.inp /\ s.ipos = i.ipos /\ s.nread = i.nread /\ s.errs = i.errs
        /\ s.boot = i.boot /\ s.lines = i.lines
    <3>1. c \in Contexts /\ none \in Seq(Contexts) /\ s = Resume(i, c, none)
      BY <2>1, <2>2 DEF c, none
    <3>2. /\ s \in Inputs /\ Current(s) = c /\ s.stack = none
          /\ s.eval = c.eval /\ s.text = c.text /\ s.pos = c.pos /\ s.putback = c.putback
          /\ s.inp = i.inp /\ s.ipos = i.ipos /\ s.nread = i.nread /\ s.errs = i.errs
          /\ s.boot = i.boot /\ s.lines = i.lines
      BY <1>1, <3>1, ResumeFacts
    <3>3. c.eval = FALSE /\ c.text = <<>> /\ c.pos = 0 /\ c.putback = None
      BY DEF FileContext, Context, c
    <3> QED
      BY <3>2, <3>3 DEF c, none
  <2>4. /\ Len(All(s)) = 1 /\ All(s)[1] = FileContext
    <3>1. Len(s.stack) = 0
      BY <2>3
    <3>2. Len(All(s)) = Len(s.stack) + 1 /\ All(s)[1] = Current(s)
      BY <2>3, AllFacts
    <3> QED
      BY <2>3, <3>1, <3>2
  <2>5. Nested(s, All(s))
    <3> DEFINE b == All(s)
    <3>1. Len(b) = 1 /\ b[1].pos = 0 /\ b[1].text = <<>> /\ b[1].eval = FALSE
      BY <2>4 DEF FileContext, Context
    <3> HIDE DEF b
    <3>2. Len(b[1].text) = 0
      BY <3>1
    <3>3. \A k \in 1 .. Len(b) : k = 1
      BY <3>1
    <3>4. ~ \E k \in 1 .. Len(b) - 1 : TRUE
      BY <3>1
    <3>5. ~ \E k \in 2 .. Len(b) : TRUE
      BY <3>1
    <3>6. \A k \in 1 .. Len(b) : b[k].pos <= Len(b[k].text)
      BY <3>1, <3>2, <3>3
    <3>7. Nested(s, b)
      BY <3>1, <3>4, <3>5, <3>6 DEF Nested
    <3> QED
      BY <3>7 DEF b
  <2>6. Sized(s)
    <3>1. Len(s.stack) = 0 /\ EvalSlots \in Nat
      BY <2>3, InputAssumption
    <3> QED
      BY <1>1, <2>3, <3>1 DEF Sized
  <2>7. Fine(s)
    BY <2>5, <2>6 DEF Fine
  <2>8. \A j \in 1 .. Len(a) : UsedUp(a[j])
    BY <1>2, <1>4
  <2> QED
    BY <2>3, <2>7, <2>8 DEF a, AllPopped
<1>5. CASE live # {}
  <2> DEFINE k == Min(live)  st == SubSeq(a, k + 1, Len(a))
  <2>1. k \in live /\ k \in 1 .. Len(a) /\ k \in Nat
    <3>1. live \subseteq Nat
      BY <1>2
    <3> HIDE DEF live
    <3>2. k \in live
      BY <1>5, <3>1, MinIsLeast
    <3> QED
      BY <1>2, <3>2 DEF live
  <2>2. ~UsedUp(a[k]) /\ a[k] \in Contexts
    BY <1>2, <2>1
  <2>3. s = Resume(i, a[k], st)
    BY <1>3, <1>5
  <2>15. ASSUME NEW j \in 1 .. k - 1 PROVE UsedUp(a[j])
    <3>1. live \subseteq Nat
      BY <1>2
    <3> HIDE DEF live
    <3>2. \A m \in live : k <= m
      BY <1>5, <3>1, MinIsLeast
    <3>3. j \notin live
      BY <2>1, <3>2
    <3>4. j \in 1 .. Len(a)
      BY <1>2, <2>1
    <3> QED
      BY <1>2, <3>3, <3>4 DEF live
  <2> HIDE DEF live, k
  <2>4. /\ st \in Seq(Contexts) /\ Len(st) = Len(a) - k
        /\ \A j \in 1 .. Len(a) - k : st[j] = a[k + j]
    BY <1>2, <2>1
  <2> HIDE DEF st
  <2>5. /\ s \in Inputs /\ Current(s) = a[k] /\ s.stack = st
        /\ s.eval = a[k].eval /\ s.text = a[k].text /\ s.pos = a[k].pos /\ s.putback = a[k].putback
        /\ s.inp = i.inp /\ s.ipos = i.ipos /\ s.nread = i.nread /\ s.errs = i.errs
        /\ s.boot = i.boot /\ s.lines = i.lines
    BY <1>1, <2>2, <2>3, <2>4, ResumeFacts
  <2> DEFINE b == All(s)
  <2>6. /\ b \in Seq(Contexts) /\ Len(b) = Len(st) + 1 /\ b[1] = a[k]
        /\ \A j \in 1 .. Len(st) : b[j + 1] = st[j]
    BY <2>5, AllFacts
  <2> HIDE DEF b
  <2>7. Len(b) = Len(a) - k + 1 /\ Len(b) \in Nat
    BY <1>2, <2>1, <2>4, <2>6
  <2>8. ASSUME NEW j \in 1 .. Len(b) PROVE b[j] = a[k + j - 1]
    <3>1. CASE j = 1
      BY <2>1, <2>6, <3>1
    <3>2. CASE j # 1
      <4> DEFINE m == j - 1
      <4>1. m \in 1 .. Len(st) /\ m \in 1 .. Len(a) - k /\ m + 1 = j /\ k + m = k + j - 1
        BY <1>2, <2>1, <2>4, <2>7, <3>2
      <4> HIDE DEF m
      <4> QED
        BY <2>4, <2>6, <4>1
    <3> QED
      BY <3>1, <3>2
  <2>9. Nested(s, b)
    <3>1. ASSUME NEW j \in 1 .. Len(b) PROVE b[j].pos <= Len(b[j].text)
      <4>1. k + j - 1 \in 1 .. Len(a)
        BY <1>2, <2>1, <2>7
      <4> QED
        BY <1>1, <2>8, <4>1 DEF Nested
    <3>2. ASSUME NEW j \in 1 .. Len(b) - 1 PROVE b[j].eval
      <4>1. k + j - 1 \in 1 .. Len(a) - 1 /\ j \in 1 .. Len(b)
        BY <1>2, <2>1, <2>7
      <4> QED
        BY <1>1, <2>8, <4>1 DEF Nested
    <3>3. b[Len(b)] = a[Len(a)]
      <4>1. Len(b) \in 1 .. Len(b) /\ k + Len(b) - 1 = Len(a)
        BY <1>2, <2>1, <2>7
      <4> QED
        BY <2>8, <4>1
    <3>4. ASSUME NEW j \in 2 .. Len(b) PROVE b[j].putback \in Spaces \union {None}
      <4>1. k + j - 1 \in 2 .. Len(a) /\ j \in 1 .. Len(b)
        BY <1>2, <2>1, <2>7
      <4> QED
        BY <1>1, <2>8, <4>1 DEF Nested
    <3> QED
      BY <1>1, <2>5, <3>1, <3>2, <3>3, <3>4 DEF Nested
  <2>10. Sized(s)
    BY <1>1, <1>2, <2>1, <2>4, <2>5, InputAssumption DEF Sized
  <2>11. Fine(s)
    BY <2>9, <2>10 DEF Fine, b
  <2>12. s.putback \in Spaces \union {None}
    <3>1. CASE k = 1
      BY <1>2, <2>5, <3>1 DEF Current, Context
    <3>2. CASE k # 1
      <4>1. k \in 2 .. Len(a)
        BY <2>1, <3>2
      <4> QED
        BY <1>1, <2>5, <4>1 DEF Nested
    <3> QED
      BY <3>1, <3>2
  <2>13. s.eval => s.pos < Len(s.text)
    <3>1. a[k].eval => ~(a[k].pos >= Len(a[k].text))
      BY <2>2 DEF UsedUp
    <3>2. a[k].pos \in Nat /\ Len(a[k].text) \in Nat
      BY <2>2 DEF Contexts
    <3> QED
      BY <2>5, <3>1, <3>2
  <2>14. ~s.eval => s.stack = <<>>
    <3> SUFFICES ASSUME ~s.eval PROVE s.stack = <<>>
      OBVIOUS
    <3>1. ~(k \in 1 .. Len(a) - 1)
      BY <1>1, <2>5 DEF Nested
    <3>2. Len(st) = 0
      BY <1>2, <2>1, <2>4, <3>1
    <3> QED
      BY <2>4, <2>5, <3>2
  <2> QED
    BY <2>1, <2>5, <2>7, <2>8, <2>11, <2>12, <2>13, <2>14, <2>15 DEF a, b, Popped
<1> QED
  BY <1>4, <1>5

-----------------------------------------------------------------------------
(* The reads. *)

\* What a step from the input i to the input d keeps, but for the count of newlines.
Newline(ch) == IF ch = "nl" THEN 1 ELSE 0

LEMMA PosFacts ==
  ASSUME NEW i, Fine(i)
  PROVE  i \in Inputs /\ i.pos <= Len(i.text)
<1>1. i \in Inputs
  BY DEF Fine, Sized
<1>2. Nested(i, All(i)) /\ All(i)[1] = Current(i) /\ Len(All(i)) = Len(i.stack) + 1 /\ Len(i.stack) \in Nat
  BY <1>1, AllFacts DEF Fine
<1> QED
  BY <1>1, <1>2 DEF Nested, Current, Context

\* The list of inputs stays sound when the one that is read moves.
LEMMA FineKept ==
  ASSUME NEW i, Fine(i), NEW e, Sized(e), e.stack = i.stack, e.eval = i.eval, e.text = i.text,
         e.boot = i.boot, e.pos <= Len(e.text),
         e.nread = i.nread \/ (~i.eval /\ i.stack = <<>>)
  PROVE  Fine(e)
<1>1. i \in Inputs /\ e \in Inputs
  BY DEF Fine, Sized
<1> DEFINE a == All(i)  b == All(e)
<1>2. /\ Len(a) = Len(b) /\ Len(a) \in Nat /\ Len(a) = Len(i.stack) + 1 /\ Len(i.stack) \in Nat
      /\ a[1] = Current(i) /\ b[1] = Current(e)
      /\ \A k \in 1 .. Len(i.stack) : a[k + 1] = i.stack[k] /\ b[k + 1] = i.stack[k]
  <2>1. /\ Len(a) = Len(i.stack) + 1 /\ Len(i.stack) \in Nat /\ a[1] = Current(i)
        /\ \A k \in 1 .. Len(i.stack) : a[k + 1] = i.stack[k]
    BY <1>1, AllFacts
  <2>2. /\ Len(b) = Len(e.stack) + 1 /\ b[1] = Current(e)
        /\ \A k \in 1 .. Len(e.stack) : b[k + 1] = e.stack[k]
    BY <1>1, AllFacts
  <2> HIDE DEF a, b
  <2> QED
    BY <2>1, <2>2
<1>3. Nested(i, a)
  BY DEF Fine
<1> HIDE DEF a, b
<1>4. ASSUME NEW k \in 2 .. Len(a) PROVE a[k] = b[k]
  <2> DEFINE j == k - 1
  <2>1. j \in 1 .. Len(i.stack) /\ j + 1 = k
    BY <1>2
  <2> HIDE DEF j
  <2> QED
    BY <1>2, <2>1
<1>5. /\ b[1].eval = a[1].eval /\ b[1].text = a[1].text /\ b[1].pos <= Len(b[1].text)
      /\ a[1].eval = i.eval
  BY <1>2 DEF Current, Context
<1>6. ASSUME NEW k \in 1 .. Len(b)
      PROVE  b[k].pos <= Len(b[k].text) /\ b[k].eval = a[k].eval /\ b[k].text = a[k].text
  <2>1. CASE k = 1
    BY <1>5, <2>1
  <2>2. CASE k # 1
    <3>1. k \in 2 .. Len(a) /\ k \in 1 .. Len(a)
      BY <1>2, <2>2
    <3>2. a[k] = b[k] /\ a[k].pos <= Len(a[k].text)
      BY <1>3, <1>4, <3>1 DEF Nested
    <3> QED
      BY <3>2
  <2> QED
    BY <2>1, <2>2
<1>7. ASSUME NEW k \in 1 .. Len(b) - 1 PROVE b[k].eval
  <2>1. k \in 1 .. Len(a) - 1 /\ k \in 1 .. Len(b)
    BY <1>2
  <2>2. b[k].eval = a[k].eval /\ a[k].eval
    BY <1>3, <1>6, <2>1 DEF Nested
  <2> QED
    BY <2>2
<1>8. ASSUME NEW k \in 2 .. Len(b) PROVE b[k].putback \in Spaces \union {None}
  <2>1. k \in 2 .. Len(a)
    BY <1>2
  <2>2. a[k] = b[k] /\ a[k].putback \in Spaces \union {None}
    BY <1>3, <1>4, <2>1 DEF Nested
  <2> QED
    BY <2>2
<1>9. b[Len(b)].eval => b[Len(b)].text = e.boot /\ e.nread = 0
  <2> SUFFICES ASSUME b[Len(b)].eval PROVE b[Len(b)].text = e.boot /\ e.nread = 0
    OBVIOUS
  <2> DEFINE n == Len(b)
  <2>1. n \in 1 .. Len(b) /\ n = Len(a)
    BY <1>2
  <2>2. b[n].eval = a[n].eval /\ b[n].text = a[n].text
    BY <1>6, <2>1
  <2>3. a[n].text = i.boot /\ i.nread = 0
    BY <1>3, <2>1, <2>2 DEF Nested
  <2>4. ~(~i.eval /\ i.stack = <<>>)
    <3> SUFFICES ASSUME ~i.eval, i.stack = <<>> PROVE FALSE
      OBVIOUS
    <3>1. Len(i.stack) = 0
      OBVIOUS
    <3>2. n = 1
      BY <1>2, <3>1
    <3> QED
      BY <1>5, <2>2, <3>2
  <2> QED
    BY <2>2, <2>3, <2>4
<1>10. Nested(e, b)
  BY <1>6, <1>7, <1>8, <1>9 DEF Nested
<1> QED
  BY <1>10 DEF Fine, b

LEMMA TookFacts ==
  ASSUME NEW i \in Inputs, NEW ch, NEW d, d = Took(i, ch), NEW e, e = d.in
  PROVE  /\ d.ch = ch /\ e \in Inputs /\ e.eval = i.eval /\ e.text = i.text /\ e.pos = i.pos
         /\ e.putback = i.putback /\ e.stack = i.stack /\ e.inp = i.inp /\ e.ipos = i.ipos
         /\ e.nread = i.nread /\ e.errs = i.errs /\ e.boot = i.boot
         /\ e.lines = i.lines + Newline(ch)
<1> DEFINE n == IF ch = "nl" THEN i.lines + 1 ELSE i.lines
<1>1. i.lines \in Nat
  BY DEF Inputs
<1>2. n \in Nat /\ n = i.lines + Newline(ch)
  BY <1>1 DEF Newline
<1>3. d.ch = ch /\ e = [i EXCEPT !.lines = n]
  BY DEF Took
<1> HIDE DEF n
<1> QED
  BY <1>2, <1>3 DEF Inputs

\* One character of an input that is not used up, or the end of the file.
LEMMA AdvanceFacts ==
  ASSUME NEW i, Fine(i), i.putback \in Spaces \union {None},
         i.eval => i.pos < Len(i.text), NEW d, d = Advance(i)
  PROVE  /\ d.ch \in Chars \union {EOF}
         /\ Fine(d.in)
         /\ d.in.putback = i.putback /\ d.in.stack = i.stack
         /\ d.in.lines = i.lines + Newline(d.ch)
<1>1. i \in Inputs /\ Sized(i) /\ Nested(i, All(i))
  BY DEF Fine, Sized
<1>2. /\ i.eval \in BOOLEAN /\ i.text \in Seq(Chars) /\ i.pos \in Nat /\ i.inp \in Seq(Chars)
      /\ i.ipos \in Nat /\ i.lines \in Nat /\ i.stack \in Seq(Contexts)
  BY <1>1 DEF Inputs
<1>3. EOF \notin Chars /\ EOF # "nl"
  BY DEF EOF, Chars, Spaces
\* The character, and the registers in which the input changes.
<1> DEFINE e == d.in  ch == d.ch  p == e.pos
<1>4. i.ipos <= Len(i.inp) /\ Len(i.inp) \in Nat /\ Len(i.text) \in Nat
  BY <1>1, <1>2 DEF Sized
<1>5. /\ ch \in Chars \union {EOF} /\ e \in Inputs
      /\ e.eval = i.eval /\ e.text = i.text /\ e.putback = i.putback
      /\ e.stack = i.stack /\ e.inp = i.inp /\ e.nread = i.nread
      /\ e.errs = i.errs /\ e.boot = i.boot /\ e.lines = i.lines + Newline(ch)
      /\ i.eval => p <= Len(i.text)
      /\ ~i.eval => p = i.pos
      /\ p \in Nat /\ e.ipos <= Len(i.inp)
  <2>1. CASE i.eval
    <3> DEFINE c == i.text[i.pos + 1]  f == [i EXCEPT !.pos = i.pos + 1]
    <3>1. i.pos + 1 \in Nat /\ i.pos + 1 <= Len(i.text) /\ c \in Chars
      BY <1>2, <1>4, <2>1
    <3>2. /\ f \in Inputs /\ f.eval = i.eval /\ f.text = i.text /\ f.putback = i.putback
          /\ f.stack = i.stack /\ f.inp = i.inp /\ f.nread = i.nread /\ f.ipos = i.ipos
          /\ f.errs = i.errs /\ f.boot = i.boot /\ f.lines = i.lines /\ f.pos = i.pos + 1
      BY <1>1, <3>1 DEF Inputs
    <3>3. d = Took(f, c)
      BY <2>1 DEF Advance
    <3> HIDE DEF f, c
    <3>4. /\ d.ch = c /\ e \in Inputs /\ e.eval = f.eval /\ e.text = f.text /\ e.putback = f.putback
          /\ e.stack = f.stack /\ e.inp = f.inp /\ e.nread = f.nread /\ e.ipos = f.ipos
          /\ e.errs = f.errs /\ e.boot = f.boot /\ e.lines = f.lines + Newline(c) /\ e.pos = f.pos
      BY <3>2, <3>3, TookFacts
    <3> HIDE DEF e, ch
    <3> QED
      BY <1>2, <1>4, <2>1, <3>1, <3>2, <3>4 DEF ch
  <2>2. CASE ~i.eval /\ i.ipos < Len(i.inp)
    <3> DEFINE c == i.inp[i.ipos + 1]  f == [i EXCEPT !.ipos = i.ipos + 1]
    <3>1. i.ipos + 1 \in Nat /\ i.ipos + 1 <= Len(i.inp) /\ c \in Chars
      BY <1>2, <1>4, <2>2
    <3>2. /\ f \in Inputs /\ f.eval = i.eval /\ f.text = i.text /\ f.putback = i.putback
          /\ f.stack = i.stack /\ f.inp = i.inp /\ f.nread = i.nread /\ f.ipos = i.ipos + 1
          /\ f.errs = i.errs /\ f.boot = i.boot /\ f.lines = i.lines /\ f.pos = i.pos
      BY <1>1, <3>1 DEF Inputs
    <3>3. d = Took(f, c)
      BY <2>2 DEF Advance
    <3> HIDE DEF f, c
    <3>4. /\ d.ch = c /\ e \in Inputs /\ e.eval = f.eval /\ e.text = f.text /\ e.putback = f.putback
          /\ e.stack = f.stack /\ e.inp = f.inp /\ e.nread = f.nread /\ e.ipos = f.ipos
          /\ e.errs = f.errs /\ e.boot = f.boot /\ e.lines = f.lines + Newline(c) /\ e.pos = f.pos
      BY <3>2, <3>3, TookFacts
    <3> HIDE DEF e, ch
    <3> QED
      BY <1>2, <1>4, <2>2, <3>1, <3>2, <3>4 DEF ch
  <2>3. CASE ~i.eval /\ ~(i.ipos < Len(i.inp))
    <3>1. d = Took(i, EOF)
      BY <2>3 DEF Advance
    <3>2. /\ d.ch = EOF /\ e \in Inputs /\ e.eval = i.eval /\ e.text = i.text /\ e.putback = i.putback
          /\ e.stack = i.stack /\ e.inp = i.inp /\ e.nread = i.nread /\ e.ipos = i.ipos
          /\ e.errs = i.errs /\ e.boot = i.boot /\ e.lines = i.lines + Newline(EOF) /\ e.pos = i.pos
      BY <1>1, <3>1, TookFacts
    <3> HIDE DEF e, ch
    <3> QED
      BY <1>2, <1>4, <2>3, <3>2 DEF ch
  <2> QED
    BY <1>2, <2>1, <2>2, <2>3
<1>6. i.nread <= Len(file) /\ i.errs <= MaxErrors /\ Len(i.inp) <= Chunk /\ Len(i.stack) <= EvalSlots
  BY <1>1 DEF Sized
<1>7. i.pos <= Len(i.text)
  BY PosFacts
<1> HIDE DEF e, p, ch
<1>8. Sized(e) /\ e.pos <= Len(e.text)
  BY <1>2, <1>5, <1>6, <1>7 DEF Sized, p
<1>9. Fine(e)
  BY <1>5, <1>8, FineKept
<1> QED
  BY <1>5, <1>9 DEF e, ch

LEMMA PieceFacts ==
  ASSUME NEW f \in Seq(Chars), NEW u \in Nat, NEW n \in Nat, u + n <= Len(f)
  PROVE  SubSeq(f, u + 1, u + n) \in Seq(Chars) /\ Len(SubSeq(f, u + 1, u + n)) = n
<1> DEFINE lo == u + 1  hi == u + n
<1>1. lo \in Int /\ hi \in Int /\ 1 <= lo /\ hi <= Len(f) /\ lo - 1 <= hi /\ hi - lo + 1 = n
  OBVIOUS
<1> HIDE DEF lo, hi
<1>2. \A j \in lo .. hi : f[j] \in Chars
  BY <1>1
<1>3. SubSeq(f, lo, hi) \in Seq(Chars) /\ Len(SubSeq(f, lo, hi)) = IF lo <= hi THEN hi - lo + 1 ELSE 0
  BY <1>1, <1>2, SubSeqProperties
<1>4. Len(SubSeq(f, lo, hi)) = n
  BY <1>1, <1>3
<1> QED
  BY <1>3, <1>4 DEF lo, hi

\* INPREAD fills the buffer with what the file still has, or empties it.
LEMMA RefillFacts ==
  ASSUME NEW i, Fine(i), ~i.eval, i.stack = <<>>, file \in Seq(Chars), NEW r \in Refills(i)
  PROVE  /\ Fine(r) /\ r.eval = i.eval /\ r.stack = i.stack /\ r.putback = i.putback
         /\ r.lines = i.lines /\ r.text = i.text /\ r.pos = i.pos
<1>1. /\ i \in Inputs /\ i.errs <= MaxErrors /\ i.nread <= Len(file)
      /\ Len(i.inp) <= Chunk /\ i.ipos <= Len(i.inp) /\ Len(i.stack) <= EvalSlots
  BY DEF Fine, Sized
<1>2. i.nread \in Nat /\ i.errs \in Nat /\ Len(file) \in Nat /\ Chunk \in Nat \ {0} /\ MaxErrors \in Nat
  BY <1>1, InputAssumption DEF Inputs
<1>3. i.pos <= Len(i.text)
  BY PosFacts
<1> DEFINE left == Len(file) - i.nread
           Filled(n) == [i EXCEPT !.inp = SubSeq(file, i.nread + 1, i.nread + n),
                                  !.ipos = 0, !.nread = i.nread + n]
           Failed == [i EXCEPT !.inp = <<>>, !.ipos = 0, !.errs = i.errs + 1]
<1>4. /\ Sized(r) /\ r.eval = i.eval /\ r.stack = i.stack /\ r.putback = i.putback
      /\ r.lines = i.lines /\ r.text = i.text /\ r.boot = i.boot /\ r.pos = i.pos
  <2>1. \/ \E n \in (IF left = 0 THEN {0} ELSE 1 .. Min({left, Chunk})) : r = Filled(n)
        \/ MayFail(i) /\ r = Failed
    BY DEF Refills
  <2>2. CASE \E n \in (IF left = 0 THEN {0} ELSE 1 .. Min({left, Chunk})) : r = Filled(n)
    <3>1. PICK n \in (IF left = 0 THEN {0} ELSE 1 .. Min({left, Chunk})) : r = Filled(n)
      BY <2>2
    <3>2. n \in Nat /\ i.nread + n <= Len(file) /\ n <= Chunk
      <4>1. CASE left = 0
        BY <1>1, <1>2, <4>1
      <4>2. CASE left # 0
        <5> DEFINE m == Min({left, Chunk})
        <5>1. left \in Nat /\ {left, Chunk} \subseteq Nat
          BY <1>1, <1>2
        <5> HIDE DEF left
        <5>2. m \in {left, Chunk} /\ m <= left /\ m <= Chunk
          BY <5>1, MinIsLeast
        <5> HIDE DEF m
        <5>3. n \in 1 .. m
          BY <4>2 DEF m
        <5>4. n \in Nat /\ n <= left /\ n <= Chunk
          BY <1>2, <5>1, <5>2, <5>3
        <5> QED
          BY <1>1, <1>2, <5>4 DEF left
      <4> QED
        BY <4>1, <4>2
    <3> DEFINE t == SubSeq(file, i.nread + 1, i.nread + n)  m == i.nread + n
    <3>3. t \in Seq(Chars) /\ Len(t) = n
      BY <1>2, <3>2, PieceFacts
    <3>4. m \in Nat /\ m <= Len(file)
      BY <1>2, <3>2
    <3>5. r = [i EXCEPT !.inp = t, !.ipos = 0, !.nread = m]
      BY <3>1
    <3> HIDE DEF t, m, Filled
    <3>6. /\ r \in Inputs /\ r.inp = t /\ r.ipos = 0 /\ r.nread = m /\ r.errs = i.errs
          /\ r.eval = i.eval /\ r.stack = i.stack /\ r.putback = i.putback
          /\ r.lines = i.lines /\ r.text = i.text /\ r.boot = i.boot /\ r.pos = i.pos
      BY <1>1, <3>3, <3>4, <3>5 DEF Inputs
    <3>7. r.ipos <= Len(r.inp) /\ Len(r.inp) <= Chunk /\ r.nread <= Len(file)
      <4>1. 0 <= Len(t) /\ Len(t) <= Chunk /\ m <= Len(file)
        BY <3>2, <3>3, <3>4
      <4> QED
        BY <3>6, <4>1, Zenon
    <3>8. r.errs <= MaxErrors /\ Len(r.stack) <= EvalSlots
      BY <1>1, <3>6
    <3> QED
      BY <3>6, <3>7, <3>8 DEF Sized
  <2>3. CASE MayFail(i) /\ r = Failed
    <3>1. i.errs < MaxErrors
      BY <2>3 DEF MayFail
    <3> DEFINE none == <<>>  m == i.errs + 1
    <3>2. m \in Nat /\ m <= MaxErrors /\ none \in Seq(Chars) /\ Len(none) = 0
      BY <1>2, <3>1
    <3>3. r = [i EXCEPT !.inp = none, !.ipos = 0, !.errs = m]
      BY <2>3
    <3> HIDE DEF none, m, Failed
    <3>4. /\ r \in Inputs /\ r.inp = none /\ r.ipos = 0 /\ r.nread = i.nread /\ r.errs = m
          /\ r.eval = i.eval /\ r.stack = i.stack /\ r.putback = i.putback
          /\ r.lines = i.lines /\ r.text = i.text /\ r.boot = i.boot /\ r.pos = i.pos
      BY <1>1, <3>2, <3>3 DEF Inputs
    <3>5. r.ipos <= Len(r.inp) /\ Len(r.inp) <= Chunk /\ r.nread <= Len(file)
      BY <1>1, <1>2, <3>2, <3>4
    <3>6. r.errs <= MaxErrors /\ Len(r.stack) <= EvalSlots
      BY <1>1, <3>2, <3>4
    <3> QED
      BY <3>4, <3>5, <3>6 DEF Sized
  <2> QED
    BY <2>1, <2>2, <2>3
<1>5. Fine(r)
  BY <1>3, <1>4, FineKept
<1> QED
  BY <1>4, <1>5

-----------------------------------------------------------------------------
(* The newlines that are put back. *)

LEMMA PendingFacts ==
  ASSUME NEW i \in Inputs
  PROVE  /\ IsFiniteSet(Pending(i)) /\ Cardinality(Pending(i)) \in Nat
         /\ Pending(i) \subseteq 0 .. Len(i.stack) /\ Len(i.stack) \in Nat
         /\ \A k \in 0 .. Len(i.stack) : k \in Pending(i) <=> All(i)[k + 1].putback = "nl"
<1>1. /\ Len(i.stack) \in Nat /\ All(i)[1] = Current(i)
      /\ \A k \in 1 .. Len(i.stack) : All(i)[k + 1] = i.stack[k]
  BY AllFacts
<1>2. Pending(i) \subseteq 0 .. Len(i.stack)
  BY DEF Pending
<1>3. IsFiniteSet(0 .. Len(i.stack))
  BY <1>1, FS_Interval
<1>4. IsFiniteSet(Pending(i)) /\ Cardinality(Pending(i)) \in Nat
  BY <1>2, <1>3, FS_Subset, FS_CardinalityType
<1>5. ASSUME NEW k \in 0 .. Len(i.stack)
      PROVE  k \in Pending(i) <=> All(i)[k + 1].putback = "nl"
  <2>1. CASE k = 0
    <3>1. All(i)[k + 1] = Current(i)
      BY <1>1, <2>1
    <3>2. Current(i).putback = i.putback
      BY DEF Current, Context
    <3> QED
      BY <2>1, <3>1, <3>2 DEF Pending
  <2>2. CASE k # 0
    <3>1. k \in 1 .. Len(i.stack)
      BY <1>1, <2>2
    <3>2. All(i)[k + 1] = i.stack[k]
      BY <1>1, <3>1
    <3> QED
      BY <2>2, <3>2 DEF Pending
  <2> QED
    BY <2>1, <2>2
<1> QED
  BY <1>1, <1>2, <1>4, <1>5

\* The inputs that are pushed or popped take their newlines with them.
LEMMA PendingShift ==
  ASSUME NEW i \in Inputs, NEW s \in Inputs, NEW m \in Int, \A k \in Pending(s) : k + m \in Pending(i)
  PROVE  Cardinality(Pending(s)) <= Cardinality(Pending(i))
<1> DEFINE S == Pending(s)  T == Pending(i)  f == [k \in S |-> k + m]
<1>1. IsFiniteSet(T) /\ S \subseteq Nat
  BY PendingFacts
<1>2. \A k \in S : k + m \in T
  OBVIOUS
<1> HIDE DEF S, T
<1>3. f \in [S -> T] /\ \A j, k \in S : f[j] = f[k] => j = k
  BY <1>1, <1>2
<1>4. f \in Injection(S, T)
  BY <1>3 DEF Injection, IsInjective
<1> HIDE DEF f
<1>5. Cardinality(S) <= Cardinality(T)
  BY <1>1, <1>4, FS_Injection
<1> QED
  BY <1>5 DEF S, T

\* A character is put back, or taken again.
LEMMA PendingPut ==
  ASSUME NEW i \in Inputs, NEW e \in Inputs, e.stack = i.stack
  PROVE  Cardinality(Pending(e)) + Newline(i.putback) = Cardinality(Pending(i)) + Newline(e.putback)
<1> DEFINE S == Pending(e)  T == Pending(i)
<1>1. /\ IsFiniteSet(S) /\ IsFiniteSet(T) /\ Cardinality(S) \in Nat /\ Cardinality(T) \in Nat
      /\ Len(i.stack) \in Nat
  BY PendingFacts
<1>2. S \ {0} = T \ {0}
  BY DEF Pending
<1>3. (0 \in S <=> e.putback = "nl") /\ (0 \in T <=> i.putback = "nl")
  BY <1>1 DEF Pending
<1> HIDE DEF S, T
<1>4. /\ Cardinality(S \ {0}) = IF 0 \in S THEN Cardinality(S) - 1 ELSE Cardinality(S)
      /\ Cardinality(T \ {0}) = IF 0 \in T THEN Cardinality(T) - 1 ELSE Cardinality(T)
  BY <1>1, FS_RemoveElement
<1> DEFINE c == Cardinality(S)  t == Cardinality(T)
<1>5. /\ c \in Nat /\ t \in Nat
      /\ (IF 0 \in S THEN c - 1 ELSE c) = (IF 0 \in T THEN t - 1 ELSE t)
  BY <1>1, <1>2, <1>4
<1>6. /\ Newline(i.putback) = IF 0 \in T THEN 1 ELSE 0
      /\ Newline(e.putback) = IF 0 \in S THEN 1 ELSE 0
  BY <1>3 DEF Newline
<1> HIDE DEF c, t
<1>7. c + Newline(i.putback) = t + Newline(e.putback)
  BY <1>5, <1>6
<1> QED
  BY <1>7 DEF S, T, c, t

\* What is popped may take newlines away and brings none.
LEMMA SettlePending ==
  ASSUME NEW i, Fine(i), i.putback \in Spaces \union {None}, NEW s, s = Settle(i)
  PROVE  Cardinality(Pending(s)) <= Cardinality(Pending(i))
<1>0. AllPopped(i, s) \/ \E k \in 1 .. Len(All(i)) : Popped(i, s, k)
  BY SettleFacts
<1>1. /\ i \in Inputs /\ s \in Inputs
      /\ \/ s.stack = <<>> /\ s.putback = None
         \/ \E k \in 1 .. Len(All(i)) :
              /\ Len(All(s)) = Len(All(i)) - k + 1
              /\ \A j \in 1 .. Len(All(s)) : All(s)[j] = All(i)[k + j - 1]
  <2>1. i \in Inputs /\ s \in Inputs
    BY SettleFacts DEF Fine, Sized
  <2> QED
    BY <1>0, <2>1 DEF AllPopped, Popped
<1> DEFINE a == All(i)  b == All(s)
<1>2. /\ Len(a) = Len(i.stack) + 1 /\ Len(b) = Len(s.stack) + 1
      /\ Len(i.stack) \in Nat /\ Len(s.stack) \in Nat
  BY <1>1, AllFacts
<1>3. /\ Pending(s) \subseteq 0 .. Len(s.stack)
      /\ \A k \in 0 .. Len(s.stack) : k \in Pending(s) <=> b[k + 1].putback = "nl"
      /\ \A k \in 0 .. Len(i.stack) : k \in Pending(i) <=> a[k + 1].putback = "nl"
      /\ Cardinality(Pending(i)) \in Nat
  BY <1>1, PendingFacts
<1>4. CASE s.stack = <<>> /\ s.putback = None
  <2>1. Pending(s) = {}
    <3>1. Len(s.stack) = 0
      BY <1>4
    <3> QED
      BY <1>4, <3>1 DEF Pending, None
  <2> QED
    BY <1>3, <2>1, FS_EmptySet
<1>5. CASE \E k \in 1 .. Len(a) : /\ Len(b) = Len(a) - k + 1
                                  /\ \A j \in 1 .. Len(b) : b[j] = a[k + j - 1]
  <2>1. PICK k \in 1 .. Len(a) : /\ Len(b) = Len(a) - k + 1
                                 /\ \A j \in 1 .. Len(b) : b[j] = a[k + j - 1]
    BY <1>5
  <2> DEFINE m == k - 1
  <2> HIDE DEF a, b
  <2>2. m \in Int
    BY <1>2
  <2>3. ASSUME NEW j \in Pending(s) PROVE j + m \in Pending(i)
    <3> DEFINE u == j + 1  v == j + m
    <3>1. /\ j \in 0 .. Len(s.stack) /\ u \in 1 .. Len(b) /\ v \in 0 .. Len(i.stack)
          /\ v + 1 = k + u - 1
      <4>1. j \in 0 .. Len(s.stack)
        BY <1>3
      <4>2. u \in 1 .. Len(b)
        BY <1>2, <4>1
      <4>3. v \in 0 .. Len(i.stack)
        BY <1>2, <2>1, <4>1
      <4> QED
        BY <4>1, <4>2, <4>3
    <3>2. b[u].putback = "nl"
      BY <1>3, <3>1
    <3> HIDE DEF u, v, m
    <3>3. b[u] = a[v + 1]
      BY <2>1, <3>1
    <3>4. v \in Pending(i)
      BY <1>3, <3>1, <3>2, <3>3
    <3> QED
      BY <3>4 DEF v
  <2> HIDE DEF m
  <2> QED
    BY <1>1, <2>2, <2>3, PendingShift
<1> QED
  BY <1>1, <1>4, <1>5

\* A character is put back, or taken.
LEMMA PutFacts ==
  ASSUME NEW i, Fine(i), NEW ch \in Chars \union {None}, NEW e, e = [i EXCEPT !.putback = ch]
  PROVE  /\ Fine(e) /\ e.putback = ch /\ e.lines = i.lines
         /\ Cardinality(Pending(e)) + Newline(i.putback) = Cardinality(Pending(i)) + Newline(ch)
<1>1. i \in Inputs /\ Sized(i) /\ i.pos <= Len(i.text)
  BY PosFacts DEF Fine
<1>2. /\ e \in Inputs /\ e.putback = ch /\ e.lines = i.lines /\ e.stack = i.stack
      /\ e.eval = i.eval /\ e.text = i.text /\ e.pos = i.pos /\ e.boot = i.boot
      /\ e.inp = i.inp /\ e.ipos = i.ipos /\ e.nread = i.nread /\ e.errs = i.errs
  BY <1>1 DEF Inputs
<1>3. Sized(e) /\ e.pos <= Len(e.text)
  BY <1>1, <1>2 DEF Sized
<1>4. Fine(e)
  BY <1>2, <1>3, FineKept
<1> QED
  BY <1>1, <1>2, <1>4, PendingPut

\* INPGETCH: the inputs stay sound, and a newline was either put back before or is
\* counted as it is read.
LEMMA GetChFacts ==
  ASSUME file \in Seq(Chars), NEW i, Fine(i), NEW d \in GetCh(i)
  PROVE  /\ d.ch \in Chars \union {EOF} /\ Fine(d.in) /\ d.in.putback \in Spaces \union {None}
         /\ Cardinality(Pending(d.in)) + Newline(d.ch) + i.lines
              <= Cardinality(Pending(i)) + d.in.lines
<1>1. i \in Inputs /\ i.lines \in Nat /\ i.putback \in Chars \union {None}
  BY PosFacts DEF Inputs
<1>2. CASE i.putback # None
  <2> DEFINE e == [i EXCEPT !.putback = None]
  <2>1. d.ch = i.putback /\ d.in = e
    BY <1>2 DEF GetCh
  <2> HIDE DEF e
  <2>2. /\ Fine(e) /\ e.putback = None /\ e.lines = i.lines
        /\ Cardinality(Pending(e)) + Newline(i.putback) = Cardinality(Pending(i)) + Newline(None)
    BY PutFacts DEF e
  <2>3. Cardinality(Pending(e)) \in Nat /\ Cardinality(Pending(i)) \in Nat
    BY <1>1, <2>2, PosFacts, PendingFacts
  <2>4. Newline(None) = 0 /\ Newline(i.putback) \in Nat
    BY DEF Newline, None
  <2>5. Cardinality(Pending(e)) + Newline(i.putback) + i.lines <= Cardinality(Pending(i)) + e.lines
    BY <1>1, <2>2, <2>3, <2>4
  <2> QED
    BY <1>1, <1>2, <2>1, <2>2, <2>5
<1>3. CASE i.putback = None
  <2> DEFINE s == Settle(i)
  <2>1. /\ Fine(s) /\ s.putback \in Spaces \union {None} /\ s.lines = i.lines
        /\ s.eval => s.pos < Len(s.text)
        /\ ~s.eval => s.stack = <<>>
        /\ Cardinality(Pending(s)) <= Cardinality(Pending(i))
    BY <1>3, SettleFacts, SettlePending
  <2>2. d \in IF s.eval \/ s.ipos < Len(s.inp) THEN {Advance(s)} ELSE {Advance(r) : r \in Refills(s)}
    BY <1>3 DEF GetCh
  <2> HIDE DEF s
  <2>3. PICK r : /\ Fine(r) /\ r.putback = s.putback /\ r.stack = s.stack /\ r.lines = s.lines
                 /\ r.eval => r.pos < Len(r.text)
                 /\ d = Advance(r)
    <3>1. CASE s.eval \/ s.ipos < Len(s.inp)
      BY <2>1, <2>2, <3>1
    <3>2. CASE ~(s.eval \/ s.ipos < Len(s.inp))
      <4>1. PICK r \in Refills(s) : d = Advance(r)
        BY <2>2, <3>2
      <4>2. /\ Fine(r) /\ r.eval = s.eval /\ r.stack = s.stack /\ r.putback = s.putback
            /\ r.lines = s.lines
        BY <2>1, <3>2, RefillFacts
      <4> QED
        BY <3>2, <4>1, <4>2
    <3> QED
      BY <3>1, <3>2
  <2>4. /\ d.ch \in Chars \union {EOF} /\ Fine(d.in)
        /\ d.in.putback = r.putback /\ d.in.stack = r.stack
        /\ d.in.lines = r.lines + Newline(d.ch)
    BY <2>1, <2>3, AdvanceFacts
  <2> DEFINE e == d.in
  <2>5. e \in Inputs /\ s \in Inputs /\ e.stack = s.stack /\ e.putback = s.putback
    BY <2>1, <2>3, <2>4, PosFacts
  <2> HIDE DEF e
  <2>6. /\ Cardinality(Pending(e)) \in Nat /\ Cardinality(Pending(i)) \in Nat
        /\ Cardinality(Pending(s)) \in Nat
    BY <1>1, <2>5, PendingFacts
  <2>7. Newline(s.putback) \in Nat /\ Newline(d.ch) \in Nat
    BY DEF Newline
  <2>8. Cardinality(Pending(e)) + Newline(s.putback) = Cardinality(Pending(s)) + Newline(e.putback)
    BY <2>5, PendingPut
  <2>9. Cardinality(Pending(e)) = Cardinality(Pending(s))
    BY <2>5, <2>6, <2>7, <2>8
  <2>10. e.lines = i.lines + Newline(d.ch)
    BY <2>1, <2>3, <2>4 DEF e
  <2>11. Cardinality(Pending(e)) + Newline(d.ch) + i.lines <= Cardinality(Pending(i)) + e.lines
    BY <1>1, <2>1, <2>6, <2>7, <2>9, <2>10
  <2> QED
    BY <2>1, <2>3, <2>4, <2>11 DEF e
<1> QED
  BY <1>2, <1>3

\* An evaluation lays its text and the transition on the input it interrupts.
LEMMA EvalPushFacts ==
  ASSUME NEW i, Fine(i), EvalFits(i), i.putback \in Spaces \union {None},
         NEW t \in Seq(Chars), NEW e, e = EvalPush(i, t)
  PROVE  /\ Fine(e) /\ e.putback = None /\ e.lines = i.lines
         /\ Cardinality(Pending(e)) <= Cardinality(Pending(i))
<1> DEFINE c == Context(TRUE, t, 0, None)
           st == <<Transition, Current(i)>> \o i.stack
           a == All(i)
           b == All(e)
<1>1. /\ i \in Inputs /\ Sized(i) /\ Nested(i, a)
  BY DEF Fine, Sized
<1>2. /\ Len(a) = Len(i.stack) + 1 /\ Len(i.stack) \in Nat /\ i.stack \in Seq(Contexts)
      /\ Current(i) \in Contexts /\ a[1] = Current(i)
      /\ \A k \in 1 .. Len(i.stack) : a[k + 1] = i.stack[k]
  BY <1>1, AllFacts
<1>3. /\ c \in Contexts /\ c.eval = TRUE /\ c.text = t /\ c.pos = 0 /\ c.putback = None
  BY DEF Context, Contexts
<1>4. /\ Transition \in Contexts /\ Transition.eval = TRUE /\ Transition.pos = 0
      /\ Transition.putback = None /\ Len(Transition.text) = 1
  <2>1. "sp" \in Chars
    BY DEF Chars, Spaces
  <2> QED
    BY <2>1 DEF Transition, Context, Contexts
<1>5. /\ st \in Seq(Contexts) /\ Len(st) = Len(i.stack) + 2
      /\ st[1] = Transition /\ st[2] = Current(i)
      /\ \A k \in 1 .. Len(i.stack) : st[k + 2] = i.stack[k]
  <2> DEFINE x == Transition  y == Current(i)  z == i.stack
  <2>1. x \in Contexts /\ y \in Contexts /\ z \in Seq(Contexts)
    BY <1>2, <1>4
  <2> HIDE DEF x, y, z
  <2>2. /\ <<x, y>> \o z \in Seq(Contexts) /\ Len(<<x, y>> \o z) = Len(z) + 2
        /\ (<<x, y>> \o z)[1] = x /\ (<<x, y>> \o z)[2] = y
        /\ \A k \in 1 .. Len(z) : (<<x, y>> \o z)[k + 2] = z[k]
    BY <2>1
  <2> QED
    BY <2>2 DEF x, y, z
<1>6. e = Resume(i, c, st)
  BY DEF EvalPush
<1> HIDE DEF a, b, c, st
<1>7. /\ e \in Inputs /\ Current(e) = c /\ e.stack = st
      /\ e.eval = c.eval /\ e.text = c.text /\ e.pos = c.pos /\ e.putback = c.putback
      /\ e.inp = i.inp /\ e.ipos = i.ipos /\ e.nread = i.nread /\ e.errs = i.errs
      /\ e.boot = i.boot /\ e.lines = i.lines
  BY <1>1, <1>3, <1>5, <1>6, ResumeFacts
<1>8. /\ Len(b) = Len(st) + 1 /\ b[1] = c /\ \A k \in 1 .. Len(st) : b[k + 1] = st[k]
  BY <1>7, AllFacts DEF b
<1>9. /\ Len(b) = Len(a) + 2 /\ Len(a) \in Nat /\ Len(a) >= 1 /\ b[2] = Transition
  <2>1. 1 \in 1 .. Len(st) /\ 1 + 1 = 2
    BY <1>2, <1>5
  <2>2. b[2] = st[1]
    BY <1>8, <2>1
  <2> QED
    BY <1>2, <1>5, <1>8, <2>2
<1>10. ASSUME NEW k \in 1 .. Len(a) PROVE b[k + 2] = a[k]
  <2> DEFINE m == k + 1
  <2>1. m \in 1 .. Len(st) /\ m + 1 = k + 2
    BY <1>2, <1>5
  <2> HIDE DEF m
  <2>2. b[k + 2] = st[m]
    BY <1>8, <2>1
  <2>3. st[m] = a[k]
    <3>1. CASE k = 1
      BY <1>2, <1>5, <3>1 DEF m
    <3>2. CASE k # 1
      <4> DEFINE n == k - 1
      <4>1. n \in 1 .. Len(i.stack) /\ m = n + 2 /\ n + 1 = k
        BY <1>2, <3>2 DEF m
      <4> HIDE DEF n
      <4>2. st[m] = i.stack[n] /\ a[k] = i.stack[n]
        BY <1>2, <1>5, <4>1
      <4> QED
        BY <4>2
    <3> QED
      BY <3>1, <3>2
  <2> QED
    BY <2>2, <2>3
\* Each input is the new one, the transition, or one that was there.
<1>11. ASSUME NEW k \in 1 .. Len(b)
       PROVE  \/ k = 1 /\ b[k] = c
              \/ k = 2 /\ b[k] = Transition
              \/ \E m \in 1 .. Len(a) : m + 2 = k /\ b[k] = a[m]
  <2>1. CASE k \in {1, 2}
    BY <1>8, <1>9, <2>1
  <2>2. CASE k \notin {1, 2}
    <3> DEFINE m == k - 2
    <3>1. m \in 1 .. Len(a) /\ m + 2 = k
      BY <1>9, <2>2
    <3> HIDE DEF m
    <3>2. b[k] = a[m]
      BY <1>10, <3>1
    <3> QED
      BY <3>1, <3>2
  <2> QED
    BY <2>1, <2>2
<1>12. Nested(e, b)
  <2>1. ASSUME NEW k \in 1 .. Len(b) PROVE b[k].pos <= Len(b[k].text)
    <3>1. 0 <= Len(c.text) /\ 0 <= Len(Transition.text)
      BY <1>3, <1>4
    <3>2. \A m \in 1 .. Len(a) : a[m].pos <= Len(a[m].text)
      BY <1>1 DEF Nested
    <3> QED
      BY <1>3, <1>4, <1>11, <3>1, <3>2
  <2>2. ASSUME NEW k \in 1 .. Len(b) - 1 PROVE b[k].eval
    <3>1. k \in 1 .. Len(b)
      BY <1>9
    <3>2. ASSUME NEW m \in 1 .. Len(a), m + 2 = k, b[k] = a[m] PROVE b[k].eval
      <4>1. m \in 1 .. Len(a) - 1
        BY <1>9, <3>2
      <4> QED
        BY <1>1, <3>2, <4>1 DEF Nested
    <3> QED
      BY <1>3, <1>4, <1>11, <3>1, <3>2
  <2>3. ASSUME NEW k \in 2 .. Len(b) PROVE b[k].putback \in Spaces \union {None}
    <3>1. k \in 1 .. Len(b) /\ k # 1
      BY <1>9
    <3>2. ASSUME NEW m \in 1 .. Len(a) PROVE a[m].putback \in Spaces \union {None}
      <4>1. CASE m = 1
        BY <1>2, <4>1 DEF Current, Context
      <4>2. CASE m # 1
        <5>1. m \in 2 .. Len(a)
          BY <4>2
        <5> QED
          BY <1>1, <5>1 DEF Nested
      <4> QED
        BY <4>1, <4>2
    <3> QED
      BY <1>4, <1>11, <3>1, <3>2
  <2>4. b[Len(b)] = a[Len(a)]
    <3> DEFINE n == Len(a)
    <3>1. n \in 1 .. Len(a) /\ n + 2 = Len(b)
      BY <1>9
    <3> HIDE DEF n
    <3> QED
      BY <1>9, <1>10, <3>1 DEF n
  <2>5. b[Len(b)].eval => b[Len(b)].text = e.boot /\ e.nread = 0
    BY <1>1, <1>7, <2>4 DEF Nested
  <2> QED
    BY <2>1, <2>2, <2>3, <2>5 DEF Nested
<1>13. Sized(e)
  <2>1. Len(e.stack) <= EvalSlots
    BY <1>2, <1>5, <1>7 DEF EvalFits
  <2> QED
    BY <1>1, <1>7, <2>1 DEF Sized
<1>14. Fine(e)
  BY <1>12, <1>13 DEF Fine, b
<1>15. Cardinality(Pending(e)) <= Cardinality(Pending(i))
  <2>1. /\ Pending(e) \subseteq 0 .. Len(e.stack)
        /\ \A k \in 0 .. Len(e.stack) : k \in Pending(e) <=> b[k + 1].putback = "nl"
        /\ \A k \in 0 .. Len(i.stack) : k \in Pending(i) <=> a[k + 1].putback = "nl"
    BY <1>1, <1>7, PendingFacts DEF a, b
  <2> DEFINE m == -2
  <2>2. ASSUME NEW k \in Pending(e) PROVE k + m \in Pending(i)
    <3> DEFINE u == k + 1  v == k + m
    <3>1. k \in 0 .. Len(e.stack) /\ u \in 1 .. Len(b)
      BY <1>7, <1>8, <2>1
    <3>2. b[u].putback = "nl"
      BY <2>1, <3>1
    <3> HIDE DEF u, v
    <3>3. PICK n \in 1 .. Len(a) : n + 2 = u /\ b[u] = a[n]
      BY <1>3, <1>4, <1>11, <3>1, <3>2 DEF None
    <3>4. v \in 0 .. Len(i.stack) /\ v + 1 = n
      BY <1>2, <3>1, <3>3 DEF u, v
    <3>5. v \in Pending(i)
      BY <2>1, <3>2, <3>3, <3>4
    <3> QED
      BY <3>5 DEF v
  <2>3. m \in Int
    OBVIOUS
  <2> HIDE DEF m
  <2> QED
    BY <1>1, <1>7, <2>2, <2>3, PendingShift
<1> QED
  BY <1>3, <1>7, <1>14, <1>15

-----------------------------------------------------------------------------
(* The inductive invariant. *)

\* A word that is collected is shorter than NAME, and begins empty.
NameFits ==
  /\ phase = "collect" => Len(name) < NameMax
  /\ phase \in {"skip", "eval", "comment", "paren"} => name = <<>>

\* What is put back is a space, but for the first character of a word, which ?WORD
\* takes again at once.
PutBackIsSpace == in.putback \in Spaces \union {None} \/ (phase = "collect" /\ name = <<>>)

IInv == TypeOK /\ NameFits /\ PutBackIsSpace /\ Fine(in) /\ PromptOnce

\* The part of the type invariant that does not follow from Fine(in).
Typed ==
  /\ file \in Seq(Chars) /\ macro \in MacroTables
  /\ name \in Seq(Chars) /\ Len(name) <= NameMax
  /\ texts \in Seq(Seq(Chars)) /\ (phase = "eval" => texts # <<>>)
  /\ phase \in {"skip", "collect", "exec", "eval", "comment", "paren", "halt"}
  /\ reason \in {"no", "term", "unexpeof", "evalstkovf"}
  /\ (phase = "halt") = (reason # "no")
  /\ prompts \in Nat

LEMMA FineIsTyped ==
  ASSUME Typed, Fine(in) PROVE TypeOK
<1>1. /\ in \in Inputs /\ in.errs <= MaxErrors /\ in.nread <= Len(file)
      /\ Len(in.inp) <= Chunk /\ in.ipos <= Len(in.inp) /\ in.pos <= Len(in.text)
  BY PosFacts DEF Fine, Sized
<1>2. ASSUME NEW k \in DOMAIN in.stack PROVE in.stack[k].pos <= Len(in.stack[k].text)
  <2> DEFINE m == k + 1
  <2>1. /\ Len(All(in)) = Len(in.stack) + 1 /\ Len(in.stack) \in Nat /\ in.stack \in Seq(Contexts)
        /\ \A j \in 1 .. Len(in.stack) : All(in)[j + 1] = in.stack[j]
    BY <1>1, AllFacts
  <2>2. k \in 1 .. Len(in.stack) /\ m \in 1 .. Len(All(in))
    BY <2>1
  <2>3. All(in)[m] = in.stack[k]
    BY <2>1, <2>2
  <2> HIDE DEF m
  <2> QED
    BY <2>2, <2>3 DEF Fine, Nested
<1> QED
  BY <1>1, <1>2, Zenon DEF Typed, TypeOK

LEMMA FineIsTypedNext == Typed' /\ Fine(in)' => TypeOK'
<1>1. Typed /\ Fine(in) => TypeOK
  BY FineIsTyped
<1> QED
  BY <1>1, PTL

LEMMA TypedAtFirst == TypeOK => Typed
BY Zenon DEF TypeOK, Typed

\* What one character does to the input of a sound state.
LEMMA ReadFacts ==
  ASSUME IInv, NEW d \in GetCh(in)
  PROVE  /\ d.ch \in Chars \union {EOF} /\ Fine(d.in) /\ d.in.putback \in Spaces \union {None}
         /\ prompts + Newline(d.ch) + Cardinality(Pending(d.in)) <= d.in.lines
         /\ prompts + Cardinality(Pending(d.in)) <= d.in.lines
         /\ d.ch # EOF =>
              /\ Fine(PutBack(d)) /\ PutBack(d).putback = d.ch
              /\ prompts + Cardinality(Pending(PutBack(d))) <= PutBack(d).lines
<1> DEFINE e == d.in  u == PutBack(d)
<1>1. /\ file \in Seq(Chars) /\ Fine(in) /\ prompts \in Nat
      /\ prompts + Cardinality(Pending(in)) <= in.lines
  BY TypedAtFirst DEF IInv, Typed, PromptOnce
<1>2. /\ d.ch \in Chars \union {EOF} /\ Fine(e) /\ e.putback \in Spaces \union {None}
      /\ Cardinality(Pending(e)) + Newline(d.ch) + in.lines
           <= Cardinality(Pending(in)) + e.lines
  BY <1>1, GetChFacts
<1> HIDE DEF e
<1>3. /\ in \in Inputs /\ e \in Inputs /\ Cardinality(Pending(in)) \in Nat
      /\ Cardinality(Pending(e)) \in Nat
  BY <1>1, <1>2, PosFacts, PendingFacts
<1>4. in.lines \in Nat /\ e.lines \in Nat
  BY <1>3 DEF Inputs
<1>5. \A ch : Newline(ch) \in Nat
  BY DEF Newline
<1>6. /\ prompts + Newline(d.ch) + Cardinality(Pending(e)) <= e.lines
      /\ prompts + Cardinality(Pending(e)) <= e.lines
  <2> DEFINE P == Cardinality(Pending(in))  Q == Cardinality(Pending(e))  n == Newline(d.ch)
             l == in.lines  m == e.lines
  <2>1. /\ P \in Nat /\ Q \in Nat /\ n \in Nat /\ l \in Nat /\ m \in Nat /\ prompts \in Nat
        /\ Q + n + l <= P + m /\ prompts + P <= l
    BY <1>1, <1>2, <1>3, <1>4, <1>5
  <2> HIDE DEF P, Q, n, l, m
  <2>2. prompts + n + Q <= m /\ prompts + Q <= m
    BY <2>1
  <2> QED
    BY <2>2 DEF P, Q, n, l, m
<1>7. ASSUME d.ch # EOF
      PROVE  Fine(u) /\ u.putback = d.ch /\ prompts + Cardinality(Pending(u)) <= u.lines
  <2>1. u = [e EXCEPT !.putback = d.ch] /\ d.ch \in Chars \union {None}
    BY <1>2, <1>7 DEF PutBack, e
  <2> HIDE DEF u
  <2>2. /\ Fine(u) /\ u.putback = d.ch /\ u.lines = e.lines
        /\ Cardinality(Pending(u)) + Newline(e.putback) = Cardinality(Pending(e)) + Newline(d.ch)
    BY <1>2, <2>1, PutFacts
  <2>3. Cardinality(Pending(u)) \in Nat
    BY <2>2, PosFacts, PendingFacts
  <2> DEFINE Q == Cardinality(Pending(e))  R == Cardinality(Pending(u))  n == Newline(d.ch)
             k == Newline(e.putback)  m == e.lines
  <2>4. /\ Q \in Nat /\ R \in Nat /\ n \in Nat /\ k \in Nat /\ m \in Nat /\ prompts \in Nat
        /\ R + k = Q + n /\ prompts + n + Q <= m
    BY <1>1, <1>3, <1>4, <1>5, <1>6, <2>2, <2>3
  <2> HIDE DEF Q, R, n, k, m
  <2>5. prompts + R <= m
    BY <2>4
  <2> QED
    BY <2>2, <2>5 DEF R, m
<1> QED
  BY <1>2, <1>6, <1>7 DEF e

\* A step is right when the input it leaves is.
LEMMA Concludes ==
  ASSUME file' = file, NEW e, in' = e, Fine(e), prompts' + Cardinality(Pending(e)) <= e.lines,
         Typed', NameFits', PutBackIsSpace'
  PROVE  IInv'
<1>1. Fine(in)'
  BY DEF Fine, Sized
<1>2. TypeOK'
  BY <1>1, FineIsTypedNext
<1>3. PromptOnce'
  BY DEF PromptOnce
<1> QED
  BY <1>1, <1>2, <1>3 DEF IInv

\* SKIPSPC: a space is dropped, another character is put back for ?WORD.
LEMMA SkipSpcKeeps == IInv /\ SkipSpc => IInv'
<1> SUFFICES ASSUME IInv, SkipSpc PROVE IInv'
  OBVIOUS
<1>1. Typed /\ NameFits /\ phase = "skip" /\ name = <<>>
  BY TypedAtFirst DEF IInv, SkipSpc, NameFits
<1>2. PICK d \in GetCh(in) :
        \/ /\ d.ch = EOF
           /\ in' = d.in /\ phase' = "collect" /\ UNCHANGED prompts
        \/ /\ d.ch \notin Spaces \union {EOF}
           /\ in' = PutBack(d) /\ phase' = "collect" /\ UNCHANGED prompts
        \/ /\ d.ch \in Spaces
           /\ in' = d.in /\ UNCHANGED phase
           /\ prompts' = IF d.ch = "nl" THEN prompts + 1 ELSE prompts
  BY DEF SkipSpc
<1>3. file' = file /\ macro' = macro /\ name' = name /\ texts' = texts /\ reason' = reason
  BY DEF SkipSpc
<1>4. /\ d.ch \in Chars \union {EOF} /\ Fine(d.in) /\ d.in.putback \in Spaces \union {None}
      /\ prompts + Newline(d.ch) + Cardinality(Pending(d.in)) <= d.in.lines
      /\ prompts + Cardinality(Pending(d.in)) <= d.in.lines
      /\ d.ch # EOF =>
           /\ Fine(PutBack(d)) /\ PutBack(d).putback = d.ch
           /\ prompts + Cardinality(Pending(PutBack(d))) <= PutBack(d).lines
  BY ReadFacts
<1>5. phase' \in {"skip", "collect"} /\ prompts' \in Nat
  BY <1>1, <1>2 DEF Typed
<1>6. Typed' /\ NameFits'
  <2>1. reason' = "no"
    BY <1>1, <1>3, Zenon DEF Typed
  <2>2. Typed'
    BY <1>1, <1>3, <1>5, <2>1 DEF Typed
  <2>3. NameFits'
    BY <1>1, <1>3, InputAssumption DEF NameFits
  <2> QED
    BY <2>2, <2>3
<1>7. CASE d.ch = EOF
  <2>1. in' = d.in /\ prompts' = prompts
    BY <1>2, <1>7 DEF EOF, Spaces
  <2>2. PutBackIsSpace'
    BY <1>4, <2>1 DEF PutBackIsSpace
  <2> QED
    BY <1>3, <1>4, <1>6, <2>1, <2>2, Concludes
<1>8. CASE d.ch \notin Spaces \union {EOF}
  <2>1. in' = PutBack(d) /\ prompts' = prompts /\ phase' = "collect"
    BY <1>2, <1>8
  <2>2. PutBackIsSpace'
    BY <1>1, <1>3, <2>1 DEF PutBackIsSpace
  <2> QED
    BY <1>3, <1>4, <1>6, <1>8, <2>1, <2>2, Concludes
<1>9. CASE d.ch \in Spaces
  <2>1. in' = d.in /\ prompts' = prompts + Newline(d.ch)
    BY <1>1, <1>2, <1>9 DEF EOF, Spaces, Newline, Typed
  <2>2. PutBackIsSpace'
    BY <1>4, <2>1 DEF PutBackIsSpace
  <2> QED
    BY <1>3, <1>4, <1>6, <2>1, <2>2, Concludes
<1> QED
  BY <1>7, <1>8, <1>9

\* ?WORD: the space behind the word is put back.
LEMMA CollectKeeps == IInv /\ Collect => IInv'
<1> SUFFICES ASSUME IInv, Collect PROVE IInv'
  OBVIOUS
<1>1. Typed /\ NameFits /\ phase = "collect" /\ Len(name) < NameMax /\ name \in Seq(Chars)
      /\ Len(name) \in Nat
  BY TypedAtFirst DEF IInv, Collect, NameFits, Typed
<1>2. PICK d \in GetCh(in) :
       \/ d.ch = EOF /\ in' = d.in /\ UNCHANGED name /\ Finish("term")
       \/ d.ch \in Spaces /\ in' = PutBack(d) /\ UNCHANGED name /\ Finish("term")
       \/ /\ d.ch \notin Spaces \union {EOF}
          /\ in' = d.in
          /\ name' = Append(name, d.ch)
          /\ phase' = IF Len(name') < NameMax THEN "collect" ELSE "exec"
          /\ UNCHANGED reason
  BY DEF Collect
<1>3. file' = file /\ macro' = macro /\ texts' = texts /\ prompts' = prompts /\ reason = "no"
  BY <1>1 DEF Collect, Typed
<1>4. /\ d.ch \in Chars \union {EOF} /\ Fine(d.in) /\ d.in.putback \in Spaces \union {None}
      /\ prompts + Cardinality(Pending(d.in)) <= d.in.lines
      /\ d.ch # EOF =>
           /\ Fine(PutBack(d)) /\ PutBack(d).putback = d.ch
           /\ prompts + Cardinality(Pending(PutBack(d))) <= PutBack(d).lines
  BY ReadFacts
<1>5. ASSUME name' = name, Finish("term") PROVE Typed' /\ NameFits'
  <2>1. \/ phase' = "halt" /\ reason' = "term"
        \/ phase' = "exec" /\ reason' = "no"
    BY <1>3, <1>5 DEF Finish, Halt
  <2> QED
    BY <1>1, <1>3, <1>5, <2>1 DEF Typed, NameFits
<1>6. CASE d.ch = EOF
  <2>1. in' = d.in /\ name' = name /\ Finish("term")
    BY <1>2, <1>6 DEF EOF, Spaces
  <2>2. PutBackIsSpace'
    BY <1>4, <2>1 DEF PutBackIsSpace
  <2> QED
    BY <1>3, <1>4, <1>5, <2>1, <2>2, Concludes
<1>7. CASE d.ch \in Spaces
  <2>1. in' = PutBack(d) /\ name' = name /\ Finish("term") /\ d.ch # EOF
    BY <1>2, <1>7 DEF EOF, Spaces
  <2>2. PutBackIsSpace'
    BY <1>4, <1>7, <2>1 DEF PutBackIsSpace
  <2> QED
    BY <1>3, <1>4, <1>5, <2>1, <2>2, Concludes
<1>8. CASE d.ch \notin Spaces \union {EOF}
  <2>1. /\ in' = d.in /\ name' = Append(name, d.ch) /\ reason' = reason
        /\ phase' = IF Len(name') < NameMax THEN "collect" ELSE "exec"
    BY <1>2, <1>8
  <2>2. PutBackIsSpace'
    BY <1>4, <2>1 DEF PutBackIsSpace
  <2>3. name' \in Seq(Chars) /\ Len(name') = Len(name) + 1
    <3>1. d.ch \in Chars
      BY <1>4, <1>8
    <3> QED
      BY <1>1, <2>1, <3>1
  <2>4. Len(name') <= NameMax
    BY <1>1, <2>3, InputAssumption
  <2>5. \/ phase' = "collect" /\ Len(name') < NameMax
        \/ phase' = "exec"
    BY <2>1
  <2>6. Typed' /\ NameFits'
    BY <1>1, <1>3, <2>1, <2>3, <2>4, <2>5 DEF Typed, NameFits
  <2> QED
    BY <1>3, <1>4, <2>1, <2>2, <2>6, Concludes
<1> QED
  BY <1>6, <1>7, <1>8

\* INTERPRET leaves the input alone.
LEMMA ExecuteKeeps == IInv /\ Execute => IInv'
<1> SUFFICES ASSUME IInv, Execute PROVE IInv'
  OBVIOUS
<1>1. Typed /\ phase = "exec" /\ name' = <<>> /\ Fine(in) /\ in' = in
      /\ in.putback \in Spaces \union {None}
      /\ file' = file /\ macro' = macro /\ prompts' = prompts /\ reason' = reason /\ reason = "no"
  BY TypedAtFirst DEF IInv, Execute, PutBackIsSpace, Typed
<1>2. /\ phase' \in {"comment", "paren", "skip", "eval"} /\ texts' \in Seq(Seq(Chars))
      /\ phase' = "eval" => texts' # <<>>
  <2>1. Texts \in Seq(Seq(Chars))
    <3>1. macro \in MacroTables
      BY <1>1 DEF Typed
    <3>2. \A w \in DOMAIN macro : macro[w] \in Seq(Seq(Chars))
      BY <3>1, InputAssumption
    <3>3. CASE name \in DOMAIN macro
      BY <3>2, <3>3 DEF Texts
    <3>4. CASE name \notin DOMAIN macro
      BY <3>4 DEF Texts
    <3> QED
      BY <3>3, <3>4
  <2>2. \/ phase' \in {"comment", "paren"} /\ texts' = texts
        \/ texts' = Texts /\ phase' = IF Texts = <<>> THEN "skip" ELSE "eval"
    BY DEF Execute
  <2> QED
    BY <1>1, <2>1, <2>2 DEF Typed
<1>3. Typed' /\ NameFits'
  <2>1. Len(name') = 0 /\ name' \in Seq(Chars) /\ 0 <= NameMax
    BY <1>1, InputAssumption
  <2> QED
    BY <1>1, <1>2, <2>1 DEF Typed, NameFits
<1>4. PutBackIsSpace'
  BY <1>1 DEF PutBackIsSpace
<1>5. prompts' + Cardinality(Pending(in)) <= in.lines
  BY <1>1 DEF IInv, PromptOnce
<1> QED
  BY <1>1, <1>3, <1>4, <1>5, Concludes

\* EVAL, with room on the stack or without.
LEMMA EvalKeeps == IInv /\ Eval => IInv'
<1> SUFFICES ASSUME IInv, Eval PROVE IInv'
  OBVIOUS
<1>1. Typed /\ phase = "eval" /\ name = <<>> /\ Fine(in)
      /\ in.putback \in Spaces \union {None} /\ prompts + Cardinality(Pending(in)) <= in.lines
      /\ file' = file /\ macro' = macro /\ prompts' = prompts /\ name' = name /\ reason = "no"
      /\ texts \in Seq(Seq(Chars)) /\ texts # <<>>
  BY TypedAtFirst DEF IInv, Eval, PutBackIsSpace, Typed, PromptOnce, NameFits
<1>2. CASE EvalFits(in)
  <2>1. /\ in' = EvalPush(in, Head(texts)) /\ texts' = Tail(texts) /\ reason' = reason
        /\ phase' = IF Tail(texts) = <<>> THEN "skip" ELSE "eval"
    BY <1>2 DEF Eval
  <2> DEFINE t == Head(texts)  e == EvalPush(in, t)
  <2>2. t \in Seq(Chars) /\ Tail(texts) \in Seq(Seq(Chars))
    BY <1>1, HeadTailProperties
  <2> HIDE DEF t
  <2>3. /\ Fine(e) /\ e.putback = None /\ e.lines = in.lines
        /\ Cardinality(Pending(e)) <= Cardinality(Pending(in))
    BY <1>1, <1>2, <2>2, EvalPushFacts
  <2>4. in' = e
    BY <2>1 DEF t
  <2> HIDE DEF e
  <2>5. prompts' + Cardinality(Pending(e)) <= e.lines
    <3>1. /\ in \in Inputs /\ Cardinality(Pending(in)) \in Nat /\ Cardinality(Pending(e)) \in Nat
      BY <1>1, <2>3, PosFacts, PendingFacts
    <3>2. in.lines \in Nat /\ prompts \in Nat
      BY <1>1, <3>1 DEF Inputs, Typed
    <3> QED
      BY <1>1, <2>3, <3>1, <3>2
  <2>6. PutBackIsSpace'
    BY <2>3, <2>4 DEF PutBackIsSpace
  <2>7. phase' \in {"skip", "eval"} /\ (phase' = "eval" => texts' # <<>>)
    BY <2>1
  <2>8. Typed' /\ NameFits'
    BY <1>1, <2>1, <2>2, <2>7 DEF Typed, NameFits
  <2> QED
    BY <1>1, <2>3, <2>4, <2>5, <2>6, <2>8, Concludes
<1>3. CASE ~EvalFits(in)
  <2>1. in' = in /\ texts' = texts /\ phase' = "halt" /\ reason' = "evalstkovf"
    BY <1>3 DEF Eval, Halt
  <2>2. PutBackIsSpace'
    BY <1>1, <2>1 DEF PutBackIsSpace
  <2>3. Typed' /\ NameFits'
    BY <1>1, <2>1 DEF Typed, NameFits
  <2>4. prompts' + Cardinality(Pending(in)) <= in.lines
    BY <1>1
  <2> QED
    BY <1>1, <2>1, <2>2, <2>3, <2>4, Concludes
<1> QED
  BY <1>2, <1>3

\* The comment words: \ puts the newline back, ( takes the parenthesis.
LEMMA CommentKeeps == IInv /\ Comment => IInv'
<1> SUFFICES ASSUME IInv, Comment PROVE IInv'
  OBVIOUS
<1>1. Typed /\ phase \in {"comment", "paren"} /\ name = <<>>
      /\ file' = file /\ macro' = macro /\ prompts' = prompts /\ name' = name /\ reason = "no"
      /\ texts' = texts
  BY TypedAtFirst DEF IInv, Comment, Typed, NameFits
<1>2. PICK d \in GetCh(in) :
        \/ d.ch = EOF /\ in' = d.in /\ Halt("unexpeof")
        \/ /\ phase = "comment" /\ d.ch = "nl"
           /\ in' = PutBack(d) /\ phase' = "skip" /\ UNCHANGED reason
        \/ /\ phase = "paren" /\ d.ch = "rp"
           /\ in' = d.in /\ phase' = "skip" /\ UNCHANGED reason
        \/ /\ d.ch \notin {EOF, IF phase = "comment" THEN "nl" ELSE "rp"}
           /\ in' = d.in /\ UNCHANGED <<phase, reason>>
  BY DEF Comment
<1>3. /\ d.ch \in Chars \union {EOF} /\ Fine(d.in) /\ d.in.putback \in Spaces \union {None}
      /\ prompts + Cardinality(Pending(d.in)) <= d.in.lines
      /\ d.ch # EOF =>
           /\ Fine(PutBack(d)) /\ PutBack(d).putback = d.ch
           /\ prompts + Cardinality(Pending(PutBack(d))) <= PutBack(d).lines
  BY ReadFacts
<1>4. \/ phase' = "halt" /\ reason' = "unexpeof"
      \/ phase' \in {"skip", "comment", "paren"} /\ reason' = reason
  BY <1>1, <1>2 DEF Halt
<1>5. Typed' /\ NameFits'
  BY <1>1, <1>4 DEF Typed, NameFits
<1>6. CASE in' = d.in
  <2>1. PutBackIsSpace'
    BY <1>3, <1>6 DEF PutBackIsSpace
  <2> QED
    BY <1>1, <1>3, <1>5, <1>6, <2>1, Concludes
<1>7. CASE in' = PutBack(d) /\ d.ch = "nl"
  <2>1. d.ch # EOF /\ d.ch \in Spaces
    BY <1>7 DEF EOF, Spaces
  <2>2. PutBackIsSpace'
    BY <1>3, <1>7, <2>1 DEF PutBackIsSpace
  <2> QED
    BY <1>1, <1>3, <1>5, <1>7, <2>1, <2>2, Concludes
<1> QED
  BY <1>2, <1>6, <1>7

LEMMA StutterKeeps == IInv /\ UNCHANGED vars => IInv'
<1> SUFFICES ASSUME IInv, UNCHANGED vars PROVE IInv'
  OBVIOUS
<1>1. /\ file' = file /\ macro' = macro /\ in' = in /\ name' = name /\ texts' = texts
      /\ phase' = phase /\ prompts' = prompts /\ reason' = reason
  BY DEF vars
<1>2. Typed /\ NameFits /\ PutBackIsSpace /\ Fine(in) /\ prompts + Cardinality(Pending(in)) <= in.lines
  BY TypedAtFirst DEF IInv, PromptOnce
<1>3. Typed' /\ NameFits' /\ PutBackIsSpace'
  BY <1>1, <1>2 DEF Typed, NameFits, PutBackIsSpace
<1>4. prompts' + Cardinality(Pending(in)) <= in.lines
  BY <1>1, <1>2
<1> QED
  BY <1>1, <1>2, <1>3, <1>4, Concludes

\* Before the first character only the first text is there.
LEMMA InitSound == Init => IInv
<1> SUFFICES ASSUME Init PROVE IInv
  OBVIOUS
<1>1. PICK boot \in BootTexts :
        in = [eval |-> TRUE, text |-> boot, pos |-> 0, putback |-> None,
              stack |-> <<>>, inp |-> <<>>, ipos |-> 0, nread |-> 0, errs |-> 0,
              boot |-> boot, lines |-> 0]
  BY DEF Init
<1>2. /\ file \in Seq(Chars) /\ macro \in MacroTables /\ boot \in Seq(Chars)
      /\ name = <<>> /\ texts = <<>> /\ phase = "skip" /\ prompts = 0 /\ reason = "no"
  BY <1>1, InputAssumption DEF Init
<1> DEFINE none == <<>>
<1>3. /\ none \in Seq(Chars) /\ none \in Seq(Contexts) /\ none \in Seq(Seq(Chars)) /\ Len(none) = 0
      /\ name = none /\ texts = none
  BY <1>2
<1>4. /\ in.eval = TRUE /\ in.text = boot /\ in.pos = 0 /\ in.putback = None
      /\ in.stack = none /\ in.inp = none /\ in.ipos = 0 /\ in.nread = 0 /\ in.errs = 0
      /\ in.boot = boot /\ in.lines = 0
  BY <1>1
<1> HIDE DEF none
<1>5. in \in Inputs
  <2>1. in = [eval |-> TRUE, text |-> boot, pos |-> 0, putback |-> None,
              stack |-> none, inp |-> none, ipos |-> 0, nread |-> 0, errs |-> 0,
              boot |-> boot, lines |-> 0]
    BY <1>1 DEF none
  <2> QED
    BY <1>2, <1>3, <2>1 DEF Inputs
<1>6. Sized(in)
  <2>1. 0 <= MaxErrors /\ 0 <= Len(file) /\ 0 <= Chunk /\ 0 <= EvalSlots
    BY <1>2, InputAssumption
  <2> QED
    BY <1>3, <1>4, <1>5, <2>1 DEF Sized
<1> DEFINE a == All(in)
<1>7. Len(a) = 1 /\ a[1] = Current(in)
  <2>1. Len(a) = Len(in.stack) + 1 /\ a[1] = Current(in)
    BY <1>5, AllFacts
  <2> QED
    BY <1>3, <1>4, <2>1
<1>8. a[1].pos = 0 /\ a[1].text = boot /\ a[1].eval = TRUE
  BY <1>4, <1>7 DEF Current, Context
<1> HIDE DEF a
<1>9. Nested(in, a)
  <2>1. \A k \in 1 .. Len(a) : a[k].pos <= Len(a[k].text)
    <3>1. 0 <= Len(boot)
      BY <1>2
    <3> QED
      BY <1>7, <1>8, <3>1
  <2>2. ~ \E k \in 1 .. Len(a) - 1 : TRUE
    BY <1>7
  <2>3. ~ \E k \in 2 .. Len(a) : TRUE
    BY <1>7
  <2> QED
    BY <1>4, <1>7, <1>8, <2>1, <2>2, <2>3 DEF Nested
<1>10. Fine(in)
  BY <1>6, <1>9 DEF Fine, a
<1>11. Typed /\ NameFits /\ PutBackIsSpace
  <2>1. Len(name) = 0 /\ 0 <= NameMax /\ name \in Seq(Chars) /\ texts \in Seq(Seq(Chars))
    BY <1>3, InputAssumption
  <2> QED
    BY <1>2, <1>4, <2>1 DEF Typed, NameFits, PutBackIsSpace
<1>12. PromptOnce
  <2>1. Pending(in) = {}
    BY <1>3, <1>4 DEF Pending, None
  <2> QED
    BY <1>2, <1>4, <2>1, FS_EmptySet DEF PromptOnce
<1> QED
  BY <1>10, <1>11, <1>12, FineIsTyped DEF IInv

LEMMA StepSound == IInv /\ [Next]_vars => IInv'
BY SkipSpcKeeps, CollectKeeps, ExecuteKeeps, EvalKeeps, CommentKeeps, StutterKeeps DEF Next

THEOREM Invariance == Spec => []IInv
BY InitSound, StepSound, PTL DEF Spec

\* The inputs of a sound state are as EvalStackSound says.
LEMMA FineIsSound == Fine(in) => EvalStackSound
<1> SUFFICES ASSUME Fine(in) PROVE EvalStackSound
  OBVIOUS
<1> DEFINE a == All(in)
<1>1. in \in Inputs /\ Len(in.stack) <= EvalSlots /\ Nested(in, a)
  BY DEF Fine, Sized
<1>2. /\ Len(a) = Len(in.stack) + 1 /\ Len(in.stack) \in Nat /\ in.stack \in Seq(Contexts)
      /\ \A k \in 1 .. Len(in.stack) : a[k + 1] = in.stack[k]
  BY <1>1, AllFacts
<1>3. a = <<Current(in)>> \o in.stack /\ Last(a) = a[Len(a)]
  BY DEF All, Last
<1> HIDE DEF a
<1>4. /\ \A k \in 1 .. Len(a) - 1 : a[k].eval
      /\ Last(a).eval => Last(a).text = in.boot /\ in.nread = 0
  BY <1>1, <1>3 DEF Nested
<1>5. ASSUME NEW k \in DOMAIN in.stack PROVE in.stack[k].putback \in Spaces \union {None}
  <2> DEFINE m == k + 1
  <2>1. k \in 1 .. Len(in.stack) /\ m \in 2 .. Len(a)
    BY <1>2
  <2>2. a[m] = in.stack[k]
    BY <1>2, <2>1
  <2> HIDE DEF m
  <2> QED
    BY <1>1, <2>1, <2>2 DEF Nested
<1> QED
  BY <1>1, <1>3, <1>4, <1>5 DEF EvalStackSound

(***************************************************************************)
(* The types, for every program, file and size: the positions stay inside  *)
(* their texts and buffers, a word inside NAME.                            *)
(***************************************************************************)
THEOREM TypeCorrect == Spec => []TypeOK
<1>1. IInv => TypeOK
  BY DEF IInv
<1> QED
  BY <1>1, Invariance, PTL

(***************************************************************************)
(* The evaluation stack stays in its memory, its outermost input is the    *)
(* first text until that is read and the file from then on, and what it    *)
(* saves of the lookahead is a space.                                      *)
(***************************************************************************)
THEOREM EvalStackTheorem == Spec => []EvalStackSound
<1>1. IInv => EvalStackSound
  BY FineIsSound DEF IInv
<1> QED
  BY <1>1, Invariance, PTL

(***************************************************************************)
(* Every prompt is for a newline of its own: with those that are put back, *)
(* in the input that is read or in one it interrupts, they are at most as  *)
(* many as were read.                                                      *)
(***************************************************************************)
THEOREM PromptTheorem == Spec => []PromptOnce
<1>1. IInv => PromptOnce
  BY DEF IInv
<1> QED
  BY <1>1, Invariance, PTL

-----------------------------------------------------------------------------
(* Recursion over sequences: the functions of the model that are defined   *)
(* by it exist.  The least number without a property does the induction.   *)

\* Induction over the natural numbers, for a set.
LEMMA Induct ==
  ASSUME NEW S, S \subseteq Nat, 0 \in S, \A n \in S : n + 1 \in S
  PROVE  S = Nat
<1> SUFFICES ASSUME Nat \ S # {} PROVE FALSE
  OBVIOUS
<1>1. PICK k \in Nat \ S : \A y \in Nat \ S : k <= y
  BY LeastExists
<1>2. k - 1 \in Nat /\ ~(k <= k - 1) /\ (k - 1) + 1 = k
  BY <1>1
<1>3. k - 1 \in S
  BY <1>1, <1>2
<1> QED
  BY <1>1, <1>2, <1>3

\* F is what b and g make of every sequence over A ...
Recursive(F, A, b, g) ==
  F = [s \in Seq(A) |-> IF s = <<>> THEN b ELSE g[<<Head(s), F[Tail(s)]>>]]

\* ... and of those of at most n elements.
Upto(A, n) == {s \in Seq(A) : Len(s) <= n}
Correct(F, A, B, b, g, n) ==
  /\ F \in [Upto(A, n) -> B]
  /\ \A s \in Upto(A, n) : F[s] = IF s = <<>> THEN b ELSE g[<<Head(s), F[Tail(s)]>>]

LEMMA TailFacts ==
  ASSUME NEW A, NEW s \in Seq(A), s # <<>>
  PROVE  /\ Head(s) \in A /\ Tail(s) \in Seq(A) /\ Len(s) \in Nat /\ Len(Tail(s)) = Len(s) - 1
         /\ Len(s) >= 1 /\ s = <<Head(s)>> \o Tail(s)
<1>1. /\ Head(s) \in A /\ Tail(s) \in Seq(A) /\ Len(s) \in Nat /\ Len(Tail(s)) = Len(s) - 1
      /\ Len(s) >= 1
  BY HeadTailProperties, EmptySeq
<1>2. 1 \in 1 .. Len(s) /\ Len(s) \in 1 .. Len(s)
  BY <1>1
<1>3. SubSeq(s, 1, Len(s)) = <<s[1]>> \o SubSeq(s, 1 + 1, Len(s))
  BY <1>2, SubSeqRecursiveFirst
<1>4. SubSeq(s, 1, Len(s)) = s /\ Tail(s) = SubSeq(s, 2, Len(s)) /\ Head(s) = s[1]
  BY SubSeqFull, TailIsSubSeq
<1> QED
  BY <1>1, <1>3, <1>4

LEMMA CorrectExists ==
  ASSUME NEW A, NEW B, NEW b \in B, NEW g \in [A \X B -> B]
  PROVE  \A n \in Nat : \E F : Correct(F, A, B, b, g, n)
<1> DEFINE N == {n \in Nat : \E F : Correct(F, A, B, b, g, n)}
<1>1. 0 \in N
  <2> DEFINE F == [s \in Upto(A, 0) |-> b]
  <2>1. F \in [Upto(A, 0) -> B]
    OBVIOUS
  <2>2. ASSUME NEW s \in Upto(A, 0) PROVE s = <<>> /\ F[s] = b
    <3>1. s \in Seq(A) /\ Len(s) <= 0
      BY DEF Upto
    <3>2. s = <<>>
      BY <3>1, TailFacts
    <3> QED
      BY <3>2
  <2> HIDE DEF F
  <2>3. Correct(F, A, B, b, g, 0)
    BY <2>1, <2>2 DEF Correct
  <2> QED
    BY <2>3
<1>2. ASSUME NEW n \in N PROVE n + 1 \in N
  <2>1. PICK F : Correct(F, A, B, b, g, n)
    OBVIOUS
  <2>2. n \in Nat /\ n + 1 \in Nat
    OBVIOUS
  <2> DEFINE U == Upto(A, n)  V == Upto(A, n + 1)
             G == [s \in V |-> IF s = <<>> THEN b ELSE g[<<Head(s), F[Tail(s)]>>]]
  <2>3. /\ F \in [U -> B]
        /\ \A s \in U : F[s] = IF s = <<>> THEN b ELSE g[<<Head(s), F[Tail(s)]>>]
    BY <2>1 DEF Correct
  <2>4. U \subseteq V /\ \A s \in V : s \in Seq(A)
    BY <2>2 DEF Upto
  <2>5. ASSUME NEW s \in V, s # <<>> PROVE Tail(s) \in U /\ Head(s) \in A
    <3>1. s \in Seq(A) /\ Len(s) <= n + 1
      BY DEF Upto
    <3>2. Head(s) \in A /\ Tail(s) \in Seq(A) /\ Len(Tail(s)) <= n
      BY <2>2, <2>5, <3>1, TailFacts
    <3> QED
      BY <3>2 DEF Upto
  <2> HIDE DEF U, V
  <2>6. \A s \in V : G[s] = IF s = <<>> THEN b ELSE g[<<Head(s), F[Tail(s)]>>]
    OBVIOUS
  <2>7. G \in [V -> B]
    <3>1. ASSUME NEW s \in V PROVE (IF s = <<>> THEN b ELSE g[<<Head(s), F[Tail(s)]>>]) \in B
      <4>1. CASE s = <<>>
        BY <4>1
      <4>2. CASE s # <<>>
        <5>1. F[Tail(s)] \in B /\ Head(s) \in A
          BY <2>3, <2>5, <4>2
        <5>2. <<Head(s), F[Tail(s)]>> \in A \X B
          BY <5>1
        <5> QED
          BY <4>2, <5>2
      <4> QED
        BY <4>1, <4>2
    <3> QED
      BY <3>1
  <2> HIDE DEF G
  <2>8. ASSUME NEW s \in U PROVE G[s] = F[s]
    BY <2>3, <2>4, <2>6
  <2>9. ASSUME NEW s \in V
        PROVE  G[s] = IF s = <<>> THEN b ELSE g[<<Head(s), G[Tail(s)]>>]
    BY <2>5, <2>6, <2>8
  <2>10. Correct(G, A, B, b, g, n + 1)
    BY <2>7, <2>9 DEF Correct, V
  <2> QED
    BY <2>2, <2>10
<1> HIDE DEF N
<1>3. N = Nat
  <2>1. N \subseteq Nat
    BY DEF N
  <2> QED
    BY <1>1, <1>2, <2>1, Induct
<1> QED
  BY <1>3 DEF N

Agree(F, G, S) == \A s \in S : F[s] = G[s]

LEMMA CorrectAgree ==
  ASSUME NEW A, NEW B, NEW b, NEW g, NEW n \in Nat, NEW m \in Nat, n <= m,
         NEW F, NEW G, Correct(F, A, B, b, g, n), Correct(G, A, B, b, g, m)
  PROVE  Agree(F, G, Upto(A, n))
<1> DEFINE N == {k \in Nat : \A s \in Upto(A, n) : Len(s) <= k => F[s] = G[s]}
<1>1. /\ \A s \in Upto(A, n) : F[s] = IF s = <<>> THEN b ELSE g[<<Head(s), F[Tail(s)]>>]
      /\ \A s \in Upto(A, m) : G[s] = IF s = <<>> THEN b ELSE g[<<Head(s), G[Tail(s)]>>]
  BY DEF Correct
<1>2. \A s \in Upto(A, n) : s \in Upto(A, m) /\ s \in Seq(A) /\ Len(s) \in Nat /\ Len(s) <= n
  BY DEF Upto
<1>3. 0 \in N
  <2>1. ASSUME NEW s \in Upto(A, n), Len(s) <= 0 PROVE F[s] = G[s]
    <3>1. s = <<>>
      BY <1>2, <2>1, TailFacts
    <3> QED
      BY <1>1, <1>2, <3>1
  <2> QED
    BY <2>1
<1>4. ASSUME NEW k \in N PROVE k + 1 \in N
  <2>1. ASSUME NEW s \in Upto(A, n), Len(s) <= k + 1 PROVE F[s] = G[s]
    <3>1. CASE s = <<>>
      BY <1>1, <1>2, <3>1
    <3>2. CASE s # <<>>
      <4>1. Tail(s) \in Seq(A) /\ Len(Tail(s)) = Len(s) - 1 /\ Len(s) \in Nat
        BY <1>2, <3>2, TailFacts
      <4>2. Tail(s) \in Upto(A, n) /\ Len(Tail(s)) <= k
        BY <1>2, <2>1, <4>1 DEF Upto
      <4>3. F[Tail(s)] = G[Tail(s)]
        BY <4>2
      <4> QED
        BY <1>1, <1>2, <3>2, <4>3
    <3> QED
      BY <3>1, <3>2
  <2> QED
    BY <2>1
<1> HIDE DEF N
<1>5. N = Nat
  <2>1. N \subseteq Nat
    BY DEF N
  <2> QED
    BY <1>3, <1>4, <2>1, Induct
<1> QED
  BY <1>2, <1>5 DEF N, Agree

LEMMA SeqRecursion ==
  ASSUME NEW A, NEW B, NEW b \in B, NEW g \in [A \X B -> B]
  PROVE  \E F \in [Seq(A) -> B] : Recursive(F, A, b, g)
<1> DEFINE H(n) == CHOOSE f : Correct(f, A, B, b, g, n)
<1>1. ASSUME NEW n \in Nat PROVE Correct(H(n), A, B, b, g, n)
  BY CorrectExists
<1>2. ASSUME NEW n \in Nat, NEW m \in Nat, n <= m, NEW s \in Upto(A, n) PROVE H(n)[s] = H(m)[s]
  <2>1. Correct(H(n), A, B, b, g, n) /\ Correct(H(m), A, B, b, g, m)
    BY <1>1
  <2>2. PICK f, h : f = H(n) /\ h = H(m)
    OBVIOUS
  <2> HIDE DEF H
  <2>3. Correct(f, A, B, b, g, n) /\ Correct(h, A, B, b, g, m)
    BY <2>1, <2>2
  <2>4. Agree(f, h, Upto(A, n))
    <3>1. n \in Nat /\ m \in Nat /\ n <= m /\ b \in B /\ g \in [A \X B -> B]
      BY <1>2
    <3> QED
      BY <2>3, <3>1, CorrectAgree
  <2> QED
    BY <1>2, <2>2, <2>4 DEF Agree
<1> HIDE DEF H
<1> DEFINE F == [s \in Seq(A) |-> H(Len(s))[s]]
<1>3. \A s \in Seq(A) : Len(s) \in Nat /\ s \in Upto(A, Len(s))
  BY DEF Upto
<1>4. \A s \in Seq(A) : H(Len(s))[s] \in B
  BY <1>1, <1>3 DEF Correct
<1>5. F \in [Seq(A) -> B] /\ \A s \in Seq(A) : F[s] = H(Len(s))[s]
  BY <1>4
<1>6. F = [s \in Seq(A) |-> F[s]]
  OBVIOUS
<1> HIDE DEF F
<1>7. ASSUME NEW s \in Seq(A)
      PROVE  F[s] = IF s = <<>> THEN b ELSE g[<<Head(s), F[Tail(s)]>>]
  <2>1. H(Len(s))[s] = IF s = <<>> THEN b ELSE g[<<Head(s), H(Len(s))[Tail(s)]>>]
    BY <1>1, <1>3 DEF Correct
  <2>2. CASE s = <<>>
    BY <1>5, <2>1, <2>2
  <2>3. CASE s # <<>>
    <3>1. Tail(s) \in Seq(A) /\ Len(Tail(s)) <= Len(s) /\ Len(s) \in Nat
      BY <2>3, TailFacts
    <3>2. Len(Tail(s)) \in Nat /\ Tail(s) \in Upto(A, Len(Tail(s)))
      BY <1>3, <3>1
    <3>3. H(Len(Tail(s)))[Tail(s)] = H(Len(s))[Tail(s)]
      BY <1>2, <3>1, <3>2
    <3>4. F[Tail(s)] = H(Len(s))[Tail(s)]
      BY <1>5, <3>1, <3>3
    <3> QED
      BY <1>5, <2>1, <2>3, <3>4
  <2> QED
    BY <2>2, <2>3
<1>8. Recursive(F, A, b, g)
  BY <1>6, <1>7 DEF Recursive
<1> QED
  BY <1>5, <1>8

-----------------------------------------------------------------------------
(* The lexer. *)

\* Induction over sequences, for a set.
LEMMA SeqInduct ==
  ASSUME NEW A, NEW S, S \subseteq Seq(A), <<>> \in S, \A c \in A, s \in S : <<c>> \o s \in S
  PROVE  S = Seq(A)
<1> DEFINE N == {n \in Nat : \A s \in Seq(A) : Len(s) <= n => s \in S}
<1>1. 0 \in N
  <2>1. ASSUME NEW s \in Seq(A), Len(s) <= 0 PROVE s \in S
    <3>1. s = <<>>
      BY <2>1, TailFacts
    <3> QED
      BY <3>1
  <2> QED
    BY <2>1
<1>2. ASSUME NEW n \in N PROVE n + 1 \in N
  <2>1. ASSUME NEW s \in Seq(A), Len(s) <= n + 1 PROVE s \in S
    <3>1. CASE s = <<>>
      BY <3>1
    <3>2. CASE s # <<>>
      <4>1. /\ Head(s) \in A /\ Tail(s) \in Seq(A) /\ Len(s) \in Nat /\ Len(Tail(s)) = Len(s) - 1
            /\ s = <<Head(s)>> \o Tail(s)
        BY <3>2, TailFacts
      <4>2. Tail(s) \in S
        <5>1. Len(Tail(s)) <= n /\ n \in Nat
          BY <2>1, <4>1
        <5>2. \A t \in Seq(A) : Len(t) <= n => t \in S
          OBVIOUS
        <5> QED
          BY <4>1, <5>1, <5>2
      <4> QED
        BY <4>1, <4>2
    <3> QED
      BY <3>1, <3>2
  <2> QED
    BY <2>1
<1> HIDE DEF N
<1>3. N = Nat
  <2>1. N \subseteq Nat
    BY DEF N
  <2> QED
    BY <1>1, <1>2, <2>1, Induct
<1>4. ASSUME NEW s \in Seq(A) PROVE s \in S
  <2>1. Len(s) \in Nat /\ Len(s) <= Len(s)
    OBVIOUS
  <2> QED
    BY <1>3, <2>1 DEF N
<1> QED
  BY <1>4

LEMMA EndedFacts ==
  ASSUME NEW st \in Lexer
  PROVE  /\ Ended(st) \in Lexer /\ Ended(st).cur = <<>>
         /\ st.cur = <<>> => Ended(st) = st
         /\ st.cur = LineComment => Ended(st) = [mode |-> "comment", cur |-> <<>>, words |-> st.words]
         /\ st.cur = Paren => Ended(st) = [mode |-> "paren", cur |-> <<>>, words |-> st.words]
         /\ st.cur \notin CommentWords \union {<<>>} =>
              Ended(st) = [mode |-> st.mode, cur |-> <<>>, words |-> Append(st.words, st.cur)]
<1>1. /\ st.mode \in {"word", "comment", "paren"} /\ st.cur \in Seq(Chars)
      /\ st.words \in Seq(Seq(Chars))
      /\ st = [mode |-> st.mode, cur |-> st.cur, words |-> st.words]
  BY DEF Lexer
<1>2. LineComment # <<>> /\ Paren # <<>> /\ LineComment # Paren
  BY DEF LineComment, Paren
<1> DEFINE none == <<>>
<1>3. none \in Seq(Chars)
  OBVIOUS
<1> HIDE DEF none
<1>4. CASE st.cur = none
  <2>1. Ended(st) = st
    BY <1>2, <1>4, Zenon DEF Ended, none
  <2> QED
    BY <1>2, <1>4, <2>1 DEF none
<1>5. CASE st.cur = LineComment
  <2>1. Ended(st) = [st EXCEPT !.cur = none, !.mode = "comment"]
    BY <1>2, <1>5 DEF Ended, none
  <2>2. Ended(st) = [mode |-> "comment", cur |-> none, words |-> st.words]
    BY <1>1, <2>1
  <2>3. Ended(st) \in Lexer
    BY <1>1, <1>3, <2>2 DEF Lexer
  <2> QED
    BY <1>2, <1>5, <2>2, <2>3 DEF CommentWords, none
<1>6. CASE st.cur = Paren
  <2>1. Ended(st) = [st EXCEPT !.cur = none, !.mode = "paren"]
    BY <1>2, <1>6 DEF Ended, none
  <2>2. Ended(st) = [mode |-> "paren", cur |-> none, words |-> st.words]
    BY <1>1, <2>1
  <2>3. Ended(st) \in Lexer
    BY <1>1, <1>3, <2>2 DEF Lexer
  <2> QED
    BY <1>2, <1>6, <2>2, <2>3 DEF CommentWords, none
<1>7. CASE st.cur \notin CommentWords \union {none}
  <2>1. Ended(st) = [st EXCEPT !.cur = none, !.words = Append(st.words, st.cur)]
    BY <1>2, <1>7 DEF Ended, none, CommentWords
  <2>2. Ended(st) = [mode |-> st.mode, cur |-> none, words |-> Append(st.words, st.cur)]
    BY <1>1, <2>1
  <2>3. Ended(st) \in Lexer
    BY <1>1, <1>3, <2>2 DEF Lexer
  <2> QED
    BY <1>2, <1>7, <2>2, <2>3 DEF CommentWords, none
<1> QED
  BY <1>4, <1>5, <1>6, <1>7 DEF CommentWords, none

LEMMA CloseFacts ==
  ASSUME NEW st \in Lexer, NEW c
  PROVE  /\ Close(st, c) \in Lexer /\ Close(st, c).cur = st.cur /\ Close(st, c).words = st.words
         /\ Close(st, c).mode = IF Closes(st, c) THEN "word" ELSE st.mode
         /\ ~Closes(st, c) => Close(st, c) = st
BY DEF Close, Lexer

LEMMA LongerFacts ==
  ASSUME NEW st \in Lexer, NEW c \in Chars
  PROVE  /\ Longer(st, c) \in Lexer /\ Longer(st, c).cur = Append(st.cur, c)
         /\ Longer(st, c).mode = st.mode /\ Longer(st, c).words = st.words
<1>1. st.cur \in Seq(Chars)
  BY DEF Lexer
<1> DEFINE t == Append(st.cur, c)
<1>2. t \in Seq(Chars) /\ Longer(st, c) = [st EXCEPT !.cur = t]
  BY <1>1, AppendProperties DEF Longer
<1> HIDE DEF t
<1>3. /\ Longer(st, c) \in Lexer /\ Longer(st, c).cur = t
      /\ Longer(st, c).mode = st.mode /\ Longer(st, c).words = st.words
  BY <1>2 DEF Lexer
<1> QED
  BY <1>3 DEF t

LEMMA LexIs ==
  ASSUME NEW st \in Lexer, NEW c \in Chars
  PROVE  /\ Lex(st, c) \in Lexer
         /\ st.mode # "word" => Lex(st, c) = Close(st, c)
         /\ st.mode = "word" /\ c \in Spaces => Lex(st, c) = Close(Ended(st), c)
         /\ st.mode = "word" /\ c \notin Spaces /\ Len(st.cur) + 1 < NameMax => Lex(st, c) = Longer(st, c)
         /\ st.mode = "word" /\ c \notin Spaces /\ ~(Len(st.cur) + 1 < NameMax) =>
              Lex(st, c) = Ended(Longer(st, c))
BY EndedFacts, CloseFacts, LongerFacts DEF Lex

\* The words are only added to: what the lexer has found so far does not matter.
With(w, st) == [st EXCEPT !.words = w \o @]

LEMMA WithFacts ==
  ASSUME NEW st \in Lexer, NEW w \in Seq(Seq(Chars))
  PROVE  /\ With(w, st) \in Lexer /\ With(w, st).mode = st.mode /\ With(w, st).cur = st.cur
         /\ With(w, st).words = w \o st.words
<1>1. w \o st.words \in Seq(Seq(Chars))
  BY DEF Lexer
<1> DEFINE ww == w \o st.words
<1>2. With(w, st) = [st EXCEPT !.words = ww]
  BY DEF With
<1> HIDE DEF ww
<1>3. ww \in Seq(Seq(Chars))
  BY <1>1 DEF ww
<1>4. /\ With(w, st) \in Lexer /\ With(w, st).mode = st.mode /\ With(w, st).cur = st.cur
      /\ With(w, st).words = ww
  BY <1>2, <1>3 DEF Lexer
<1> QED
  BY <1>4 DEF ww

\* A state of the lexer is its three fields.
LEMMA LexerBy ==
  ASSUME NEW st \in Lexer, NEW s2 \in Lexer, st.mode = s2.mode, st.cur = s2.cur, st.words = s2.words
  PROVE  st = s2
BY DEF Lexer

LEMMA EndedWith ==
  ASSUME NEW st \in Lexer, NEW w \in Seq(Seq(Chars))
  PROVE  Ended(With(w, st)) = With(w, Ended(st))
<1> DEFINE v == With(w, st)  e == Ended(st)  f == Ended(v)  g == With(w, e)
<1>1. v \in Lexer /\ v.mode = st.mode /\ v.cur = st.cur /\ v.words = w \o st.words
  BY WithFacts
<1>2. /\ e \in Lexer /\ e.cur = <<>>
      /\ st.cur = <<>> => e = st
      /\ st.cur = LineComment => e = [mode |-> "comment", cur |-> <<>>, words |-> st.words]
      /\ st.cur = Paren => e = [mode |-> "paren", cur |-> <<>>, words |-> st.words]
      /\ st.cur \notin CommentWords \union {<<>>} =>
           e = [mode |-> st.mode, cur |-> <<>>, words |-> Append(st.words, st.cur)]
  BY EndedFacts
<1> HIDE DEF v
<1>3. /\ f \in Lexer /\ f.cur = <<>>
      /\ st.cur = <<>> => f = v
      /\ st.cur = LineComment => f = [mode |-> "comment", cur |-> <<>>, words |-> v.words]
      /\ st.cur = Paren => f = [mode |-> "paren", cur |-> <<>>, words |-> v.words]
      /\ st.cur \notin CommentWords \union {<<>>} =>
           f = [mode |-> st.mode, cur |-> <<>>, words |-> Append(v.words, st.cur)]
  BY <1>1, EndedFacts
<1> HIDE DEF e, f
<1>4. g \in Lexer /\ g.mode = e.mode /\ g.cur = e.cur /\ g.words = w \o e.words
  BY <1>2, WithFacts
<1> HIDE DEF g
<1>5. f.mode = g.mode
  <2>1. CASE st.cur = <<>>
    BY <1>1, <1>2, <1>3, <1>4, <2>1
  <2>2. CASE st.cur = LineComment
    <3>1. f.mode = "comment" /\ e.mode = "comment"
      BY <1>2, <1>3, <2>2
    <3> QED
      BY <1>4, <3>1
  <2>3. CASE st.cur = Paren
    <3>1. f.mode = "paren" /\ e.mode = "paren"
      BY <1>2, <1>3, <2>3
    <3> QED
      BY <1>4, <3>1
  <2>4. CASE st.cur \notin CommentWords \union {<<>>}
    <3>1. f.mode = st.mode /\ e.mode = st.mode
      BY <1>2, <1>3, <2>4
    <3> QED
      BY <1>4, <3>1
  <2> QED
    BY <2>1, <2>2, <2>3, <2>4, Zenon DEF CommentWords
<1>6. f.words = g.words
  <2>1. CASE st.cur \notin CommentWords \union {<<>>}
    <3>1. f.words = Append(v.words, st.cur) /\ e.words = Append(st.words, st.cur)
      BY <1>2, <1>3, <2>1
    <3>2. w \in Seq(Seq(Chars)) /\ st.words \in Seq(Seq(Chars)) /\ st.cur \in Seq(Chars)
      BY DEF Lexer
    <3> DEFINE B == Seq(Chars)  ws == st.words  c == st.cur
    <3>3. w \in Seq(B) /\ ws \in Seq(B) /\ c \in B
      BY <3>2
    <3> HIDE DEF B, ws, c
    <3>4. Append(w \o ws, c) = w \o Append(ws, c)
      <4>1. w \o ws \in Seq(B) /\ <<c>> \in Seq(B)
        BY <3>3, ConcatProperties
      <4>2. Append(w \o ws, c) = (w \o ws) \o <<c>> /\ Append(ws, c) = ws \o <<c>>
        BY <3>3, <4>1, AppendIsConcat
      <4> QED
        BY <3>3, <4>1, <4>2, ConcatAssociative
    <3> QED
      BY <1>1, <1>4, <3>1, <3>4 DEF ws, c
  <2>2. CASE st.cur = <<>>
    BY <1>1, <1>2, <1>3, <1>4, <2>2
  <2>3. CASE st.cur = LineComment
    <3>1. f.words = v.words /\ e.words = st.words
      BY <1>2, <1>3, <2>3
    <3> QED
      BY <1>1, <1>4, <3>1
  <2>4. CASE st.cur = Paren
    <3>1. f.words = v.words /\ e.words = st.words
      BY <1>2, <1>3, <2>4
    <3> QED
      BY <1>1, <1>4, <3>1
  <2> QED
    BY <2>1, <2>2, <2>3, <2>4, Zenon DEF CommentWords
<1>7. f = g
  BY <1>2, <1>3, <1>4, <1>5, <1>6, LexerBy
<1> QED
  BY <1>7 DEF f, g, e, v

LEMMA CloseWith ==
  ASSUME NEW st \in Lexer, NEW w \in Seq(Seq(Chars)), NEW c
  PROVE  Close(With(w, st), c) = With(w, Close(st, c))
<1> DEFINE v == With(w, st)  e == Close(st, c)  f == Close(v, c)  g == With(w, e)
<1>1. v \in Lexer /\ v.mode = st.mode /\ v.cur = st.cur /\ v.words = w \o st.words
  BY WithFacts
<1>2. /\ e \in Lexer /\ e.cur = st.cur /\ e.words = st.words
      /\ e.mode = IF Closes(st, c) THEN "word" ELSE st.mode
  BY CloseFacts
<1> HIDE DEF v
<1>3. /\ f \in Lexer /\ f.cur = v.cur /\ f.words = v.words
      /\ f.mode = IF Closes(v, c) THEN "word" ELSE v.mode
  BY <1>1, CloseFacts
<1>4. Closes(st, c) = Closes(v, c)
  BY <1>1 DEF Closes
<1> HIDE DEF e, f
<1>5. g \in Lexer /\ g.mode = e.mode /\ g.cur = e.cur /\ g.words = w \o e.words
  BY <1>2, WithFacts
<1> HIDE DEF g
<1>6. f.mode = g.mode /\ f.cur = g.cur /\ f.words = g.words
  BY <1>1, <1>2, <1>3, <1>4, <1>5
<1>7. f = g
  BY <1>3, <1>5, <1>6, LexerBy
<1> QED
  BY <1>7 DEF f, g, e, v

LEMMA LongerWith ==
  ASSUME NEW st \in Lexer, NEW w \in Seq(Seq(Chars)), NEW c \in Chars
  PROVE  Longer(With(w, st), c) = With(w, Longer(st, c))
<1> DEFINE v == With(w, st)  e == Longer(st, c)  f == Longer(v, c)  g == With(w, e)
<1>1. v \in Lexer /\ v.mode = st.mode /\ v.cur = st.cur /\ v.words = w \o st.words
  BY WithFacts
<1>2. e \in Lexer /\ e.cur = Append(st.cur, c) /\ e.mode = st.mode /\ e.words = st.words
  BY LongerFacts
<1> HIDE DEF v
<1>3. f \in Lexer /\ f.cur = Append(v.cur, c) /\ f.mode = v.mode /\ f.words = v.words
  BY <1>1, LongerFacts
<1> HIDE DEF e, f
<1>5. g \in Lexer /\ g.mode = e.mode /\ g.cur = e.cur /\ g.words = w \o e.words
  BY <1>2, WithFacts
<1> HIDE DEF g
<1>6. f.mode = g.mode /\ f.cur = g.cur /\ f.words = g.words
  BY <1>1, <1>2, <1>3, <1>5
<1>7. f = g
  BY <1>3, <1>5, <1>6, LexerBy
<1> QED
  BY <1>7 DEF f, g, e, v

LEMMA LexWith ==
  ASSUME NEW st \in Lexer, NEW w \in Seq(Seq(Chars)), NEW c \in Chars
  PROVE  Lex(With(w, st), c) = With(w, Lex(st, c))
<1>1. With(w, st) \in Lexer /\ With(w, st).mode = st.mode /\ With(w, st).cur = st.cur
  BY WithFacts
<1>2. Longer(st, c) \in Lexer /\ Ended(st) \in Lexer
  BY EndedFacts, LongerFacts
<1>3. CASE st.mode # "word"
  <2>1. Lex(st, c) = Close(st, c) /\ Lex(With(w, st), c) = Close(With(w, st), c)
    BY <1>1, <1>3, LexIs
  <2> QED
    BY <2>1, CloseWith
<1>4. CASE st.mode = "word" /\ c \in Spaces
  <2>1. /\ Lex(st, c) = Close(Ended(st), c)
        /\ Lex(With(w, st), c) = Close(Ended(With(w, st)), c)
    BY <1>1, <1>4, LexIs
  <2>2. Ended(With(w, st)) = With(w, Ended(st))
    BY EndedWith
  <2> QED
    BY <1>2, <2>1, <2>2, CloseWith
<1>5. CASE st.mode = "word" /\ c \notin Spaces /\ Len(st.cur) + 1 < NameMax
  <2>1. Lex(st, c) = Longer(st, c) /\ Lex(With(w, st), c) = Longer(With(w, st), c)
    BY <1>1, <1>5, LexIs
  <2> QED
    BY <2>1, LongerWith
<1>6. CASE st.mode = "word" /\ c \notin Spaces /\ ~(Len(st.cur) + 1 < NameMax)
  <2>1. /\ Lex(st, c) = Ended(Longer(st, c))
        /\ Lex(With(w, st), c) = Ended(Longer(With(w, st), c))
    BY <1>1, <1>6, LexIs
  <2>2. Longer(With(w, st), c) = With(w, Longer(st, c))
    BY LongerWith
  <2> QED
    BY <1>2, <2>1, <2>2, EndedWith
<1> QED
  BY <1>3, <1>4, <1>5, <1>6

LEMMA ScanIs ==
  /\ \A st \in Lexer : Scan[<<>>][st] = st
  /\ \A c \in Chars, s \in Seq(Chars), st \in Lexer : Scan[<<c>> \o s][st] = Scan[s][Lex(st, c)]
  /\ \A s \in Seq(Chars), st \in Lexer : Scan[s][st] \in Lexer
<1> DEFINE B == [Lexer -> Lexer]
           b == [st \in Lexer |-> st]
           g == [p \in Chars \X B |-> [st \in Lexer |-> p[2][Lex(st, p[1])]]]
<1>1. b \in B
  OBVIOUS
<1>2. g \in [Chars \X B -> B]
  <2>1. ASSUME NEW p \in Chars \X B PROVE [st \in Lexer |-> p[2][Lex(st, p[1])]] \in B
    <3>1. p[1] \in Chars /\ p[2] \in [Lexer -> Lexer]
      OBVIOUS
    <3>2. ASSUME NEW st \in Lexer PROVE p[2][Lex(st, p[1])] \in Lexer
      BY <3>1, LexIs
    <3> QED
      BY <3>2
  <2> QED
    BY <2>1
<1>3. \A c \in Chars, f \in B, st \in Lexer : g[<<c, f>>][st] = f[Lex(st, c)]
  OBVIOUS
<1>4. \A st \in Lexer : b[st] = st
  OBVIOUS
<1> HIDE DEF b, g
<1>5. PICK F \in [Seq(Chars) -> B] : Recursive(F, Chars, b, g)
  <2> DEFINE C == B
  <2>1. b \in C /\ g \in [Chars \X C -> C]
    BY <1>1, <1>2
  <2> HIDE DEF C
  <2>2. \E F \in [Seq(Chars) -> C] : Recursive(F, Chars, b, g)
    BY <2>1, SeqRecursion
  <2> QED
    BY <2>2 DEF C
<1> DEFINE Is(f) ==
             f = [chars \in Seq(Chars) |->
                    [st \in Lexer |-> IF chars = <<>> THEN st
                                      ELSE f[Tail(chars)][Lex(st, Head(chars))]]]
<1>6. Is(F)
  <2>1. /\ F = [s \in Seq(Chars) |-> F[s]]
        /\ \A s \in Seq(Chars) : F[s] = IF s = <<>> THEN b ELSE g[<<Head(s), F[Tail(s)]>>]
    BY <1>5 DEF Recursive
  <2>2. ASSUME NEW s \in Seq(Chars)
        PROVE  F[s] = [st \in Lexer |-> IF s = <<>> THEN st ELSE F[Tail(s)][Lex(st, Head(s))]]
    <3>1. F[s] = [st \in Lexer |-> F[s][st]]
      BY <1>5
    <3>2. ASSUME NEW st \in Lexer
          PROVE  F[s][st] = IF s = <<>> THEN st ELSE F[Tail(s)][Lex(st, Head(s))]
      <4>1. CASE s = <<>>
        BY <1>4, <2>1, <4>1
      <4>2. CASE s # <<>>
        <5>1. Head(s) \in Chars /\ Tail(s) \in Seq(Chars)
          BY <4>2, TailFacts
        <5>2. F[Tail(s)] \in B
          BY <1>5, <5>1
        <5>3. F[s] = g[<<Head(s), F[Tail(s)]>>]
          BY <2>1, <4>2
        <5> QED
          BY <1>3, <4>2, <5>1, <5>2, <5>3
      <4> QED
        BY <4>1, <4>2
    <3> QED
      BY <3>1, <3>2
  <2> DEFINE G == [chars \in Seq(Chars) |->
                    [st \in Lexer |-> IF chars = <<>> THEN st
                                      ELSE F[Tail(chars)][Lex(st, Head(chars))]]]
  <2>3. \A s \in Seq(Chars) : F[s] = G[s]
    BY <2>2
  <2>4. G = [s \in Seq(Chars) |-> G[s]]
    OBVIOUS
  <2> HIDE DEF G
  <2>5. F = G
    BY <2>1, <2>3, <2>4
  <2> QED
    BY <2>5 DEF G
<1>7. Scan = CHOOSE f : Is(f)
  BY DEF Scan
<1>8. Is(Scan)
  BY <1>6, <1>7
<1>9. /\ DOMAIN Scan = Seq(Chars)
      /\ \A s \in Seq(Chars) : Scan[s] =
           [st \in Lexer |-> IF s = <<>> THEN st ELSE Scan[Tail(s)][Lex(st, Head(s))]]
  <2> DEFINE S == Scan
  <2>1. S = [chars \in Seq(Chars) |->
                    [st \in Lexer |-> IF chars = <<>> THEN st
                                      ELSE S[Tail(chars)][Lex(st, Head(chars))]]]
    BY <1>8
  <2> HIDE DEF S
  <2>2. /\ DOMAIN S = Seq(Chars)
        /\ \A s \in Seq(Chars) : S[s] =
           [st \in Lexer |-> IF s = <<>> THEN st ELSE S[Tail(s)][Lex(st, Head(s))]]
    BY <2>1
  <2> QED
    BY <2>2 DEF S
<1>10. \A s \in Seq(Chars), st \in Lexer :
         Scan[s][st] = IF s = <<>> THEN st ELSE Scan[Tail(s)][Lex(st, Head(s))]
  BY <1>9
<1>11. ASSUME NEW c \in Chars, NEW s \in Seq(Chars), NEW st \in Lexer
       PROVE  Scan[<<c>> \o s][st] = Scan[s][Lex(st, c)]
  <2> DEFINE t == <<c>> \o s
  <2>1. t \in Seq(Chars) /\ t # <<>> /\ Head(t) = c /\ Tail(t) = s
    OBVIOUS
  <2> HIDE DEF t
  <2>2. Scan[t][st] = Scan[s][Lex(st, c)]
    BY <1>10, <2>1
  <2> QED
    BY <2>2 DEF t
<1>12. \A st \in Lexer : Scan[<<>>][st] = st
  <2>1. <<>> \in Seq(Chars)
    OBVIOUS
  <2> QED
    BY <1>10, <2>1
<1>13. \A s \in Seq(Chars), st \in Lexer : Scan[s][st] \in Lexer
  <2> DEFINE T == {s \in Seq(Chars) : \A st \in Lexer : Scan[s][st] \in Lexer}
  <2>1. <<>> \in T
    BY <1>12
  <2>2. ASSUME NEW c \in Chars, NEW s \in T PROVE <<c>> \o s \in T
    <3>1. s \in Seq(Chars) /\ <<c>> \o s \in Seq(Chars)
      OBVIOUS
    <3>2. ASSUME NEW st \in Lexer PROVE Scan[<<c>> \o s][st] \in Lexer
      <4>1. Lex(st, c) \in Lexer
        BY LexIs
      <4>2. Scan[s][Lex(st, c)] \in Lexer
        BY <4>1
      <4> QED
        BY <1>11, <3>1, <4>2
    <3> QED
      BY <3>1, <3>2
  <2> HIDE DEF T
  <2>3. T = Seq(Chars)
    <3>1. T \subseteq Seq(Chars)
      BY DEF T
    <3> QED
      BY <2>1, <2>2, <3>1, SeqInduct
  <2> QED
    BY <2>3 DEF T
<1> QED
  BY <1>11, <1>12, <1>13

LEMMA ScanCat ==
  ASSUME NEW s \in Seq(Chars), NEW t \in Seq(Chars), NEW st \in Lexer
  PROVE  Scan[s \o t][st] = Scan[t][Scan[s][st]]
<1> DEFINE T == {u \in Seq(Chars) : \A l \in Lexer : Scan[u \o t][l] = Scan[t][Scan[u][l]]}
<1>1. <<>> \in T
  <2>1. <<>> \in Seq(Chars) /\ <<>> \o t = t
    BY ConcatEmptySeq
  <2> QED
    BY <2>1, ScanIs
<1>2. ASSUME NEW c \in Chars, NEW u \in T PROVE <<c>> \o u \in T
  <2>1. u \in Seq(Chars) /\ <<c>> \in Seq(Chars) /\ <<c>> \o u \in Seq(Chars) /\ u \o t \in Seq(Chars)
    BY ConcatProperties
  <2>2. (<<c>> \o u) \o t = <<c>> \o (u \o t)
    BY <2>1, ConcatAssociative
  <2>3. ASSUME NEW l \in Lexer PROVE Scan[(<<c>> \o u) \o t][l] = Scan[t][Scan[<<c>> \o u][l]]
    <3>1. Lex(l, c) \in Lexer
      BY LexIs
    <3>2. Scan[<<c>> \o (u \o t)][l] = Scan[u \o t][Lex(l, c)]
      BY <2>1, ScanIs
    <3>3. Scan[u \o t][Lex(l, c)] = Scan[t][Scan[u][Lex(l, c)]]
      BY <3>1
    <3>4. Scan[<<c>> \o u][l] = Scan[u][Lex(l, c)]
      BY <2>1, ScanIs
    <3> QED
      BY <2>2, <3>2, <3>3, <3>4
  <2> QED
    BY <2>1, <2>3
<1> HIDE DEF T
<1>3. T = Seq(Chars)
  <2>1. T \subseteq Seq(Chars)
    BY DEF T
  <2> QED
    BY <1>1, <1>2, <2>1, SeqInduct
<1> QED
  BY <1>3 DEF T

LEMMA ScanWith ==
  ASSUME NEW s \in Seq(Chars), NEW st \in Lexer, NEW w \in Seq(Seq(Chars))
  PROVE  Scan[s][With(w, st)] = With(w, Scan[s][st])
<1> DEFINE T == {u \in Seq(Chars) : \A l \in Lexer : Scan[u][With(w, l)] = With(w, Scan[u][l])}
<1>0. \A l \in Lexer : With(w, l) \in Lexer
  BY WithFacts
<1>1. <<>> \in T
  <2>1. <<>> \in Seq(Chars)
    OBVIOUS
  <2> QED
    BY <1>0, <2>1, ScanIs
<1>2. ASSUME NEW c \in Chars, NEW u \in T PROVE <<c>> \o u \in T
  <2>1. u \in Seq(Chars) /\ <<c>> \o u \in Seq(Chars)
    OBVIOUS
  <2>2. ASSUME NEW l \in Lexer PROVE Scan[<<c>> \o u][With(w, l)] = With(w, Scan[<<c>> \o u][l])
    <3>1. Lex(l, c) \in Lexer /\ Lex(With(w, l), c) = With(w, Lex(l, c))
      BY LexIs, LexWith
    <3>2. Scan[<<c>> \o u][With(w, l)] = Scan[u][Lex(With(w, l), c)]
      BY <1>0, <2>1, ScanIs
    <3>3. Scan[u][With(w, Lex(l, c))] = With(w, Scan[u][Lex(l, c)])
      BY <3>1
    <3>4. Scan[<<c>> \o u][l] = Scan[u][Lex(l, c)]
      BY <2>1, ScanIs
    <3> QED
      BY <3>1, <3>2, <3>3, <3>4
  <2> QED
    BY <2>1, <2>2
<1> HIDE DEF T
<1>3. T = Seq(Chars)
  <2>1. T \subseteq Seq(Chars)
    BY DEF T
  <2> QED
    BY <1>1, <1>2, <2>1, SeqInduct
<1> QED
  BY <1>3 DEF T

Start == LexFrom("word", <<>>)

LEMMA LexFromFacts ==
  ASSUME NEW mode \in {"word", "comment", "paren"}, NEW cur \in Seq(Chars)
  PROVE  /\ LexFrom(mode, cur) \in Lexer /\ LexFrom(mode, cur).mode = mode
         /\ LexFrom(mode, cur).cur = cur /\ LexFrom(mode, cur).words = <<>>
BY DEF LexFrom, Lexer

LEMMA StartFacts == Start \in Lexer /\ Start.mode = "word" /\ Start.cur = <<>> /\ Start.words = <<>>
<1> DEFINE none == <<>>
<1>1. none \in Seq(Chars) /\ "word" \in {"word", "comment", "paren"}
  OBVIOUS
<1>2. Start = LexFrom("word", none)
  BY DEF Start
<1> HIDE DEF none
<1>3. Start \in Lexer /\ Start.mode = "word" /\ Start.cur = none /\ Start.words = <<>>
  BY <1>1, <1>2, LexFromFacts
<1> QED
  BY <1>3 DEF none

LEMMA WordsFacts ==
  ASSUME NEW st \in Lexer
  PROVE  /\ Words(st, <<>>) = Ended(st).words
         /\ \A s \in Seq(Chars) : Words(st, s) \in Seq(Seq(Chars))
         /\ \A c \in Chars, s \in Seq(Chars) : Words(st, <<c>> \o s) = Words(Lex(st, c), s)
<1>1. \A s \in Seq(Chars) : Ended(Scan[s][st]).words \in Seq(Seq(Chars))
  <2>1. ASSUME NEW s \in Seq(Chars) PROVE Ended(Scan[s][st]) \in Lexer
    BY ScanIs, EndedFacts
  <2> QED
    BY <2>1 DEF Lexer
<1>2. Scan[<<>>][st] = st
  BY ScanIs
<1>3. \A c \in Chars, s \in Seq(Chars) : Scan[<<c>> \o s][st] = Scan[s][Lex(st, c)]
  BY ScanIs
<1> QED
  BY <1>1, <1>2, <1>3 DEF Words

LEMMA WordsWith ==
  ASSUME NEW st \in Lexer, NEW w \in Seq(Seq(Chars)), NEW s \in Seq(Chars)
  PROVE  Words(With(w, st), s) = w \o Words(st, s)
<1>1. Scan[s][With(w, st)] = With(w, Scan[s][st]) /\ Scan[s][st] \in Lexer
  BY ScanWith, ScanIs
<1> DEFINE e == Scan[s][st]
<1> HIDE DEF e
<1>2. e \in Lexer => Ended(With(w, e)) = With(w, Ended(e)) /\ Ended(e) \in Lexer
  BY EndedWith, EndedFacts
<1>3. e \in Lexer => With(w, Ended(e)).words = w \o Ended(e).words
  BY <1>2, WithFacts
<1> QED
  BY <1>1, <1>2, <1>3 DEF e, Words

\* What the lexer has found does not change how it goes on.
LEMMA ModeOnly ==
  ASSUME NEW l \in Lexer, NEW k \in Lexer, l.mode = k.mode, l.cur = k.cur, NEW s \in Seq(Chars)
  PROVE  Scan[s][l].mode = Scan[s][k].mode
<1> DEFINE b == LexFrom(l.mode, l.cur)
<1>1. l.mode \in {"word", "comment", "paren"} /\ l.cur \in Seq(Chars)
  BY DEF Lexer
<1>2. b \in Lexer /\ b.mode = l.mode /\ b.cur = l.cur /\ b.words = <<>>
  BY <1>1, LexFromFacts
<1> HIDE DEF b
<1>3. ASSUME NEW e \in Lexer, e.mode = l.mode, e.cur = l.cur
      PROVE  Scan[s][e].mode = Scan[s][b].mode
  <2>1. e.words \in Seq(Seq(Chars)) /\ e.words \o <<>> = e.words
    BY ConcatEmptySeq DEF Lexer
  <2> DEFINE w == e.words  v == With(w, b)
  <2>2. v \in Lexer /\ v.mode = b.mode /\ v.cur = b.cur /\ v.words = w \o b.words
    BY <1>2, <2>1, WithFacts
  <2> HIDE DEF v
  <2>3. v = e
    BY <1>2, <1>3, <2>1, <2>2, LexerBy DEF w
  <2>4. Scan[s][v] = With(w, Scan[s][b]) /\ Scan[s][b] \in Lexer
    BY <1>2, <2>1, ScanWith, ScanIs DEF v
  <2> DEFINE f == Scan[s][b]
  <2>5. With(w, f).mode = f.mode
    BY <2>1, <2>4, WithFacts
  <2> QED
    BY <2>3, <2>4, <2>5
<1> QED
  BY <1>3

LEMMA SpacesAreChars == Spaces \subseteq Chars /\ EOF \notin Chars /\ None \notin Chars
BY DEF Spaces, Chars, EOF, None

\* A space between two words changes nothing ...
LEMMA SpaceIdle ==
  ASSUME NEW st \in Lexer, st.mode = "word", st.cur = <<>>, NEW c \in Spaces
  PROVE  Lex(st, c) = st
<1>1. Lex(st, c) = Close(Ended(st), c) /\ Ended(st) = st
  BY SpacesAreChars, LexIs, EndedFacts
<1>2. ~Closes(st, c)
  BY DEF Closes
<1> QED
  BY <1>1, <1>2, CloseFacts

\* ... and the one behind a word ends it.
LEMMA SpaceEnds ==
  ASSUME NEW st \in Lexer, st.mode = "word", NEW c \in Spaces
  PROVE  Lex(Ended(st), c) = Lex(st, c) /\ Lex(st, c).cur = <<>>
<1> DEFINE e == Ended(st)
<1>1. c \in Chars /\ e \in Lexer /\ e.cur = <<>>
  BY SpacesAreChars, EndedFacts
<1>2. Lex(st, c) = Close(e, c)
  BY <1>1, LexIs
<1> HIDE DEF e
<1>3. Ended(e) = e /\ Close(e, c).cur = <<>>
  BY <1>1, EndedFacts, CloseFacts
<1>4. Lex(e, c) = Close(e, c)
  BY <1>1, <1>3, LexIs
<1> QED
  BY <1>2, <1>3, <1>4 DEF e

\* A blank leaves the lexer in a comment, and in a word if it was in one.
LEMMA BlankMode ==
  ASSUME NEW st \in Lexer, Lex(st, "sp").mode = "word"
  PROVE  st.mode = "word" /\ Lex(st, "sp").cur = <<>> /\ Lex(Lex(st, "sp"), "sp").mode = "word"
<1>1. "sp" \in Spaces /\ "sp" \in Chars
  BY DEF Spaces, Chars
<1>2. st.mode = "word"
  <2> SUFFICES ASSUME st.mode # "word" PROVE FALSE
    OBVIOUS
  <2>1. Lex(st, "sp") = Close(st, "sp")
    BY <1>1, LexIs
  <2>2. ~Closes(st, "sp")
    BY DEF Closes
  <2> QED
    BY <2>1, <2>2, CloseFacts
<1> DEFINE l == Lex(st, "sp")
<1>3. l \in Lexer /\ l.cur = <<>> /\ l.mode = "word"
  BY <1>1, <1>2, LexIs, SpaceEnds
<1> HIDE DEF l
<1>4. Lex(l, "sp") = l
  BY <1>1, <1>3, SpaceIdle
<1> QED
  BY <1>2, <1>3, <1>4 DEF l
-----------------------------------------------------------------------------
(* The text that is still to be read. *)

LEMMA RestFacts ==
  ASSUME NEW c \in Contexts
  PROVE  Rest(c) \in Seq(Chars)
<1>1. c.pos \in Nat /\ c.text \in Seq(Chars) /\ Len(c.text) \in Nat
  BY DEF Contexts
<1> DEFINE t == c.text  m == c.pos + 1  n == Len(t)
<1>2. m \in Int /\ n \in Int /\ \A j \in m .. n : t[j] \in Chars
  BY <1>1
<1> HIDE DEF t, m, n
<1>3. SubSeq(t, m, n) \in Seq(Chars)
  BY <1>2, SubSeqProperties
<1> QED
  BY <1>3 DEF Rest, t, m, n

LEMMA RestsIs ==
  /\ Rests[<<>>] = <<>>
  /\ \A c \in Contexts, s \in Seq(Contexts) : Rests[<<c>> \o s] = Rest(c) \o Rests[s]
  /\ \A s \in Seq(Contexts) : Rests[s] \in Seq(Chars)
<1> DEFINE B == Seq(Chars)
           b == <<>>
           g == [p \in Contexts \X B |-> Rest(p[1]) \o p[2]]
<1>1. b \in B
  OBVIOUS
<1>2. g \in [Contexts \X B -> B]
  <2>1. ASSUME NEW p \in Contexts \X B PROVE Rest(p[1]) \o p[2] \in B
    <3>1. p[1] \in Contexts /\ p[2] \in B
      OBVIOUS
    <3>2. Rest(p[1]) \in Seq(Chars)
      BY <3>1, RestFacts
    <3> QED
      BY <3>1, <3>2, ConcatProperties
  <2> QED
    BY <2>1
<1>3. \A c \in Contexts, f \in B : g[<<c, f>>] = Rest(c) \o f
  OBVIOUS
<1> HIDE DEF g, b, B
<1>5. PICK F \in [Seq(Contexts) -> B] : Recursive(F, Contexts, b, g)
  BY <1>1, <1>2, SeqRecursion
<1> DEFINE Is(f) ==
             f = [cs \in Seq(Contexts) |->
                    IF cs = <<>> THEN <<>> ELSE Rest(Head(cs)) \o f[Tail(cs)]]
<1>6. Is(F)
  <2>1. /\ F = [s \in Seq(Contexts) |-> F[s]]
        /\ \A s \in Seq(Contexts) : F[s] = IF s = <<>> THEN b ELSE g[<<Head(s), F[Tail(s)]>>]
    BY <1>5 DEF Recursive
  <2>2. ASSUME NEW s \in Seq(Contexts)
        PROVE  F[s] = IF s = <<>> THEN <<>> ELSE Rest(Head(s)) \o F[Tail(s)]
    <3>1. CASE s = <<>>
      BY <2>1, <3>1 DEF b
    <3>2. CASE s # <<>>
      <4>1. Head(s) \in Contexts /\ Tail(s) \in Seq(Contexts)
        BY <3>2, TailFacts
      <4>2. F[Tail(s)] \in B
        BY <1>5, <4>1
      <4>3. F[s] = g[<<Head(s), F[Tail(s)]>>]
        BY <2>1, <3>2
      <4> QED
        BY <1>3, <3>2, <4>1, <4>2, <4>3
    <3> QED
      BY <3>1, <3>2
  <2> DEFINE G == [cs \in Seq(Contexts) |->
                    IF cs = <<>> THEN <<>> ELSE Rest(Head(cs)) \o F[Tail(cs)]]
  <2>3. \A s \in Seq(Contexts) : F[s] = G[s]
    BY <2>2
  <2>4. G = [s \in Seq(Contexts) |-> G[s]]
    OBVIOUS
  <2> HIDE DEF G
  <2>5. F = G
    BY <2>1, <2>3, <2>4
  <2> QED
    BY <2>5 DEF G
<1>7. Rests = CHOOSE f : Is(f)
  BY DEF Rests
<1>8. Is(Rests)
  BY <1>6, <1>7
<1>9. \A s \in Seq(Contexts) : Rests[s] = IF s = <<>> THEN <<>> ELSE Rest(Head(s)) \o Rests[Tail(s)]
  <2> DEFINE S == Rests
  <2>1. S = [cs \in Seq(Contexts) |-> IF cs = <<>> THEN <<>> ELSE Rest(Head(cs)) \o S[Tail(cs)]]
    BY <1>8
  <2> HIDE DEF S
  <2>2. \A s \in Seq(Contexts) : S[s] = IF s = <<>> THEN <<>> ELSE Rest(Head(s)) \o S[Tail(s)]
    BY <2>1
  <2> QED
    BY <2>2 DEF S
<1>11. ASSUME NEW c \in Contexts, NEW s \in Seq(Contexts)
       PROVE  Rests[<<c>> \o s] = Rest(c) \o Rests[s]
  <2> DEFINE t == <<c>> \o s
  <2>1. t \in Seq(Contexts) /\ t # <<>> /\ Head(t) = c /\ Tail(t) = s
    OBVIOUS
  <2> HIDE DEF t
  <2>2. Rests[t] = Rest(c) \o Rests[s]
    BY <1>9, <2>1
  <2> QED
    BY <2>2 DEF t
<1>12. Rests[<<>>] = <<>>
  <2>1. <<>> \in Seq(Contexts)
    OBVIOUS
  <2> QED
    BY <1>9, <2>1
<1>13. \A s \in Seq(Contexts) : Rests[s] \in Seq(Chars)
  <2> DEFINE T == {s \in Seq(Contexts) : Rests[s] \in Seq(Chars)}
  <2>1. <<>> \in T
    <3>1. <<>> \in Seq(Contexts) /\ <<>> \in Seq(Chars)
      BY EmptySeq
    <3> QED
      BY <1>12, <3>1
  <2>2. ASSUME NEW c \in Contexts, NEW s \in T PROVE <<c>> \o s \in T
    <3>1. s \in Seq(Contexts) /\ <<c>> \o s \in Seq(Contexts) /\ Rest(c) \in Seq(Chars)
      BY RestFacts
    <3>2. Rest(c) \o Rests[s] \in Seq(Chars)
      BY <3>1, ConcatProperties
    <3> QED
      BY <1>11, <3>1, <3>2
  <2> HIDE DEF T
  <2>3. T = Seq(Contexts)
    <3>1. T \subseteq Seq(Contexts)
      BY DEF T
    <3> QED
      BY <2>1, <2>2, <3>1, SeqInduct
  <2> QED
    BY <2>3 DEF T
<1> QED
  BY <1>11, <1>12, <1>13

LEMMA WordsOfAllIs ==
  /\ WordsOfAll[<<>>] = <<>>
  /\ \A t \in Seq(Chars), s \in Seq(Seq(Chars)) :
       WordsOfAll[<<t>> \o s] = WordsOfAll[s] \o WordsOf(t)
  /\ \A s \in Seq(Seq(Chars)) : WordsOfAll[s] \in Seq(Seq(Chars))
<1> DEFINE C == Seq(Chars)
           B == Seq(C)
           b == <<>>
           g == [p \in C \X B |-> p[2] \o WordsOf(p[1])]
<1>0. \A t \in C : WordsOf(t) \in B
  BY StartFacts, WordsFacts DEF Start, WordsOf
<1>1. b \in B
  OBVIOUS
<1>2. g \in [C \X B -> B]
  <2>1. ASSUME NEW p \in C \X B PROVE p[2] \o WordsOf(p[1]) \in B
    <3>1. p[1] \in C /\ p[2] \in B /\ WordsOf(p[1]) \in B
      BY <1>0
    <3> DEFINE u == p[2]  v == WordsOf(p[1])  D == C
    <3>2. u \in Seq(D) /\ v \in Seq(D)
      BY <3>1
    <3> HIDE DEF u, v, D
    <3>3. u \o v \in Seq(D)
      BY <3>2, ConcatProperties
    <3> QED
      BY <3>3 DEF u, v, D
  <2> QED
    BY <2>1
<1>3. \A c \in C, f \in B : g[<<c, f>>] = f \o WordsOf(c)
  OBVIOUS
<1> HIDE DEF g, b, B, C
<1>5. PICK F \in [Seq(C) -> B] : Recursive(F, C, b, g)
  BY <1>1, <1>2, SeqRecursion
<1> DEFINE Is(f) ==
             f = [ts \in Seq(C) |->
                    IF ts = <<>> THEN <<>> ELSE f[Tail(ts)] \o WordsOf(Head(ts))]
<1>6. Is(F)
  <2>1. /\ F = [s \in Seq(C) |-> F[s]]
        /\ \A s \in Seq(C) : F[s] = IF s = <<>> THEN b ELSE g[<<Head(s), F[Tail(s)]>>]
    BY <1>5 DEF Recursive
  <2>2. ASSUME NEW s \in Seq(C)
        PROVE  F[s] = IF s = <<>> THEN <<>> ELSE F[Tail(s)] \o WordsOf(Head(s))
    <3>1. CASE s = <<>>
      BY <2>1, <3>1 DEF b
    <3>2. CASE s # <<>>
      <4>1. Head(s) \in C /\ Tail(s) \in Seq(C)
        BY <3>2, TailFacts
      <4>2. F[Tail(s)] \in B
        BY <1>5, <4>1
      <4>3. F[s] = g[<<Head(s), F[Tail(s)]>>]
        BY <2>1, <3>2
      <4> QED
        BY <1>3, <3>2, <4>1, <4>2, <4>3
    <3> QED
      BY <3>1, <3>2
  <2> DEFINE G == [ts \in Seq(C) |->
                    IF ts = <<>> THEN <<>> ELSE F[Tail(ts)] \o WordsOf(Head(ts))]
  <2>3. \A s \in Seq(C) : F[s] = G[s]
    BY <2>2
  <2>4. G = [s \in Seq(C) |-> G[s]]
    OBVIOUS
  <2> HIDE DEF G
  <2>5. F = G
    BY <2>1, <2>3, <2>4
  <2> QED
    BY <2>5 DEF G
<1>7. WordsOfAll = CHOOSE f : Is(f)
  BY DEF WordsOfAll, C
<1>8. Is(WordsOfAll)
  BY <1>6, <1>7
<1>9. \A s \in Seq(C) : WordsOfAll[s] = IF s = <<>> THEN <<>> ELSE WordsOfAll[Tail(s)] \o WordsOf(Head(s))
  <2> DEFINE S == WordsOfAll
  <2>1. S = [ts \in Seq(C) |-> IF ts = <<>> THEN <<>> ELSE S[Tail(ts)] \o WordsOf(Head(ts))]
    BY <1>8
  <2> HIDE DEF S
  <2>2. \A s \in Seq(C) : S[s] = IF s = <<>> THEN <<>> ELSE S[Tail(s)] \o WordsOf(Head(s))
    BY <2>1
  <2> QED
    BY <2>2 DEF S
<1>11. ASSUME NEW c \in C, NEW s \in Seq(C)
       PROVE  WordsOfAll[<<c>> \o s] = WordsOfAll[s] \o WordsOf(c)
  <2> DEFINE t == <<c>> \o s
  <2>1. t \in Seq(C) /\ t # <<>> /\ Head(t) = c /\ Tail(t) = s
    OBVIOUS
  <2> HIDE DEF t
  <2>2. WordsOfAll[t] = WordsOfAll[s] \o WordsOf(c)
    BY <1>9, <2>1
  <2> QED
    BY <2>2 DEF t
<1>12. WordsOfAll[<<>>] = <<>>
  <2>1. <<>> \in Seq(C)
    OBVIOUS
  <2> QED
    BY <1>9, <2>1
<1>13. \A s \in Seq(C) : WordsOfAll[s] \in B
  <2> DEFINE T == {s \in Seq(C) : WordsOfAll[s] \in B}
  <2>1. <<>> \in T
    BY <1>1, <1>12 DEF b
  <2>2. ASSUME NEW c \in C, NEW s \in T PROVE <<c>> \o s \in T
    <3>1. s \in Seq(C) /\ <<c>> \o s \in Seq(C) /\ WordsOf(c) \in B
      BY <1>0
    <3>2. WordsOfAll[s] \o WordsOf(c) \in B
      BY <3>1, ConcatProperties DEF B
    <3> QED
      BY <1>11, <3>1, <3>2
  <2> HIDE DEF T
  <2>3. T = Seq(C)
    <3>1. T \subseteq Seq(C)
      BY DEF T
    <3> QED
      BY <2>1, <2>2, <3>1, SeqInduct
  <2> QED
    BY <2>3 DEF T
<1> QED
  BY <1>11, <1>12, <1>13 DEF B, C

\* What the character put back, the inputs, and the file add to Remaining.
Pb(i) == IF i.putback = None THEN <<>> ELSE <<i.putback>>
FileRest(i) == SubSeq(i.inp, i.ipos + 1, Len(i.inp)) \o SubSeq(file, i.nread + 1, Len(file))
Flat(i) == Rests[All(i)] \o FileRest(i)

LEMMA SuffixFacts ==
  ASSUME NEW S, NEW t \in Seq(S), NEW n \in Nat
  PROVE  /\ SubSeq(t, n + 1, Len(t)) \in Seq(S)
         /\ n >= Len(t) => SubSeq(t, n + 1, Len(t)) = <<>>
         /\ n < Len(t) => /\ t[n + 1] \in S
                          /\ SubSeq(t, n + 1, Len(t)) = <<t[n + 1]>> \o SubSeq(t, (n + 1) + 1, Len(t))
<1> DEFINE m == n + 1  e == Len(t)
<1>1. m \in Int /\ e \in Int /\ \A j \in m .. e : t[j] \in S
  OBVIOUS
<1>2. n >= e => e < m
  BY <1>1
<1>3. n < e => m \in 1 .. Len(t) /\ e \in m .. Len(t) /\ t[m] \in S
  OBVIOUS
<1> HIDE DEF m, e
<1>4. SubSeq(t, m, e) \in Seq(S)
  BY <1>1, SubSeqProperties
<1>5. e < m => SubSeq(t, m, e) = <<>>
  BY <1>1, SubSeqEmpty
<1>6. n < e => SubSeq(t, m, e) = <<t[m]>> \o SubSeq(t, m + 1, e)
  BY <1>3, SubSeqRecursiveFirst
<1> QED
  BY <1>2, <1>3, <1>4, <1>5, <1>6 DEF m, e

LEMMA FlatFacts ==
  ASSUME file \in Seq(Chars), NEW i \in Inputs
  PROVE  /\ Pb(i) \in Seq(Chars) /\ FileRest(i) \in Seq(Chars) /\ Flat(i) \in Seq(Chars)
         /\ Remaining(i) = Pb(i) \o Flat(i)
<1>1. /\ i.putback \in Chars \union {None} /\ i.inp \in Seq(Chars) /\ i.ipos \in Nat /\ i.nread \in Nat
  BY DEF Inputs
<1> DEFINE p == Pb(i)  r == Rests[All(i)]
           a == SubSeq(i.inp, i.ipos + 1, Len(i.inp))  b == SubSeq(file, i.nread + 1, Len(file))
<1>2. p \in Seq(Chars)
  BY <1>1 DEF Pb
<1>3. r \in Seq(Chars)
  BY AllFacts, RestsIs
<1>4. a \in Seq(Chars) /\ b \in Seq(Chars)
  BY <1>1, SuffixFacts
<1>5. Remaining(i) = ((p \o r) \o a) \o b
  BY DEF Remaining, Pb, All
<1>6. FileRest(i) = a \o b /\ Flat(i) = r \o (a \o b)
  BY DEF FileRest, Flat
<1> HIDE DEF p, r, a, b
<1>7. a \o b \in Seq(Chars) /\ r \o (a \o b) \in Seq(Chars) /\ p \o r \in Seq(Chars)
  BY <1>2, <1>3, <1>4, ConcatProperties
<1> DEFINE x == p \o r  y == a \o b
<1>8. ((p \o r) \o a) \o b = (p \o r) \o (a \o b)
  <2>1. x \in Seq(Chars)
    BY <1>7
  <2> HIDE DEF x
  <2>2. (x \o a) \o b = x \o (a \o b)
    BY <1>4, <2>1, ConcatAssociative
  <2> QED
    BY <2>2 DEF x
<1>9. (p \o r) \o (a \o b) = p \o (r \o (a \o b))
  <2>1. y \in Seq(Chars)
    BY <1>7
  <2> HIDE DEF y
  <2>2. (p \o r) \o y = p \o (r \o y)
    BY <1>2, <1>3, <2>1, ConcatAssociative
  <2> QED
    BY <2>2 DEF y
<1> QED
  BY <1>2, <1>5, <1>6, <1>7, <1>8, <1>9 DEF p

\* Inputs that are used up add nothing.
AllUsedUp(a) == \A j \in 1 .. Len(a) : UsedUp(a[j])

LEMMA UsedUpRest ==
  ASSUME NEW c \in Contexts, UsedUp(c)
  PROVE  Rest(c) = <<>>
<1>1. c.pos \in Nat /\ c.text \in Seq(Chars) /\ c.pos >= Len(c.text)
  BY DEF Contexts, UsedUp
<1> QED
  BY <1>1, SuffixFacts DEF Rest

LEMMA RestsCat ==
  ASSUME NEW u \in Seq(Contexts), NEW b \in Seq(Contexts), AllUsedUp(u)
  PROVE  Rests[u \o b] = Rests[b]
<1> DEFINE T == {v \in Seq(Contexts) : AllUsedUp(v) => Rests[v \o b] = Rests[b]}
<1>1. <<>> \in T
  <2>1. <<>> \o b = b /\ <<>> \in Seq(Contexts)
    BY ConcatEmptySeq
  <2> QED
    BY <2>1
<1>2. ASSUME NEW c \in Contexts, NEW v \in T PROVE <<c>> \o v \in T
  <2> DEFINE w == <<c>> \o v
  <2>1. /\ v \in Seq(Contexts) /\ <<c>> \in Seq(Contexts) /\ w \in Seq(Contexts)
        /\ Len(w) = Len(v) + 1 /\ Len(v) \in Nat
        /\ w[1] = c /\ \A j \in 1 .. Len(v) : w[j + 1] = v[j]
    OBVIOUS
  <2>2. w \o b = <<c>> \o (v \o b)
    BY <2>1, ConcatAssociative
  <2> HIDE DEF w
  <2>3. ASSUME AllUsedUp(w) PROVE Rests[w \o b] = Rests[b]
    <3>1. UsedUp(c)
      <4>1. 1 \in 1 .. Len(w)
        BY <2>1
      <4> QED
        BY <2>1, <2>3, <4>1 DEF AllUsedUp
    <3>2. AllUsedUp(v)
      <4>1. ASSUME NEW j \in 1 .. Len(v) PROVE UsedUp(v[j])
        <5>1. j + 1 \in 1 .. Len(w) /\ w[j + 1] = v[j]
          BY <2>1
        <5> QED
          BY <2>3, <5>1 DEF AllUsedUp
      <4> QED
        BY <4>1 DEF AllUsedUp
    <3>3. Rests[v \o b] = Rests[b]
      BY <3>2
    <3>4. v \o b \in Seq(Contexts) /\ Rests[b] \in Seq(Chars)
      BY <2>1, ConcatProperties, RestsIs
    <3>5. Rests[w \o b] = Rest(c) \o Rests[v \o b]
      BY <2>2, <3>4, RestsIs
    <3>6. Rest(c) = <<>>
      BY <3>1, UsedUpRest
    <3> QED
      BY <3>3, <3>4, <3>5, <3>6, ConcatEmptySeq
  <2> QED
    BY <2>1, <2>3 DEF w
<1> HIDE DEF T
<1>3. T = Seq(Contexts)
  <2>1. T \subseteq Seq(Contexts)
    BY DEF T
  <2> QED
    BY <1>1, <1>2, <2>1, SeqInduct
<1> QED
  BY <1>3 DEF T

LEMMA SettleFlat ==
  ASSUME file \in Seq(Chars), NEW i, Fine(i), i.putback \in Spaces \union {None}, NEW s, s = Settle(i)
  PROVE  Flat(s) = Flat(i)
<1>1. /\ AllPopped(i, s) \/ \E k \in 1 .. Len(All(i)) : Popped(i, s, k)
      /\ Fine(s) /\ s.inp = i.inp /\ s.ipos = i.ipos /\ s.nread = i.nread
  BY SettleFacts
<1>2. i \in Inputs /\ s \in Inputs
  BY <1>1, PosFacts
<1> DEFINE a == All(i)  b == All(s)
<1>3. /\ a \in Seq(Contexts) /\ b \in Seq(Contexts) /\ Len(a) \in Nat /\ Len(b) \in Nat
      /\ Len(a) >= 1 /\ b[1] = Current(s) /\ Len(b) = Len(s.stack) + 1
  BY <1>2, AllFacts
<1>4. Rests[a] = Rests[b]
  <2>1. CASE AllPopped(i, s)
    <3>1. AllUsedUp(a)
      BY <2>1 DEF AllPopped, AllUsedUp
    <3> DEFINE none == <<>>
    <3>2. none \in Seq(Contexts) /\ a \o none = a /\ Rests[none] = <<>>
      BY <1>3, ConcatEmptySeq, RestsIs
    <3> HIDE DEF none, a
    <3>3. Rests[a \o none] = Rests[none]
      BY <1>3, <3>1, <3>2, RestsCat
    <3>4. Rests[a] = <<>>
      BY <3>2, <3>3
    <3>5. Rests[b] = <<>>
      <4> DEFINE c == Current(s)
      <4>1. c = FileContext /\ s.stack = none
        BY <2>1 DEF AllPopped, none
      <4>2. b = <<c>> \o none
        BY <4>1 DEF All
      <4>3. c \in Contexts
        BY <1>2, AllFacts
      <4> HIDE DEF c, b
      <4>4. Rests[b] = Rest(c) \o Rests[none]
        BY <3>2, <4>2, <4>3, RestsIs
      <4>5. c.pos = 0 /\ c.text = <<>>
        BY <4>1 DEF FileContext, Context
      <4>6. Rest(c) = <<>>
        <5>1. c.text \in Seq(Chars) /\ c.pos \in Nat /\ c.pos >= Len(c.text)
          BY <4>3, <4>5 DEF Contexts
        <5> QED
          BY <5>1, SuffixFacts DEF Rest
      <4> QED
        BY <3>2, <4>4, <4>6
    <3> QED
      BY <3>4, <3>5
  <2>2. CASE \E k \in 1 .. Len(a) : Popped(i, s, k)
    <3>1. PICK k \in 1 .. Len(a) : Popped(i, s, k)
      BY <2>2
    <3>2. /\ \A j \in 1 .. k - 1 : UsedUp(a[j])
          /\ Len(b) = Len(a) - k + 1
          /\ \A j \in 1 .. Len(b) : b[j] = a[k + j - 1]
      BY <3>1 DEF Popped
    <3> DEFINE u == SubSeq(a, 1, k - 1)
    <3> HIDE DEF a, b
    <3>3. u \in Seq(Contexts) /\ Len(u) = k - 1 /\ \A j \in 1 .. k - 1 : u[j] = a[j]
      BY <1>3, <3>1
    <3> HIDE DEF u
    <3>4. AllUsedUp(u)
      BY <3>2, <3>3 DEF AllUsedUp
    <3>5. u \o b = a
      <4> DEFINE v == u \o b
      <4>1. /\ v \in Seq(Contexts) /\ Len(v) = Len(u) + Len(b)
            /\ \A j \in 1 .. Len(u) + Len(b) : v[j] = IF j <= Len(u) THEN u[j] ELSE b[j - Len(u)]
        BY <1>3, <3>3, ConcatProperties
      <4> HIDE DEF v
      <4>2. Len(v) = Len(a)
        BY <1>3, <3>1, <3>2, <3>3, <4>1
      <4>3. ASSUME NEW j \in 1 .. Len(a) PROVE v[j] = a[j]
        <5>1. CASE j <= k - 1
          <6>0. j \in 1 .. Len(u) + Len(b) /\ j <= Len(u)
            BY <1>3, <3>1, <3>2, <3>3, <5>1
          <6>1. v[j] = u[j] /\ j \in 1 .. k - 1
            BY <3>1, <4>1, <5>1, <6>0
          <6> QED
            BY <3>3, <6>1
        <5>2. CASE ~(j <= k - 1)
          <6> DEFINE m == j - (k - 1)
          <6>1. m \in 1 .. Len(b) /\ k + m - 1 = j
            BY <1>3, <3>1, <3>2, <5>2
          <6>0. j \in 1 .. Len(u) + Len(b) /\ ~(j <= Len(u)) /\ m = j - Len(u)
            BY <1>3, <3>1, <3>2, <3>3, <5>2
          <6>2. v[j] = b[m]
            BY <4>1, <6>0
          <6> HIDE DEF m
          <6> QED
            BY <3>2, <6>1, <6>2
        <5> QED
          BY <5>1, <5>2
      <4>4. v = a
        BY <1>3, <4>1, <4>2, <4>3, SeqEqual
      <4> QED
        BY <4>4 DEF v
    <3>6. Rests[u \o b] = Rests[b]
      BY <1>3, <3>3, <3>4, RestsCat
    <3> QED
      BY <3>5, <3>6
  <2> QED
    BY <1>1, <2>1, <2>2
<1> QED
  BY <1>1, <1>4 DEF Flat, FileRest

\* The lexer, coming from l, is in no comment when the text is read and a blank more.
Closing(c, l) == Scan[Rest(c) \o <<"sp">>][l].mode = "word"

\* How the inputs lie on each other: between an evaluated text and the input it
\* interrupted there is a transition, of which nothing is read before the text is used up,
\* and an interrupted text closes the comments it opens.
Laid(a) ==
  /\ \A k \in 1 .. Len(a) - 1 : a[k].text = <<"sp">> \/ a[k + 1] = Transition
  /\ \A k \in 1 .. Len(a) : ~a[k].eval => a[k].text = <<>>
  /\ \A k \in 2 .. Len(a) - 1 : Closing(a[k], Start)

\* The text that is read does so from the lexer's state l, unless it is the outermost one.
ClosedAt(i, l) ==
  i.stack # <<>> => Closing(Current(i), IF i.putback = None THEN l ELSE Lex(l, i.putback))

\* The last character of the text that was read belongs to a word.
InWord(i) == i.eval => i.pos >= 1 /\ i.text[i.pos] \notin Spaces

LEMMA ClosingUsedUp ==
  ASSUME NEW c \in Contexts, UsedUp(c), NEW l \in Lexer, Closing(c, l)
  PROVE  /\ l.mode = "word" /\ Lex(l, "sp").cur = <<>> /\ Lex(l, "sp").mode = "word"
         /\ Closing(Transition, l)
<1>1. Rest(c) = <<>>
  BY UsedUpRest
<1> DEFINE b == <<"sp">>  none == <<>>
<1>2. "sp" \in Chars /\ b \in Seq(Chars) /\ none \in Seq(Chars) /\ none \o b = b /\ b \o none = b
  BY ConcatEmptySeq DEF Chars, Spaces
<1>3. Rest(Transition) = b
  <2>1. Rest(Transition) = SubSeq(b, 1, Len(b))
    BY DEF Rest, Transition, Context
  <2> QED
    BY <1>2, <2>1, SubSeqFull
<1>4. Lex(l, "sp") \in Lexer
  BY <1>2, LexIs
<1>5. \A k \in Lexer : Scan[b][k] = Lex(k, "sp")
  <2>1. ASSUME NEW k \in Lexer PROVE Scan[b][k] = Lex(k, "sp")
    <3>1. Scan[<<"sp">> \o none][k] = Scan[none][Lex(k, "sp")]
      BY <1>2, ScanIs
    <3>2. Lex(k, "sp") \in Lexer
      BY <1>2, LexIs
    <3> QED
      BY <1>2, <3>1, <3>2, ScanIs
  <2> QED
    BY <2>1
<1>6. Scan[b \o b][l] = Scan[b][Lex(l, "sp")]
  BY <1>2, ScanIs
<1>7. Lex(l, "sp").mode = "word"
  BY <1>1, <1>2, <1>5 DEF Closing
<1>8. l.mode = "word" /\ Lex(l, "sp").cur = <<>> /\ Lex(Lex(l, "sp"), "sp").mode = "word"
  BY <1>7, BlankMode
<1>9. Closing(Transition, l)
  BY <1>3, <1>4, <1>5, <1>6, <1>8 DEF Closing
<1> QED
  BY <1>7, <1>8, <1>9

\* A step of the lexer is a step in the text.
LEMMA ClosingStep ==
  ASSUME NEW c \in Contexts, c.pos < Len(c.text), NEW e \in Contexts, e.text = c.text, e.pos = c.pos + 1,
         NEW l \in Lexer
  PROVE  /\ c.text[c.pos + 1] \in Chars
         /\ Rest(c) = <<c.text[c.pos + 1]>> \o Rest(e)
         /\ Closing(c, l) => Closing(e, Lex(l, c.text[c.pos + 1]))
<1>1. c.text \in Seq(Chars) /\ c.pos \in Nat
  BY DEF Contexts
<1> DEFINE ch == c.text[c.pos + 1]  r == Rest(e)  b == <<"sp">>
<1>2. ch \in Chars /\ Rest(c) = <<ch>> \o r
  BY <1>1, SuffixFacts DEF Rest
<1>3. r \in Seq(Chars) /\ b \in Seq(Chars)
  BY RestFacts DEF Chars, Spaces
<1> HIDE DEF ch, r, b
<1>4. (<<ch>> \o r) \o b = <<ch>> \o (r \o b) /\ r \o b \in Seq(Chars)
  BY <1>2, <1>3, ConcatAssociative, ConcatProperties
<1>5. Scan[<<ch>> \o (r \o b)][l] = Scan[r \o b][Lex(l, ch)]
  BY <1>2, <1>4, ScanIs
<1>6. Closing(c, l) => Closing(e, Lex(l, ch))
  BY <1>2, <1>4, <1>5 DEF Closing, r, b
<1> QED
  BY <1>2, <1>6 DEF ch, r

Behind(a, b, k) == Len(b) = Len(a) - k + 1 /\ \A j \in 1 .. Len(b) : b[j] = a[k + j - 1]

LEMMA LaidTail ==
  ASSUME NEW a \in Seq(Contexts), NEW b \in Seq(Contexts), NEW k \in 1 .. Len(a),
         Laid(a), Behind(a, b, k)
  PROVE  Laid(b)
<1> DEFINE n == Len(a)  m == Len(b)
<1>0. n \in Nat /\ m \in Nat /\ k \in 1 .. n /\ m = n - k + 1
  BY DEF Behind
<1>9. \A j \in 1 .. m : b[j] = a[k + j - 1]
  BY DEF Behind
<1>10. /\ \A j \in 1 .. n - 1 : a[j].text = <<"sp">> \/ a[j + 1] = Transition
       /\ \A j \in 1 .. n : ~a[j].eval => a[j].text = <<>>
       /\ \A j \in 2 .. n - 1 : Closing(a[j], Start)
  BY DEF Laid
<1>11. SUFFICES /\ \A j \in 1 .. m - 1 : b[j].text = <<"sp">> \/ b[j + 1] = Transition
                /\ \A j \in 1 .. m : ~b[j].eval => b[j].text = <<>>
                /\ \A j \in 2 .. m - 1 : Closing(b[j], Start)
  BY DEF Laid
<1> HIDE DEF n, m
<1>1. ASSUME NEW j \in 1 .. m - 1 PROVE b[j].text = <<"sp">> \/ b[j + 1] = Transition
  <2> DEFINE p == k + j - 1
  <2>1. p \in 1 .. n - 1 /\ j \in 1 .. m /\ j + 1 \in 1 .. m /\ p + 1 = k + (j + 1) - 1
    BY <1>0
  <2>2. b[j] = a[p] /\ b[j + 1] = a[p + 1]
    BY <1>9, <2>1
  <2> HIDE DEF p
  <2> QED
    BY <1>10, <2>1, <2>2
<1>2. ASSUME NEW j \in 1 .. m PROVE ~b[j].eval => b[j].text = <<>>
  <2>1. k + j - 1 \in 1 .. n /\ b[j] = a[k + j - 1]
    BY <1>0, <1>9
  <2> QED
    BY <1>10, <2>1
<1>3. ASSUME NEW j \in 2 .. m - 1 PROVE Closing(b[j], Start)
  <2>1. k + j - 1 \in 2 .. n - 1 /\ j \in 1 .. m
    BY <1>0
  <2>2. b[j] = a[k + j - 1]
    BY <1>9, <2>1
  <2> QED
    BY <1>10, <2>1, <2>2
<1> QED
  BY <1>1, <1>2, <1>3

LEMMA SettleLaid ==
  ASSUME NEW i, Fine(i), i.putback = None, Laid(All(i)), NEW l \in Lexer, ClosedAt(i, l),
         l.cur # <<>> => InWord(i), NEW s, s = Settle(i)
  PROVE  /\ Laid(All(s))
         /\ s.stack # <<>> => Closing(Current(s), l)
         /\ s.putback = None \/ (l.mode = "word" /\ l.cur = <<>>)
<1>1. /\ AllPopped(i, s) \/ \E k \in 1 .. Len(All(i)) : Popped(i, s, k)
      /\ Fine(s)
  BY SettleFacts
<1>2. i \in Inputs /\ s \in Inputs
  BY <1>1, PosFacts
<1> DEFINE a == All(i)  b == All(s)
<1>3. /\ a \in Seq(Contexts) /\ b \in Seq(Contexts) /\ Len(a) \in Nat /\ Len(b) \in Nat
      /\ Len(a) >= 1 /\ b[1] = Current(s) /\ a[1] = Current(i)
      /\ Len(b) = Len(s.stack) + 1 /\ Len(a) = Len(i.stack) + 1
      /\ Len(i.stack) \in Nat /\ Len(s.stack) \in Nat
      /\ Current(s).putback = s.putback /\ Current(i).putback = i.putback
      /\ Current(i) \in Contexts /\ Current(s) \in Contexts
  BY <1>2, AllFacts DEF Current, Context
<1>4. CASE AllPopped(i, s)
  <2>1. s.stack = <<>> /\ b[1] = FileContext /\ s.putback = None
    BY <1>3, <1>4 DEF AllPopped
  <2>2. Len(b) = 1
    BY <1>3, <2>1
  <2>3. b[1].text = <<>>
    BY <2>1 DEF FileContext, Context
  <2> HIDE DEF b
  <2>4. Laid(b)
    BY <2>2, <2>3 DEF Laid
  <2> QED
    BY <2>1, <2>4 DEF b
<1>5. CASE \E k \in 1 .. Len(a) : Popped(i, s, k)
  <2>1. PICK k \in 1 .. Len(a) : Popped(i, s, k)
    BY <1>5
  <2>2. /\ \A j \in 1 .. k - 1 : UsedUp(a[j])
        /\ Len(b) = Len(a) - k + 1
        /\ \A j \in 1 .. Len(b) : b[j] = a[k + j - 1]
    BY <2>1 DEF Popped
  <2>3. Laid(b)
    <3> HIDE DEF a, b
    <3>1. Laid(a) /\ Behind(a, b, k) /\ k \in 1 .. Len(a)
      BY <2>1, <2>2 DEF a, Behind
    <3> QED
      BY <1>3, <3>1, LaidTail
  <2>4. b[1] = a[k] /\ Len(b) >= 1
    <3>1. 1 \in 1 .. Len(b) /\ k + 1 - 1 = k
      BY <1>3, <2>1, <2>2
    <3> QED
      BY <2>2, <3>1
  <2> HIDE DEF a, b
  <2>5. CASE k = 1
    <3>1. Current(s) = Current(i)
      BY <1>3, <2>4, <2>5
    <3>2. s.stack # <<>> => i.stack # <<>>
      <4> SUFFICES ASSUME i.stack = <<>> PROVE s.stack = <<>>
        OBVIOUS
      <4>1. Len(s.stack) = 0
        BY <1>3, <2>2, <2>5
      <4>2. s.stack \in Seq(Contexts)
        BY <1>2 DEF Inputs
      <4> QED
        BY <4>1, <4>2, TailFacts
    <3>3. s.putback = None
      BY <1>3, <3>1
    <3>4. s.stack # <<>> => Closing(Current(s), l)
      BY <3>1, <3>2 DEF ClosedAt
    <3> QED
      BY <2>3, <3>3, <3>4 DEF b
  <2>6. CASE k # 1
    <3>1. UsedUp(a[1]) /\ Len(a) >= 2 /\ k >= 2
      BY <1>3, <2>1, <2>2, <2>6
    <3>2. i.stack # <<>>
      BY <1>3, <3>1
    <3>3. Closing(Current(i), l)
      BY <3>2 DEF ClosedAt
    <3>4. /\ l.mode = "word" /\ Lex(l, "sp").cur = <<>> /\ Lex(l, "sp").mode = "word"
          /\ Closing(Transition, l)
      BY <1>3, <3>1, <3>3, ClosingUsedUp
    <3>5. CASE l.cur = <<>>
      <4>1. ASSUME s.stack # <<>> PROVE Closing(Current(s), l)
        <5>1. Len(s.stack) # 0
          <6>1. s.stack \in Seq(Contexts)
            BY <1>2 DEF Inputs
          <6> QED
            BY <4>1, <6>1, EmptySeq
        <5>2. k \in 2 .. Len(a) - 1
          BY <1>3, <2>1, <2>2, <3>1, <5>1
        <5>3. Closing(Current(s), Start)
          BY <1>3, <2>4, <5>2 DEF Laid, a
        <5> DEFINE t == Rest(Current(s)) \o <<"sp">>
        <5>4. t \in Seq(Chars)
          <6>1. Rest(Current(s)) \in Seq(Chars) /\ <<"sp">> \in Seq(Chars)
            BY <1>3, RestFacts DEF Chars, Spaces
          <6> QED
            BY <6>1, ConcatProperties
        <5> HIDE DEF t
        <5>5. Scan[t][Start].mode = Scan[t][l].mode
          BY <3>4, <3>5, <5>4, StartFacts, ModeOnly
        <5> QED
          BY <5>3, <5>5 DEF Closing, t
      <4> QED
        BY <2>3, <3>4, <3>5, <4>1 DEF b
    <3>6. CASE l.cur # <<>>
      <4> DEFINE c == Current(i)
      <4>1. c.eval = i.eval /\ c.text = i.text /\ c.pos = i.pos
        BY DEF Current, Context
      <4>2. i.eval
        <5>1. 1 \in 1 .. Len(a) - 1
          BY <1>3, <3>1
        <5>2. Nested(i, a)
          BY DEF Fine, a
        <5> QED
          BY <1>3, <4>1, <5>1, <5>2 DEF Nested
      <4>3. i.pos >= 1 /\ i.text[i.pos] \notin Spaces
        BY <3>6, <4>2 DEF InWord
      <4>4. i.text # <<"sp">>
        <5> SUFFICES ASSUME i.text = <<"sp">> PROVE FALSE
          OBVIOUS
        <5>1. i.pos <= Len(i.text)
          BY PosFacts
        <5>4. i.pos \in Nat
          BY <1>2 DEF Inputs
        <5>5. Len(i.text) = 1
          OBVIOUS
        <5>2. i.pos = 1
          BY <4>3, <5>1, <5>4, <5>5
        <5>3. i.text[1] = "sp"
          OBVIOUS
        <5> QED
          BY <4>3, <5>2, <5>3 DEF Spaces
      <4>5. a[2] = Transition
        <5>1. 1 \in 1 .. Len(a) - 1 /\ 1 + 1 = 2
          BY <1>3, <3>1
        <5> QED
          BY <1>3, <4>1, <4>4, <5>1 DEF Laid, a
      <4>6. ~UsedUp(Transition) /\ Transition.putback = None
        BY DEF UsedUp, Transition, Context
      <4>7. k = 2
        <5> SUFFICES ASSUME k # 2 PROVE FALSE
          OBVIOUS
        <5>1. 2 \in 1 .. k - 1
          BY <2>1, <1>3, <3>1
        <5> QED
          BY <2>2, <4>5, <4>6, <5>1
      <4>8. Current(s) = Transition
        BY <1>3, <2>4, <4>5, <4>7
      <4>9. s.putback = None
        BY <1>3, <4>6, <4>8
      <4> QED
        BY <2>3, <3>4, <4>8, <4>9 DEF b
    <3> QED
      BY <3>5, <3>6
  <2> QED
    BY <2>5, <2>6
<1> QED
  BY <1>1, <1>4, <1>5

LEMMA AllIs ==
  ASSUME NEW i \in Inputs
  PROVE  /\ Current(i) \in Contexts /\ i.stack \in Seq(Contexts) /\ All(i) \in Seq(Contexts)
         /\ Rests[All(i)] = Rest(Current(i)) \o Rests[i.stack]
         /\ Rest(Current(i)) \in Seq(Chars) /\ Rests[i.stack] \in Seq(Chars)
         /\ Current(i).text = i.text /\ Current(i).pos = i.pos /\ Current(i).eval = i.eval
<1>1. Current(i) \in Contexts /\ i.stack \in Seq(Contexts) /\ All(i) \in Seq(Contexts)
  BY AllFacts
<1>2. Rests[All(i)] = Rest(Current(i)) \o Rests[i.stack]
  <2> DEFINE c == Current(i)  s == i.stack
  <2>1. c \in Contexts /\ s \in Seq(Contexts) /\ All(i) = <<c>> \o s
    BY <1>1 DEF All
  <2> HIDE DEF c, s
  <2>2. Rests[<<c>> \o s] = Rest(c) \o Rests[s]
    BY <2>1, RestsIs
  <2> QED
    BY <2>1, <2>2 DEF c, s
<1>3. Rest(Current(i)) \in Seq(Chars) /\ Rests[i.stack] \in Seq(Chars)
  BY <1>1, RestFacts, RestsIs
<1> QED
  BY <1>1, <1>2, <1>3 DEF Current, Context

\* What is put back or read does not change how the inputs lie on each other.
LEMMA LaidKept ==
  ASSUME NEW i \in Inputs, NEW e \in Inputs, e.stack = i.stack, e.eval = i.eval, e.text = i.text,
         Laid(All(i))
  PROVE  Laid(All(e))
<1> DEFINE a == All(i)  b == All(e)
<1>1. /\ Len(a) = Len(i.stack) + 1 /\ Len(b) = Len(e.stack) + 1 /\ Len(i.stack) \in Nat
      /\ a[1] = Current(i) /\ b[1] = Current(e)
      /\ \A k \in 1 .. Len(i.stack) : a[k + 1] = i.stack[k]
      /\ \A k \in 1 .. Len(e.stack) : b[k + 1] = e.stack[k]
  BY AllFacts
<1>2. b[1].text = a[1].text /\ b[1].eval = a[1].eval
  BY <1>1 DEF Current, Context
<1> HIDE DEF a, b
<1> DEFINE n == Len(a)
<1>3. n \in Nat /\ n >= 1 /\ n = Len(b)
  BY <1>1
<1>4. ASSUME NEW k \in 2 .. n PROVE b[k] = a[k]
  <2> DEFINE m == k - 1
  <2>1. m \in 1 .. Len(i.stack) /\ m \in 1 .. Len(e.stack) /\ m + 1 = k
    BY <1>1, <1>3
  <2> HIDE DEF m
  <2> QED
    BY <1>1, <2>1
<1>5. /\ \A j \in 1 .. n - 1 : a[j].text = <<"sp">> \/ a[j + 1] = Transition
      /\ \A j \in 1 .. n : ~a[j].eval => a[j].text = <<>>
      /\ \A j \in 2 .. n - 1 : Closing(a[j], Start)
  BY DEF Laid, a
<1>6. ASSUME /\ \A j \in 1 .. n - 1 : b[j].text = <<"sp">> \/ b[j + 1] = Transition
             /\ \A j \in 1 .. n : ~b[j].eval => b[j].text = <<>>
             /\ \A j \in 2 .. n - 1 : Closing(b[j], Start)
      PROVE  Laid(b)
  BY <1>3, <1>6 DEF Laid
<1> HIDE DEF n
<1>7. \A j \in 1 .. n : b[j].text = a[j].text /\ b[j].eval = a[j].eval
  <2>1. ASSUME NEW j \in 1 .. n PROVE b[j].text = a[j].text /\ b[j].eval = a[j].eval
    <3>1. CASE j = 1
      BY <1>2, <3>1
    <3>2. CASE j # 1
      <4>1. j \in 2 .. n
        BY <1>3, <3>2
      <4> QED
        BY <1>4, <4>1
    <3> QED
      BY <3>1, <3>2
  <2> QED
    BY <2>1
<1>8. ASSUME NEW j \in 1 .. n - 1 PROVE b[j].text = <<"sp">> \/ b[j + 1] = Transition
  <2>1. j \in 1 .. n /\ j + 1 \in 2 .. n
    BY <1>3
  <2>2. b[j].text = a[j].text /\ b[j + 1] = a[j + 1]
    BY <1>4, <1>7, <2>1
  <2> QED
    BY <1>5, <2>2
<1>9. ASSUME NEW j \in 2 .. n - 1 PROVE Closing(b[j], Start)
  <2>1. j \in 2 .. n
    BY <1>3
  <2> QED
    BY <1>4, <1>5, <2>1
<1>10. Laid(b)
  BY <1>5, <1>6, <1>7, <1>8, <1>9
<1> QED
  BY <1>10 DEF b

LEMMA Regroup ==
  ASSUME NEW S, NEW p \in Seq(S), NEW q \in Seq(S), NEW r \in Seq(S), NEW w \in Seq(S)
  PROVE  ((p \o q) \o r) \o w = p \o ((q \o r) \o w)
OBVIOUS

LEMMA TextReads ==
  ASSUME file \in Seq(Chars), NEW i, Fine(i), i.eval, i.pos < Len(i.text), NEW d, d = Advance(i),
         NEW l \in Lexer
  PROVE  /\ d.ch \in Chars /\ d.in \in Inputs /\ Flat(i) = <<d.ch>> \o Flat(d.in)
         /\ d.in.stack = i.stack /\ d.in.eval = i.eval /\ d.in.text = i.text /\ d.in.putback = i.putback
         /\ d.in.errs = i.errs
         /\ d.in.pos >= 1 /\ d.in.text[d.in.pos] = d.ch
         /\ Closing(Current(i), l) => Closing(Current(d.in), Lex(l, d.ch))
<1>1. i \in Inputs /\ i.pos \in Nat /\ i.text \in Seq(Chars)
  BY PosFacts DEF Inputs
<1> DEFINE ch == i.text[i.pos + 1]  f == [i EXCEPT !.pos = i.pos + 1]  e == d.in
<1>2. i.pos + 1 \in Nat /\ ch \in Chars
  BY <1>1
<1>3. /\ f \in Inputs /\ f.eval = i.eval /\ f.text = i.text /\ f.putback = i.putback
      /\ f.stack = i.stack /\ f.inp = i.inp /\ f.nread = i.nread /\ f.ipos = i.ipos
      /\ f.errs = i.errs /\ f.pos = i.pos + 1
  BY <1>1, <1>2 DEF Inputs
<1>4. d = Took(f, ch)
  BY DEF Advance
<1> HIDE DEF f, ch
<1>5. /\ d.ch = ch /\ e \in Inputs /\ e.eval = f.eval /\ e.text = f.text /\ e.putback = f.putback
      /\ e.stack = f.stack /\ e.inp = f.inp /\ e.nread = f.nread /\ e.ipos = f.ipos
      /\ e.errs = f.errs /\ e.pos = f.pos
  <2>1. f \in Inputs
    BY <1>3
  <2> QED
    BY <1>4, <2>1, TookFacts
<1> HIDE DEF e
<1> DEFINE c == Current(i)  g == Current(e)
<1>6. /\ c \in Contexts /\ g \in Contexts /\ c.text = i.text /\ c.pos = i.pos
      /\ g.text = i.text /\ g.pos = i.pos + 1
      /\ Rests[All(i)] = Rest(c) \o Rests[i.stack] /\ Rests[All(e)] = Rest(g) \o Rests[i.stack]
      /\ Rest(g) \in Seq(Chars) /\ Rests[i.stack] \in Seq(Chars)
  BY <1>1, <1>3, <1>5, AllIs
<1>7. FileRest(e) = FileRest(i) /\ FileRest(i) \in Seq(Chars)
  BY <1>1, <1>3, <1>5, FlatFacts DEF FileRest
<1> HIDE DEF c, g
<1>8. /\ Rest(c) = <<ch>> \o Rest(g)
      /\ Closing(c, l) => Closing(g, Lex(l, ch))
  BY <1>6, ClosingStep DEF ch
<1>9. Flat(i) = <<ch>> \o Flat(e)
  <2> DEFINE p == <<ch>>  q == Rest(g)  r == Rests[i.stack]  w == FileRest(i)
  <2>1. p \in Seq(Chars) /\ q \in Seq(Chars) /\ r \in Seq(Chars) /\ w \in Seq(Chars)
    BY <1>2, <1>6, <1>7 DEF ch
  <2>2. Flat(i) = ((p \o q) \o r) \o w /\ Flat(e) = (q \o r) \o w
    BY <1>6, <1>7, <1>8 DEF Flat
  <2> HIDE DEF p, q, r, w
  <2>3. ((p \o q) \o r) \o w = p \o ((q \o r) \o w)
    BY <2>1
  <2> QED
    BY <2>2, <2>3 DEF p
<1>10. e.pos >= 1 /\ e.text[e.pos] = ch
  BY <1>1, <1>3, <1>5 DEF ch
<1>11. ch \in Chars
  BY <1>2
<1> QED
  BY <1>3, <1>5, <1>8, <1>9, <1>10, <1>11 DEF e, c, g

\* The part of an input that has no text: the file.
OfFile(i) == i \in Inputs /\ ~i.eval /\ i.stack = <<>> /\ i.text = <<>>

LEMMA OfFileFacts ==
  ASSUME file \in Seq(Chars), NEW i, OfFile(i)
  PROVE  Flat(i) = FileRest(i) /\ FileRest(i) \in Seq(Chars)
<1>1. i \in Inputs /\ i.stack = <<>> /\ i.text = <<>>
  BY DEF OfFile
<1>2. /\ Rests[All(i)] = Rest(Current(i)) \o Rests[i.stack] /\ Current(i) \in Contexts
      /\ Current(i).text = <<>> /\ Current(i).pos = i.pos
  BY <1>1, AllIs
<1>3. i.pos \in Nat /\ Len(Current(i).text) = 0
  BY <1>1, <1>2 DEF Inputs
<1>4. UsedUp(Current(i)) \/ ~Current(i).eval
  BY <1>2, <1>3 DEF UsedUp
<1>5. Rest(Current(i)) = <<>>
  <2>1. Current(i).text \in Seq(Chars) /\ i.pos >= Len(Current(i).text)
    BY <1>2, <1>3 DEF Contexts
  <2> QED
    BY <1>2, <1>3, <2>1, SuffixFacts DEF Rest
<1>6. Rests[i.stack] = <<>>
  BY <1>1, RestsIs
<1>7. FileRest(i) \in Seq(Chars)
  BY <1>1, FlatFacts
<1> DEFINE none == <<>>  t == FileRest(i)
<1>8. Flat(i) = (none \o none) \o t
  BY <1>2, <1>5, <1>6 DEF Flat
<1>9. none \in Seq(Chars) /\ t \in Seq(Chars)
  BY <1>7
<1> HIDE DEF t
<1>10. none \o none = none /\ none \o t = t
  BY <1>9, ConcatEmptySeq
<1> QED
  BY <1>7, <1>8, <1>10 DEF t

LEMMA FileReads ==
  ASSUME file \in Seq(Chars), NEW i, OfFile(i), i.ipos < Len(i.inp), NEW d, d = Advance(i)
  PROVE  /\ d.ch \in Chars /\ OfFile(d.in) /\ Flat(i) = <<d.ch>> \o Flat(d.in)
         /\ d.in.putback = i.putback /\ d.in.errs = i.errs
<1>1. i \in Inputs /\ i.ipos \in Nat /\ i.inp \in Seq(Chars) /\ ~i.eval
  BY DEF OfFile, Inputs
<1> DEFINE ch == i.inp[i.ipos + 1]  f == [i EXCEPT !.ipos = i.ipos + 1]  e == d.in
<1>2. i.ipos + 1 \in Nat /\ ch \in Chars
  BY <1>1
<1>3. /\ f \in Inputs /\ f.eval = i.eval /\ f.text = i.text /\ f.putback = i.putback
      /\ f.stack = i.stack /\ f.inp = i.inp /\ f.nread = i.nread /\ f.ipos = i.ipos + 1
      /\ f.errs = i.errs /\ f.pos = i.pos
  BY <1>1, <1>2 DEF Inputs
<1>4. d = Took(f, ch)
  BY <1>1 DEF Advance
<1> HIDE DEF f, ch
<1>5. /\ d.ch = ch /\ e \in Inputs /\ e.eval = f.eval /\ e.text = f.text /\ e.putback = f.putback
      /\ e.stack = f.stack /\ e.inp = f.inp /\ e.nread = f.nread /\ e.ipos = f.ipos
      /\ e.errs = f.errs /\ e.pos = f.pos
  BY <1>3, <1>4, TookFacts
<1> HIDE DEF e
<1>6. OfFile(e)
  BY <1>3, <1>5 DEF OfFile
<1>7. Flat(i) = FileRest(i) /\ Flat(e) = FileRest(e)
  BY <1>6, OfFileFacts
<1>8. FileRest(i) = <<ch>> \o FileRest(e)
  <2> DEFINE p == <<ch>>  q == SubSeq(i.inp, (i.ipos + 1) + 1, Len(i.inp))
             t == SubSeq(file, i.nread + 1, Len(file))
  <2>1. SubSeq(i.inp, i.ipos + 1, Len(i.inp)) = p \o q
    BY <1>1, SuffixFacts DEF ch
  <2>2. FileRest(i) = (p \o q) \o t /\ FileRest(e) = q \o t
    BY <1>3, <1>5, <2>1 DEF FileRest
  <2>3. p \in Seq(Chars) /\ q \in Seq(Chars) /\ t \in Seq(Chars)
    <3>1. i.nread \in Nat
      BY <1>1 DEF Inputs
    <3>2. p \in Seq(Chars)
      BY <1>2 DEF ch
    <3> QED
      BY <1>1, <1>2, <3>1, <3>2, SuffixFacts
  <2> HIDE DEF p, q, t
  <2>4. (p \o q) \o t = p \o (q \o t)
    BY <2>3, ConcatAssociative
  <2> QED
    BY <2>2, <2>4 DEF p
<1>9. ch \in Chars
  BY <1>2 DEF ch
<1> QED
  BY <1>3, <1>5, <1>6, <1>7, <1>8, <1>9 DEF e

LEMMA EndReads ==
  ASSUME file \in Seq(Chars), NEW i, OfFile(i), ~(i.ipos < Len(i.inp)), i.nread >= Len(file),
         NEW d, d = Advance(i)
  PROVE  /\ d.ch = EOF /\ OfFile(d.in) /\ Flat(i) = <<>> /\ Flat(d.in) = <<>>
         /\ d.in.putback = i.putback /\ d.in.errs = i.errs
<1>1. /\ i \in Inputs /\ i.ipos \in Nat /\ i.inp \in Seq(Chars) /\ ~i.eval /\ i.nread \in Nat
      /\ Len(i.inp) \in Nat
  BY DEF OfFile, Inputs
<1> DEFINE e == d.in
<1>2. d = Took(i, EOF)
  BY <1>1 DEF Advance
<1>3. /\ d.ch = EOF /\ e \in Inputs /\ e.eval = i.eval /\ e.text = i.text /\ e.putback = i.putback
      /\ e.stack = i.stack /\ e.inp = i.inp /\ e.nread = i.nread /\ e.ipos = i.ipos
      /\ e.errs = i.errs /\ e.pos = i.pos
  BY <1>1, <1>2, TookFacts
<1> HIDE DEF e
<1>4. OfFile(e)
  BY <1>3 DEF OfFile
<1>5. FileRest(i) = <<>> /\ FileRest(e) = <<>>
  <2>1. i.ipos >= Len(i.inp)
    BY <1>1
  <2>2. SubSeq(i.inp, i.ipos + 1, Len(i.inp)) = <<>> /\ SubSeq(file, i.nread + 1, Len(file)) = <<>>
    BY <1>1, <2>1, SuffixFacts
  <2> DEFINE none == <<>>
  <2>3. none \in Seq(Chars) /\ none \o none = none
    BY ConcatEmptySeq
  <2>4. FileRest(i) = none
    BY <2>2, <2>3 DEF FileRest
  <2> QED
    BY <1>3, <2>4 DEF FileRest
<1> QED
  BY <1>3, <1>4, <1>5, OfFileFacts DEF e

LEMMA RefillReads ==
  ASSUME file \in Seq(Chars), NEW i, Fine(i), OfFile(i), ~(i.ipos < Len(i.inp)), ~MayFail(i),
         NEW r \in Refills(i)
  PROVE  /\ OfFile(r) /\ Flat(r) = Flat(i) /\ r.putback = i.putback /\ r.errs = i.errs
         /\ ~(r.ipos < Len(r.inp)) => r.nread >= Len(file)
<1>1. /\ i \in Inputs /\ ~i.eval /\ i.stack = <<>> /\ i.text = <<>>
      /\ i.nread <= Len(file) /\ i.ipos <= Len(i.inp)
  BY DEF OfFile, Fine, Sized
<1>2. /\ i.nread \in Nat /\ i.errs \in Nat /\ Len(file) \in Nat /\ Chunk \in Nat \ {0}
      /\ i.inp \in Seq(Chars) /\ i.ipos \in Nat /\ Len(i.inp) \in Nat
  BY <1>1, InputAssumption DEF Inputs
<1>3. /\ Fine(r) /\ r.eval = i.eval /\ r.stack = i.stack /\ r.putback = i.putback
      /\ r.text = i.text
  BY <1>1, RefillFacts
<1>4. OfFile(r)
  BY <1>1, <1>3, PosFacts DEF OfFile
<1> DEFINE left == Len(file) - i.nread
           Filled(n) == [i EXCEPT !.inp = SubSeq(file, i.nread + 1, i.nread + n),
                                  !.ipos = 0, !.nread = i.nread + n]
<1>5. PICK n \in (IF left = 0 THEN {0} ELSE 1 .. Min({left, Chunk})) : r = Filled(n)
  BY DEF Refills
<1>6. n \in Nat /\ i.nread + n <= Len(file) /\ (n = 0 => left = 0)
  <2>1. CASE left = 0
    BY <1>1, <1>2, <1>5, <2>1
  <2>2. CASE left # 0
    <3> DEFINE m == Min({left, Chunk})
    <3>1. left \in Nat /\ {left, Chunk} \subseteq Nat
      BY <1>1, <1>2
    <3> HIDE DEF left
    <3>2. m \in {left, Chunk} /\ m <= left
      BY <3>1, MinIsLeast
    <3> HIDE DEF m
    <3>3. n \in 1 .. m
      BY <1>5, <2>2 DEF m
    <3>4. n \in Nat /\ n <= left /\ n # 0
      BY <1>2, <3>1, <3>2, <3>3
    <3> QED
      BY <1>1, <1>2, <3>4 DEF left
  <2> QED
    BY <2>1, <2>2
<1> DEFINE t == SubSeq(file, i.nread + 1, i.nread + n)  m == i.nread + n
           u == SubSeq(file, m + 1, Len(file))
<1>7. t \in Seq(Chars) /\ Len(t) = n
  BY <1>2, <1>6, PieceFacts
<1>8. m \in Nat /\ m <= Len(file)
  BY <1>2, <1>6
<1>9. r = [i EXCEPT !.inp = t, !.ipos = 0, !.nread = m]
  BY <1>5
<1>10. t \o u = SubSeq(file, i.nread + 1, Len(file))
  <2> DEFINE x == i.nread + 1  y == i.nread + n  z == Len(file)
  <2>0. PICK k \in Nat, h \in Nat : k = i.nread /\ h = Len(file)
    BY <1>2
  <2>3. k + n <= h /\ n \in Nat
    BY <1>6, <2>0
  <2>4. k + 1 \in 1 .. h + 1 /\ k + n \in (k + 1) - 1 .. h /\ h \in k + n .. h
    BY <2>3
  <2>1. x \in 1 .. Len(file) + 1 /\ y \in x - 1 .. Len(file) /\ z \in y .. Len(file)
    BY <2>0, <2>4
  <2> HIDE DEF x, y, z
  <2>2. SubSeq(file, x, y) \o SubSeq(file, y + 1, z) = SubSeq(file, x, z)
    BY <2>1, ConcatAdjacentSubSeq
  <2> QED
    BY <2>2 DEF x, y, z
<1>11. u \in Seq(Chars)
  BY <1>8, SuffixFacts
<1> HIDE DEF t, u, m, Filled
<1>12. r.inp = t /\ r.ipos = 0 /\ r.nread = m /\ r.errs = i.errs
  BY <1>1, <1>9 DEF Inputs
<1>13. FileRest(r) = t \o u
  <2>1. SubSeq(t, 0 + 1, Len(t)) = t
    BY <1>7, SubSeqFull
  <2> QED
    BY <1>12, <2>1 DEF FileRest, u
<1>14. FileRest(i) = t \o u
  <2>1. SubSeq(i.inp, i.ipos + 1, Len(i.inp)) = <<>>
    <3>1. i.ipos >= Len(i.inp)
      BY <1>2
    <3> QED
      BY <1>2, <3>1, SuffixFacts
  <2>2. t \o u \in Seq(Chars)
    BY <1>7, <1>11, ConcatProperties
  <2> DEFINE v == t \o u
  <2>3. FileRest(i) = <<>> \o v
    BY <1>10, <2>1 DEF FileRest
  <2> HIDE DEF v
  <2>4. v \in Seq(Chars)
    BY <2>2 DEF v
  <2> QED
    BY <2>3, <2>4, ConcatEmptySeq DEF v
<1>15. ~(r.ipos < Len(r.inp)) => r.nread >= Len(file)
  <2> SUFFICES ASSUME ~(0 < Len(t)) PROVE m >= Len(file)
    BY <1>12
  <2>1. n = 0
    BY <1>6, <1>7
  <2> QED
    BY <1>2, <1>6, <2>1 DEF m
<1> QED
  BY <1>3, <1>4, <1>12, <1>13, <1>14, <1>15, OfFileFacts

\* No read fails.
ReadsReturn == Failing = {} \/ MaxErrors = 0

LEMMA NoneFails ==
  ASSUME ReadsReturn, NEW i \in Inputs
  PROVE  ~MayFail(i)
<1>1. i.errs \in Nat
  BY DEF Inputs
<1> QED
  BY <1>1 DEF MayFail, ReadsReturn

\* The character that was put back comes next.
LEMMA PutBackReads ==
  ASSUME file \in Seq(Chars), NEW i, Fine(i), i.putback # None, Laid(All(i)), NEW l \in Lexer,
         ClosedAt(i, l), NEW d \in GetCh(i)
  PROVE  /\ d.ch \in Chars /\ d.in \in Inputs /\ Remaining(i) = <<d.ch>> \o Flat(d.in)
         /\ d.in.putback = None /\ d.in.errs = i.errs /\ Laid(All(d.in))
         /\ d.in.eval = i.eval /\ d.in.text = i.text /\ d.in.pos = i.pos
         /\ d.in.stack # <<>> => Closing(Current(d.in), Lex(l, d.ch))
<1>1. i \in Inputs /\ i.putback \in Chars
  BY PosFacts DEF Inputs
<1> DEFINE e == d.in
<1>2. d.ch = i.putback /\ e = [i EXCEPT !.putback = None]
  BY DEF GetCh
<1> HIDE DEF e
<1>3. /\ e \in Inputs /\ e.putback = None /\ e.stack = i.stack /\ e.eval = i.eval /\ e.text = i.text
      /\ e.pos = i.pos /\ e.inp = i.inp /\ e.ipos = i.ipos /\ e.nread = i.nread /\ e.errs = i.errs
  BY <1>1, <1>2 DEF Inputs
<1>4. Rest(Current(e)) = Rest(Current(i))
  BY <1>3 DEF Rest, Current, Context
<1>5. Rests[All(e)] = Rests[All(i)]
  BY <1>1, <1>3, <1>4, AllIs
<1>6. Flat(e) = Flat(i)
  BY <1>3, <1>5 DEF Flat, FileRest
<1>7. Remaining(i) = <<d.ch>> \o Flat(e)
  BY <1>1, <1>2, <1>6, FlatFacts DEF Pb
<1>8. Laid(All(e))
  BY <1>1, <1>3, LaidKept
<1>9. e.stack # <<>> => Closing(Current(e), Lex(l, d.ch))
  BY <1>1, <1>2, <1>3, <1>4 DEF ClosedAt, Closing
<1> QED
  BY <1>1, <1>2, <1>3, <1>7, <1>8, <1>9 DEF e

\* A fresh character is taken from the first input that is not used up.
LEMMA FreshReads ==
  ASSUME ReadsReturn, file \in Seq(Chars), NEW i, Fine(i), i.putback = None, Laid(All(i)),
         NEW l \in Lexer, ClosedAt(i, l), l.cur # <<>> => InWord(i), NEW d \in GetCh(i)
  PROVE  /\ d.in \in Inputs /\ Laid(All(d.in)) /\ d.in.errs = i.errs
         /\ d.in.putback = None \/ (l.mode = "word" /\ l.cur = <<>>)
         /\ d.ch = EOF => /\ Remaining(i) = <<>> /\ Flat(d.in) = <<>>
                          /\ d.in.stack = <<>> /\ ~d.in.eval
         /\ d.ch # EOF => /\ d.ch \in Chars /\ Remaining(i) = <<d.ch>> \o Flat(d.in)
                          /\ d.in.eval => d.in.pos >= 1 /\ d.in.text[d.in.pos] = d.ch
                          /\ d.in.stack # <<>> => Closing(Current(d.in), Lex(l, d.ch))
<1> DEFINE s == Settle(i)
<1>1. /\ Laid(All(s)) /\ Fine(s) /\ s.errs = i.errs
      /\ s.stack # <<>> => Closing(Current(s), l)
      /\ s.putback = None \/ (l.mode = "word" /\ l.cur = <<>>)
      /\ s.eval => s.pos < Len(s.text)
      /\ ~s.eval => s.stack = <<>>
  BY SettleLaid, SettleFacts
<1>2. i \in Inputs /\ s \in Inputs
  BY <1>1, PosFacts
<1>3. Remaining(i) = Flat(s)
  <2>1. Flat(s) = Flat(i)
    BY SettleFlat
  <2>2. Remaining(i) = <<>> \o Flat(i) /\ Flat(i) \in Seq(Chars)
    BY <1>2, FlatFacts DEF Pb
  <2> QED
    BY <2>1, <2>2, ConcatEmptySeq
<1>4. d \in IF s.eval \/ s.ipos < Len(s.inp) THEN {Advance(s)} ELSE {Advance(r) : r \in Refills(s)}
  BY DEF GetCh
<1> HIDE DEF s
<1>5. EOF \notin Chars
  BY SpacesAreChars
<1>6. CASE s.eval
  <2>1. d = Advance(s)
    BY <1>4, <1>6
  <2>2. /\ d.ch \in Chars /\ d.in \in Inputs /\ Flat(s) = <<d.ch>> \o Flat(d.in)
        /\ d.in.stack = s.stack /\ d.in.eval = s.eval /\ d.in.text = s.text /\ d.in.putback = s.putback
        /\ d.in.errs = s.errs
        /\ d.in.pos >= 1 /\ d.in.text[d.in.pos] = d.ch
        /\ Closing(Current(s), l) => Closing(Current(d.in), Lex(l, d.ch))
    BY <1>1, <1>6, <2>1, TextReads
  <2>3. Laid(All(d.in))
    BY <1>1, <1>2, <2>2, LaidKept
  <2> QED
    BY <1>1, <1>3, <1>5, <2>2, <2>3
<1>7. CASE ~s.eval
  <2>1. OfFile(s)
    <3>1. s.stack = <<>>
      BY <1>1, <1>7
    <3>2. s.text = <<>>
      <4>1. Len(All(s)) = Len(s.stack) + 1 /\ All(s)[1] = Current(s) /\ Len(s.stack) \in Nat
        BY <1>2, AllFacts
      <4>2. 1 \in 1 .. Len(All(s))
        BY <4>1
      <4>3. ~All(s)[1].eval /\ All(s)[1].text = s.text
        BY <1>7, <4>1 DEF Current, Context
      <4> QED
        BY <1>1, <4>2, <4>3 DEF Laid
    <3> QED
      BY <1>2, <1>7, <3>1, <3>2 DEF OfFile
  <2>2. PICK r : /\ OfFile(r) /\ Flat(r) = Flat(s) /\ r.putback = s.putback /\ r.errs = s.errs
                 /\ ~(r.ipos < Len(r.inp)) => r.nread >= Len(file)
                 /\ d = Advance(r)
    <3>1. CASE s.ipos < Len(s.inp)
      BY <1>4, <1>7, <2>1, <3>1
    <3>2. CASE ~(s.ipos < Len(s.inp))
      <4>1. PICK r \in Refills(s) : d = Advance(r)
        BY <1>4, <1>7, <3>2
      <4>2. ~MayFail(s)
        BY <1>2, NoneFails
      <4>3. /\ OfFile(r) /\ Flat(r) = Flat(s) /\ r.putback = s.putback /\ r.errs = s.errs
            /\ ~(r.ipos < Len(r.inp)) => r.nread >= Len(file)
        BY <1>1, <2>1, <3>2, <4>2, RefillReads
      <4> QED
        BY <4>1, <4>3
    <3> QED
      BY <3>1, <3>2
  <2>3. /\ OfFile(d.in) /\ d.in.putback = s.putback /\ d.in.errs = s.errs
        /\ \/ d.ch \in Chars /\ Flat(r) = <<d.ch>> \o Flat(d.in)
           \/ d.ch = EOF /\ Flat(r) = <<>> /\ Flat(d.in) = <<>>
    <3>1. CASE r.ipos < Len(r.inp)
      BY <2>2, <3>1, FileReads
    <3>2. CASE ~(r.ipos < Len(r.inp))
      BY <2>2, <3>2, EndReads
    <3> QED
      BY <3>1, <3>2
  <2>4. /\ d.in \in Inputs /\ ~d.in.eval /\ d.in.stack = <<>> /\ d.in.text = <<>>
        /\ s.stack = <<>> /\ s.text = <<>>
    BY <2>1, <2>3 DEF OfFile
  <2>5. Laid(All(d.in))
    <3>1. d.in.eval = s.eval
      BY <1>2, <1>7, <2>4 DEF Inputs
    <3> QED
      BY <1>1, <1>2, <2>4, <3>1, LaidKept
  <2> QED
    BY <1>1, <1>3, <1>5, <2>2, <2>3, <2>4, <2>5
<1> QED
  BY <1>6, <1>7

\* The text to come when a character is put back, and when a space is left over from an
\* input that was interrupted.
LEMMA PutBackFlat ==
  ASSUME file \in Seq(Chars), NEW d, d.in \in Inputs, d.ch \in Chars, Laid(All(d.in)),
         NEW u, u = PutBack(d)
  PROVE  /\ u \in Inputs /\ Remaining(u) = <<d.ch>> \o Flat(d.in) /\ Flat(u) = Flat(d.in)
         /\ u.putback = d.ch /\ u.errs = d.in.errs /\ u.stack = d.in.stack
         /\ u.eval = d.in.eval /\ u.text = d.in.text /\ u.pos = d.in.pos
         /\ Laid(All(u)) /\ Rest(Current(u)) = Rest(Current(d.in))
<1> DEFINE e == d.in
<1>1. e \in Inputs /\ u = [e EXCEPT !.putback = d.ch]
  BY DEF PutBack
<1> HIDE DEF e
<1>2. /\ u \in Inputs /\ u.putback = d.ch /\ u.stack = e.stack /\ u.eval = e.eval /\ u.text = e.text
      /\ u.pos = e.pos /\ u.inp = e.inp /\ u.ipos = e.ipos /\ u.nread = e.nread /\ u.errs = e.errs
  BY <1>1 DEF Inputs
<1>3. Rest(Current(u)) = Rest(Current(e))
  BY <1>2 DEF Rest, Current, Context
<1>4. Rests[All(u)] = Rests[All(e)]
  BY <1>1, <1>2, <1>3, AllIs
<1>5. Flat(u) = Flat(e)
  BY <1>2, <1>4 DEF Flat, FileRest
<1>6. Remaining(u) = <<d.ch>> \o Flat(e)
  <2>1. d.ch # None
    BY SpacesAreChars
  <2> QED
    BY <1>2, <1>5, <2>1, FlatFacts DEF Pb
<1>7. Laid(All(u))
  BY <1>1, <1>2, LaidKept DEF e
<1> QED
  BY <1>2, <1>3, <1>5, <1>6, <1>7 DEF e

LEMMA SpaceLeft ==
  ASSUME file \in Seq(Chars), NEW i \in Inputs, i.putback \in Spaces \union {None},
         NEW l \in Lexer, i.putback # None => l.mode = "word" /\ l.cur = <<>>
  PROVE  Words(l, Remaining(i)) = Words(l, Flat(i))
<1>1. Remaining(i) = Pb(i) \o Flat(i) /\ Flat(i) \in Seq(Chars)
  BY FlatFacts
<1>2. CASE i.putback = None
  BY <1>1, <1>2, ConcatEmptySeq DEF Pb
<1>3. CASE i.putback # None
  <2>1. Pb(i) = <<i.putback>> /\ i.putback \in Spaces /\ i.putback \in Chars
    BY <1>3, SpacesAreChars DEF Pb
  <2>2. Words(l, <<i.putback>> \o Flat(i)) = Words(Lex(l, i.putback), Flat(i))
    BY <1>1, <2>1, WordsFacts
  <2>3. Lex(l, i.putback) = l
    BY <1>3, <2>1, SpaceIdle
  <2> QED
    BY <1>1, <2>1, <2>2, <2>3
<1> QED
  BY <1>2, <1>3

\* Both kinds of a read in one: of the character that was put back and of a fresh one.
LEMMA NextReads ==
  ASSUME ReadsReturn, file \in Seq(Chars), NEW i, Fine(i), Laid(All(i)), NEW l \in Lexer,
         ClosedAt(i, l), l.cur # <<>> => InWord(i), NEW d \in GetCh(i)
  PROVE  /\ d.in \in Inputs /\ Laid(All(d.in)) /\ d.in.errs = i.errs
         /\ d.in.putback = None \/ (i.putback = None /\ l.mode = "word" /\ l.cur = <<>>)
         /\ d.ch = EOF => /\ i.putback = None /\ Remaining(i) = <<>> /\ Flat(d.in) = <<>>
                          /\ d.in.stack = <<>> /\ ~d.in.eval
         /\ d.ch # EOF => /\ d.ch \in Chars /\ Remaining(i) = <<d.ch>> \o Flat(d.in)
                          /\ d.in.stack # <<>> => Closing(Current(d.in), Lex(l, d.ch))
                          /\ i.putback = None /\ d.in.eval =>
                               d.in.pos >= 1 /\ d.in.text[d.in.pos] = d.ch
                          /\ i.putback # None => /\ d.in.eval = i.eval /\ d.in.text = i.text
                                                 /\ d.in.pos = i.pos
<1>1. CASE i.putback # None
  <2>1. /\ d.ch \in Chars /\ d.in \in Inputs /\ Remaining(i) = <<d.ch>> \o Flat(d.in)
        /\ d.in.putback = None /\ d.in.errs = i.errs /\ Laid(All(d.in))
        /\ d.in.eval = i.eval /\ d.in.text = i.text /\ d.in.pos = i.pos
        /\ d.in.stack # <<>> => Closing(Current(d.in), Lex(l, d.ch))
    BY <1>1, PutBackReads
  <2> QED
    BY <1>1, <2>1, SpacesAreChars
<1>2. CASE i.putback = None
  <2>1. /\ d.in \in Inputs /\ Laid(All(d.in)) /\ d.in.errs = i.errs
        /\ d.in.putback = None \/ (l.mode = "word" /\ l.cur = <<>>)
        /\ d.ch = EOF => /\ Remaining(i) = <<>> /\ Flat(d.in) = <<>>
                         /\ d.in.stack = <<>> /\ ~d.in.eval
        /\ d.ch # EOF => /\ d.ch \in Chars /\ Remaining(i) = <<d.ch>> \o Flat(d.in)
                         /\ d.in.eval => d.in.pos >= 1 /\ d.in.text[d.in.pos] = d.ch
                         /\ d.in.stack # <<>> => Closing(Current(d.in), Lex(l, d.ch))
    BY <1>2, FreshReads
  <2> QED
    BY <1>2, <2>1
<1> QED
  BY <1>1, <1>2

\* A character that is taken moves the lexer one step on.
LEMMA TakenReads ==
  ASSUME file \in Seq(Chars), NEW r \in Seq(Chars), NEW e \in Inputs, NEW c \in Chars, NEW l \in Lexer,
         r = <<c>> \o Flat(e), e.putback \in Spaces \union {None},
         e.stack # <<>> => Closing(Current(e), Lex(l, c)),
         e.putback # None => Lex(l, c).mode = "word" /\ Lex(l, c).cur = <<>>
  PROVE  ClosedAt(e, Lex(l, c)) /\ Words(l, r) = Words(Lex(l, c), Remaining(e))
<1> DEFINE k == Lex(l, c)
<1>1. k \in Lexer
  BY LexIs
<1>2. Flat(e) \in Seq(Chars)
  BY FlatFacts
<1>3. Words(l, r) = Words(k, Flat(e))
  BY <1>2, WordsFacts
<1>4. /\ e.stack # <<>> => Closing(Current(e), k)
      /\ e.putback # None => k.mode = "word" /\ k.cur = <<>>
  OBVIOUS
<1> HIDE DEF k
<1>5. Words(k, Remaining(e)) = Words(k, Flat(e))
  BY <1>1, <1>4, SpaceLeft
<1>6. ClosedAt(e, k)
  <2>1. e.putback # None => Lex(k, e.putback) = k
    BY <1>1, <1>4, SpaceIdle
  <2> QED
    BY <1>4, <2>1 DEF ClosedAt
<1> QED
  BY <1>3, <1>5, <1>6 DEF k

\* A character that is put back leaves the lexer where it can be read again.
LEMMA ReturnedReads ==
  ASSUME NEW u \in Inputs, NEW c \in Chars, u.putback = c, NEW l \in Lexer, NEW k \in Lexer,
         NEW m, Lex(l, c) = m, Lex(k, c) = m, u.stack # <<>> => Closing(Current(u), m),
         NEW r \in Seq(Chars), NEW f \in Seq(Chars), r = <<c>> \o f
  PROVE  ClosedAt(u, k) /\ Words(l, r) = Words(k, r)
<1>1. Words(l, r) = Words(m, f) /\ Words(k, r) = Words(m, f)
  BY WordsFacts
<1>2. c # None
  BY SpacesAreChars
<1> QED
  BY <1>1, <1>2 DEF ClosedAt

\* The words of a text that closes its comments are not disturbed by what follows it.
LEMMA ClosedWords ==
  ASSUME NEW t \in Seq(Chars), ClosedText(t), NEW r \in Seq(Chars)
  PROVE  Words(Start, t \o (<<"sp">> \o r)) = WordsOf(t) \o WordsOf(r)
<1> DEFINE b == <<"sp">>  st == Scan[t][Start]  k == Lex(st, "sp")
<1>1. "sp" \in Chars /\ "sp" \in Spaces /\ b \in Seq(Chars)
  BY DEF Chars, Spaces
<1>2. Start \in Lexer /\ st \in Lexer
  BY StartFacts, ScanIs
<1>3. k \in Lexer /\ k = Scan[t \o b][Start]
  <2>1. Scan[t \o b][Start] = Scan[b][st]
    BY <1>1, <1>2, ScanCat
  <2>2. b = <<"sp">> \o <<>> /\ <<>> \in Seq(Chars)
    <3>1. b \o <<>> = b
      BY <1>1, ConcatEmptySeq
    <3> QED
      BY <3>1
  <2>3. Scan[b][st] = k
    <3>1. Scan[<<"sp">> \o <<>>][st] = Scan[<<>>][Lex(st, "sp")]
      BY <1>1, <1>2, <2>2, ScanIs
    <3>2. Lex(st, "sp") \in Lexer
      BY <1>1, <1>2, LexIs
    <3> QED
      BY <2>2, <3>1, <3>2, ScanIs
  <2> QED
    BY <1>1, <1>2, <2>1, <2>3, LexIs
<1>4. k.mode = "word"
  BY <1>3 DEF ClosedText, Start
<1>5. st.mode = "word" /\ k.cur = <<>>
  BY <1>2, <1>4, BlankMode
<1>6. k.words = Ended(st).words
  BY <1>1, <1>2, <1>5, LexIs, EndedFacts, CloseFacts
<1>7. WordsOf(t) = Ended(st).words /\ WordsOf(t) \in Seq(Seq(Chars))
  BY <1>2, WordsFacts DEF WordsOf, Words, Start
<1> HIDE DEF st, k
<1>8. k = With(WordsOf(t), Start)
  <2> DEFINE m == With(WordsOf(t), Start)
  <2>1. m \in Lexer /\ m.mode = "word" /\ m.cur = <<>> /\ m.words = WordsOf(t) \o <<>>
    BY <1>2, <1>7, StartFacts, WithFacts
  <2>2. m.words = WordsOf(t)
    BY <1>7, <2>1, ConcatEmptySeq
  <2> HIDE DEF m
  <2>3. k = m
    BY <1>3, <1>4, <1>5, <1>6, <1>7, <2>1, <2>2, LexerBy
  <2> QED
    BY <2>3 DEF m
<1>9. t \o (b \o r) = (t \o b) \o r /\ (t \o b) \in Seq(Chars) /\ (t \o b) \o r \in Seq(Chars)
  BY <1>1, ConcatAssociative
<1>10. Words(Start, (t \o b) \o r) = Words(k, r)
  <2>1. Scan[(t \o b) \o r][Start] = Scan[r][k]
    BY <1>2, <1>3, <1>9, ScanCat
  <2> QED
    BY <2>1 DEF Words
<1>11. Words(k, r) = WordsOf(t) \o Words(Start, r)
  BY <1>2, <1>7, <1>8, WordsWith
<1> QED
  BY <1>9, <1>10, <1>11 DEF WordsOf, Start

\* A transition is a blank.
LEMMA TransitionFacts ==
  /\ Transition \in Contexts /\ Transition.eval = TRUE /\ Transition.text = <<"sp">>
  /\ Rest(Transition) = <<"sp">>
<1> DEFINE b == <<"sp">>
<1>1. b \in Seq(Chars)
  BY DEF Chars, Spaces
<1>2. Rest(Transition) = SubSeq(b, 1, Len(b))
  BY DEF Rest, Transition, Context
<1>3. Rest(Transition) = b
  BY <1>1, <1>2, SubSeqFull
<1>4. /\ Transition \in Contexts /\ Transition.eval = TRUE /\ Transition.text = <<"sp">>
  BY <1>1 DEF Transition, Context, Contexts
<1> QED
  BY <1>3, <1>4

LEMMA TransitionCloses == Closing(Transition, Start)
<1> DEFINE b == <<"sp">>
<1>1. "sp" \in Chars /\ "sp" \in Spaces /\ b \in Seq(Chars)
  BY DEF Chars, Spaces
<1>2. Rest(Transition) = b
  BY TransitionFacts
<1>3. Start \in Lexer /\ Lex(Start, "sp") = Start /\ Start.mode = "word"
  BY <1>1, StartFacts, SpaceIdle
<1>4. b \o <<>> = b /\ <<>> \in Seq(Chars)
  BY <1>1
<1>5. Scan[b][Start] = Start
  <2>1. Scan[<<"sp">> \o <<>>][Start] = Scan[<<>>][Lex(Start, "sp")]
    BY <1>1, <1>3, <1>4, ScanIs
  <2> QED
    BY <1>3, <1>4, <2>1, ScanIs
<1>6. Scan[<<"sp">> \o b][Start] = Scan[b][Lex(Start, "sp")]
  BY <1>1, <1>3, ScanIs
<1> QED
  BY <1>2, <1>3, <1>5, <1>6 DEF Closing

\* An evaluation puts its text and a blank in front of what there is to read.
LEMMA PushReads ==
  ASSUME file \in Seq(Chars), NEW i, Fine(i), NEW t \in Seq(Chars), ClosedText(t),
         Laid(All(i)), i.putback \in Spaces \union {None}, NEW l \in Lexer, ClosedAt(i, l),
         l.mode = "word", l.cur = <<>>, NEW e, e = EvalPush(i, t), e \in Inputs
  PROVE  /\ Flat(e) = t \o (<<"sp">> \o Flat(i)) /\ Remaining(e) = Flat(e)
         /\ e.putback = None /\ e.errs = i.errs
         /\ Laid(All(e)) /\ Closing(Current(e), Start)
<1> DEFINE c == Current(i)  a == All(i)  b == All(e)  s == i.stack
<1>1. i \in Inputs /\ c \in Contexts /\ s \in Seq(Contexts) /\ a \in Seq(Contexts)
      /\ Rests[a] \in Seq(Chars)
  BY PosFacts, AllIs, RestsIs
<1>2. /\ e.eval = TRUE /\ e.text = t /\ e.pos = 0 /\ e.putback = None
      /\ e.stack = <<Transition, c>> \o s /\ e.inp = i.inp /\ e.ipos = i.ipos
      /\ e.nread = i.nread /\ e.errs = i.errs
  BY <1>1 DEF EvalPush, Resume, Context, Inputs
<1>3. Transition \in Contexts /\ Rest(Transition) = <<"sp">> /\ Transition.eval = TRUE
      /\ Transition.text = <<"sp">>
  BY TransitionFacts
<1>4. Current(e) \in Contexts /\ Rest(Current(e)) = t /\ Current(e).text = t /\ Current(e).eval = TRUE
  <2>1. Current(e).text = t /\ Current(e).pos = 0 /\ Current(e).eval = TRUE /\ Current(e) \in Contexts
    <3>1. Current(e) = Context(TRUE, t, 0, None)
      BY <1>2 DEF Current
    <3>2. None \in Chars \union {None} /\ 0 \in Nat
      OBVIOUS
    <3> QED
      BY <3>1, <3>2 DEF Context, Contexts
  <2>2. Rest(Current(e)) = SubSeq(t, 1, Len(t))
    BY <2>1 DEF Rest
  <2> QED
    BY <2>1, <2>2
<1>5. Closing(Current(e), Start)
  BY <1>4 DEF Closing, ClosedText, Start
<1>6. b = <<Current(e)>> \o (<<Transition>> \o a) /\ a = <<c>> \o s
  BY <1>1, <1>2, <1>3 DEF All
<1> HIDE DEF a, b, c, s
<1>7. Rests[b] = t \o (<<"sp">> \o Rests[a])
  <2> DEFINE x == Transition  y == Current(e)
  <2>1. x \in Contexts /\ y \in Contexts
    BY <1>3, <1>4
  <2> HIDE DEF x, y
  <2>2. <<x>> \o a \in Seq(Contexts)
    BY <1>1, <2>1
  <2>3. Rests[<<x>> \o a] = Rest(x) \o Rests[a]
    BY <1>1, <2>1, RestsIs
  <2>4. Rests[<<y>> \o (<<x>> \o a)] = Rest(y) \o Rests[<<x>> \o a]
    BY <2>1, <2>2, RestsIs
  <2> QED
    BY <1>3, <1>4, <1>6, <2>3, <2>4 DEF x, y
<1>8. Flat(e) = t \o (<<"sp">> \o Flat(i))
  <2>1. FileRest(e) = FileRest(i) /\ FileRest(i) \in Seq(Chars)
    BY <1>1, <1>2, FlatFacts DEF FileRest
  <2>2. Flat(e) = (t \o (<<"sp">> \o Rests[a])) \o FileRest(i) /\ Flat(i) = Rests[a] \o FileRest(i)
    BY <1>7, <2>1 DEF Flat, b, a
  <2> DEFINE p == <<"sp">>  q == Rests[a]  r == FileRest(i)
  <2>3. p \in Seq(Chars) /\ q \in Seq(Chars) /\ r \in Seq(Chars)
    BY <1>1, <2>1 DEF Chars, Spaces
  <2>4. Flat(e) = (t \o (p \o q)) \o r /\ Flat(i) = q \o r
    BY <2>2
  <2> HIDE DEF p, q, r
  <2>5. (t \o (p \o q)) \o r = t \o (p \o (q \o r))
    BY <2>3
  <2>6. Flat(e) = t \o (p \o Flat(i))
    BY <2>4, <2>5
  <2> QED
    BY <2>6 DEF p
<1>9. Remaining(e) = Flat(e)
  <2>1. Remaining(e) = Pb(e) \o Flat(e) /\ Flat(e) \in Seq(Chars)
    BY FlatFacts
  <2> QED
    BY <1>2, <2>1, ConcatEmptySeq DEF Pb
<1>10. /\ Len(b) = Len(a) + 2 /\ Len(a) >= 1 /\ Len(a) \in Nat /\ b[1] = Current(e) /\ b[2] = Transition
       /\ \A k \in 1 .. Len(a) : b[k + 2] = a[k]
  <2>1. Len(a) >= 1 /\ Len(a) \in Nat
    BY <1>1, <1>6
  <2> QED
    BY <1>1, <1>3, <1>4, <1>6, <2>1
<1>11. Laid(b)
  <2>1. ASSUME NEW k \in 1 .. Len(b) - 1 PROVE b[k].text = <<"sp">> \/ b[k + 1] = Transition
    <3>1. CASE k = 1
      BY <1>10, <3>1
    <3>2. CASE k = 2
      BY <1>3, <1>10, <3>2
    <3>3. CASE k >= 3
      <4>1. PICK m \in Nat : k = m + 2
        BY <3>3
      <4>2. m \in 1 .. Len(a) - 1 /\ m \in 1 .. Len(a) /\ m + 1 \in 1 .. Len(a) /\ k + 1 = (m + 1) + 2
        BY <1>10, <3>3, <4>1
      <4>3. a[m].text = <<"sp">> \/ a[m + 1] = Transition
        BY <4>2 DEF Laid, a
      <4>4. b[k] = a[m] /\ b[k + 1] = a[m + 1]
        BY <1>10, <4>1, <4>2
      <4> QED
        BY <4>3, <4>4
    <3> QED
      BY <3>1, <3>2, <3>3
  <2>2. ASSUME NEW k \in 1 .. Len(b), ~b[k].eval PROVE b[k].text = <<>>
    <3>1. k # 1 /\ k # 2
      BY <1>3, <1>4, <1>10, <2>2
    <3>2. PICK m \in Nat : k = m + 2
      BY <3>1
    <3>3. m \in 1 .. Len(a) /\ b[k] = a[m]
      BY <1>10, <3>1, <3>2
    <3> QED
      BY <2>2, <3>3 DEF Laid, a
  <2>3. ASSUME NEW k \in 2 .. Len(b) - 1 PROVE Closing(b[k], Start)
    <3>1. CASE k = 2
      <4> QED
        BY <1>10, <3>1, TransitionCloses
    <3>2. CASE k = 3
      <4>1. b[k] = c /\ s # <<>>
        <5>1. Len(a) >= 2 /\ b[1 + 2] = a[1]
          BY <1>10, <3>2
        <5>2. a[1] = c
          BY <1>1, <1>6
        <5>3. s # <<>>
          BY <1>1, <1>6, <5>1
        <5> QED
          BY <3>2, <5>1, <5>2, <5>3
      <4> DEFINE m == IF i.putback = None THEN l ELSE Lex(l, i.putback)
      <4>2. Closing(c, m)
        BY <4>1 DEF ClosedAt, c, s
      <4>3. m = l
        BY SpaceIdle
      <4> HIDE DEF m
      <4>4. Rest(c) \o <<"sp">> \in Seq(Chars)
        <5>1. Rest(c) \in Seq(Chars) /\ <<"sp">> \in Seq(Chars)
          BY <1>1, RestFacts DEF Chars, Spaces
        <5> QED
          BY <5>1
      <4>5. Closing(c, Start)
        BY <4>2, <4>3, <4>4, StartFacts, ModeOnly DEF Closing
      <4> QED
        BY <4>1, <4>5
    <3>3. CASE k >= 4
      <4>1. PICK m \in Nat : k = m + 2
        BY <3>3
      <4>2. m \in 2 .. Len(a) - 1 /\ m \in 1 .. Len(a)
        BY <1>10, <3>3, <4>1
      <4>3. Closing(a[m], Start)
        BY <4>2 DEF Laid, a
      <4> QED
        BY <1>10, <4>1, <4>2, <4>3
    <3> QED
      BY <3>1, <3>2, <3>3
  <2> QED
    BY <2>1, <2>2, <2>3 DEF Laid
<1> QED
  BY <1>2, <1>5, <1>8, <1>9, <1>11 DEF b

-----------------------------------------------------------------------------
(* The state of the lexer that goes with a state of the machine. *)
LexNow ==
  CASE phase = "collect" -> LexFrom("word", name)
    [] phase \in {"comment", "paren"} -> LexFrom(phase, <<>>)
    [] phase = "exec" -> Ended(LexFrom("word", name))
    [] phase = "eval" -> With(WordsOfAll[texts], Start)
    [] OTHER -> Start

\* The inputs lie on each other as the lexer reads them.
InputsLaid == phase # "halt" => Laid(All(in)) /\ ClosedAt(in, LexNow)

\* A word that is collected was read from the input that is read now; at the end of the
\* file there is none.
CollectsHere ==
  phase = "collect" =>
    /\ InWord(in)
    /\ name = <<>> /\ in.putback \in Spaces \union {None} => Flat(in) = <<>>

RunsAWord == phase = "exec" => name # <<>>
TextsLeftClosed == \A k \in 1 .. Len(texts) : ClosedText(texts[k])

WInv == in.errs = 0 /\ InputsLaid /\ CollectsHere /\ RunsAWord /\ TextsLeftClosed

\* The words to come are those the lexer finds.
LEMMA TodoIs ==
  ASSUME IInv, RunsAWord, phase # "halt"
  PROVE  LexNow \in Lexer /\ Todo = Words(LexNow, Remaining(in))
<1> DEFINE r == Remaining(in)
<1>1. Typed /\ in \in Inputs /\ file \in Seq(Chars)
  BY TypedAtFirst, PosFacts DEF IInv, Typed
<1>2. r \in Seq(Chars)
  <2>1. Pb(in) \in Seq(Chars) /\ Flat(in) \in Seq(Chars) /\ r = Pb(in) \o Flat(in)
    BY <1>1, FlatFacts
  <2> QED
    BY <2>1
<1> HIDE DEF r
<1>3. name \in Seq(Chars) /\ texts \in Seq(Seq(Chars)) /\ <<>> \in Seq(Chars)
      /\ phase \in {"skip", "collect", "exec", "eval", "comment", "paren", "halt"}
  BY <1>1 DEF Typed
<1>4. /\ LexFrom("word", name) \in Lexer /\ LexFrom("word", name).cur = name
      /\ LexFrom("word", name).mode = "word" /\ LexFrom("word", name).words = <<>>
  BY <1>3, LexFromFacts
<1>5. Start \in Lexer /\ Start.mode = "word" /\ Start.cur = <<>> /\ Start.words = <<>>
      /\ WordsOf(r) = Words(Start, r)
  BY StartFacts DEF WordsOf, Start
<1>6. CASE phase = "skip"
  BY <1>5, <1>6 DEF LexNow, Todo, r
<1>7. CASE phase = "collect"
  BY <1>4, <1>7 DEF LexNow, Todo, r
<1>8. CASE phase \in {"comment", "paren"}
  <2>1. LexNow = LexFrom(phase, <<>>)
    BY <1>8 DEF LexNow
  <2>2. LexNow \in Lexer
    BY <1>3, <1>8, <2>1, LexFromFacts
  <2>3. Todo = Words(LexFrom(phase, <<>>), r)
    BY <1>8 DEF Todo, r
  <2> QED
    BY <2>1, <2>2, <2>3 DEF r
<1>9. CASE phase = "eval"
  <2>1. LexNow = With(WordsOfAll[texts], Start) /\ WordsOfAll[texts] \in Seq(Seq(Chars))
    BY <1>3, <1>9, WordsOfAllIs DEF LexNow
  <2>2. LexNow \in Lexer
    BY <1>5, <2>1, WithFacts
  <2>3. Todo = WordsOfAll[texts] \o Words(Start, r)
    BY <1>5, <1>9 DEF Todo, r
  <2>4. Words(LexNow, r) = WordsOfAll[texts] \o Words(Start, r)
    BY <1>2, <1>5, <2>1, WordsWith
  <2> QED
    BY <2>2, <2>3, <2>4 DEF r
<1>10. CASE phase = "exec"
  <2> DEFINE st == LexFrom("word", name)
  <2>1. LexNow = Ended(st) /\ LexNow \in Lexer /\ name # <<>>
    BY <1>4, <1>10, EndedFacts DEF LexNow, RunsAWord
  <2>5. LineComment # Paren /\ LineComment \in CommentWords /\ Paren \in CommentWords
    <3>1. LineComment[1] # Paren[1]
      BY DEF LineComment, Paren
    <3> QED
      BY <3>1 DEF CommentWords
  <2>2. CASE name = LineComment
    <3>1. LexNow = LexFrom("comment", <<>>)
      BY <1>4, <2>1, <2>2, EndedFacts DEF LexFrom
    <3>2. Todo = Words(LexFrom("comment", <<>>), r)
      BY <1>10, <2>2, <2>5 DEF Todo, r
    <3> QED
      BY <2>1, <3>1, <3>2 DEF r
  <2>3. CASE name = Paren
    <3>1. LexNow = LexFrom("paren", <<>>)
      BY <1>4, <2>1, <2>3, EndedFacts DEF LexFrom
    <3>2. Todo = Words(LexFrom("paren", <<>>), r)
      BY <1>10, <2>3, <2>5 DEF Todo, r
    <3> QED
      BY <2>1, <3>1, <3>2 DEF r
  <2>4. CASE name \notin CommentWords
    <3>1. LexNow = With(<<name>>, Start)
      <4>1. LexNow = [mode |-> "word", cur |-> <<>>, words |-> Append(<<>>, name)]
        BY <1>4, <2>1, <2>4, EndedFacts
      <4> DEFINE m == With(<<name>>, Start)
      <4>2. <<name>> \in Seq(Seq(Chars)) /\ <<name>> \o <<>> = <<name>> /\ Append(<<>>, name) = <<name>>
        BY <1>3
      <4>3. m \in Lexer /\ m.mode = "word" /\ m.cur = <<>> /\ m.words = <<name>>
        BY <1>5, <4>2, WithFacts
      <4> HIDE DEF m
      <4>4. LexNow = m
        BY <2>1, <4>1, <4>2, <4>3, LexerBy
      <4> QED
        BY <4>4 DEF m
    <3>2. Todo = <<name>> \o Words(Start, r)
      BY <1>5, <1>10, <2>4 DEF Todo, r, CommentWords
    <3>3. Words(LexNow, r) = <<name>> \o Words(Start, r)
      <4>1. <<name>> \in Seq(Seq(Chars))
        BY <1>3
      <4> QED
        BY <1>2, <1>5, <3>1, <4>1, WordsWith
    <3> QED
      BY <2>1, <3>2, <3>3 DEF r
  <2> QED
    BY <2>2, <2>3, <2>4 DEF CommentWords
<1> QED
  BY <1>3, <1>6, <1>7, <1>8, <1>9, <1>10

Running == phase # "halt"
TodoLexed == LexNow \in Lexer /\ Todo = Words(LexNow, Remaining(in))

LEMMA TodoLexedNext == IInv' /\ RunsAWord' /\ Running' => TodoLexed'
<1>1. IInv /\ RunsAWord /\ Running => TodoLexed
  BY TodoIs DEF Running, TodoLexed
<1> QED
  BY <1>1, PTL

\* The same in the state behind a step that leaves the input e.
LEMMA TodoNext ==
  ASSUME file' = file, NEW e, in' = e, IInv', RunsAWord', phase' # "halt"
  PROVE  LexNow' \in Lexer /\ Todo' = Words(LexNow', Remaining(e))
<1>1. LexNow' \in Lexer /\ Todo' = Words(LexNow, Remaining(in))'
  BY TodoLexedNext DEF Running, TodoLexed
<1>2. Remaining(in)' = Remaining(e)
  BY DEF Remaining
<1>3. Words(LexNow, Remaining(in))' = Words(LexNow', Remaining(in)')
  BY DEF Words
<1> QED
  BY <1>1, <1>2, <1>3

LEMMA FlatNext ==
  ASSUME file' = file, NEW e, in' = e
  PROVE  Flat(in)' = Flat(e)
BY DEF Flat, FileRest

-----------------------------------------------------------------------------
(* The steps of the stream of words. *)
LEMMA StatusIs ==
  /\ reason = "no" => Status = "running"
  /\ reason \in {"term", "unexpeof"} /\ in.errs = 0 => Status = "end"
  /\ reason = "evalstkovf" => Status = "fail"
BY DEF Status

LEMMA StatusIsNext ==
  /\ reason' = "no" => Status' = "running"
  /\ reason' \in {"term", "unexpeof"} /\ in'.errs = 0 => Status' = "end"
  /\ reason' = "evalstkovf" => Status' = "fail"
BY DEF Status

LEMMA ExpandStays == macro' = macro => Expand' = Expand
BY DEF Expand

\* A state behind a step that leaves the input e is sound.
LEMMA SoundNext ==
  ASSUME NEW e, in' = e, e.errs = 0, RunsAWord', TextsLeftClosed', CollectsHere',
         phase' # "halt" => Laid(All(e)) /\ ClosedAt(e, LexNow')
  PROVE  WInv'
<1>1. InputsLaid'
  BY DEF InputsLaid, ClosedAt
<1> QED
  BY <1>1 DEF WInv

\* A step that reads and runs no word.
LEMMA ReadsOnly ==
  ASSUME IInv, WInv, IInv', phase # "halt", phase' # "halt", file' = file, macro' = macro,
         NEW e, in' = e, e.errs = in.errs, Laid(All(e)), NEW k, LexNow' = k, ClosedAt(e, k),
         Words(LexNow, Remaining(in)) = Words(k, Remaining(e)),
         CollectsHere', RunsAWord', TextsLeftClosed'
  PROVE  WInv' /\ [Stream!Next]_(Stream!vars)
<1>1. WInv'
  BY SoundNext DEF WInv
<1>2. Todo' = Todo
  BY TodoIs, TodoNext DEF WInv
<1>3. Status' = Status
  <2>1. reason = "no" /\ reason' = "no"
    BY Zenon DEF IInv, TypeOK
  <2> QED
    BY <2>1, StatusIs, StatusIsNext
<1>4. Expand' = Expand
  BY ExpandStays
<1> QED
  BY <1>1, <1>2, <1>3, <1>4 DEF Stream!vars

\* A step that ends the machine: no word is left.
LEMMA EndsRight ==
  ASSUME IInv, WInv, phase # "halt", phase' = "halt", reason' \in {"term", "unexpeof"},
         macro' = macro, texts' = texts, NEW e, in' = e, e.errs = in.errs,
         Words(LexNow, Remaining(in)) = <<>>
  PROVE  WInv' /\ [Stream!Next]_(Stream!vars)
<1>1. WInv'
  <2>1. CollectsHere' /\ RunsAWord' /\ TextsLeftClosed'
    BY DEF WInv, CollectsHere, RunsAWord, TextsLeftClosed
  <2> QED
    BY <2>1, SoundNext DEF WInv
<1>2. Todo = <<>> /\ Todo' = <<>>
  BY TodoIs DEF WInv, Todo
<1>3. Status = "running" /\ Status' = "end"
  <2>1. reason = "no"
    BY Zenon DEF IInv, TypeOK
  <2> QED
    BY <2>1, StatusIs, StatusIsNext DEF WInv
<1>4. Expand' = Expand
  BY ExpandStays
<1>5. Stream!End
  BY <1>2, <1>3, <1>4 DEF Stream!End
<1> QED
  BY <1>1, <1>5 DEF Stream!Next

\* What a sound state says to the lemmas about reading.
LEMMA ReadsFrom ==
  ASSUME IInv, WInv, phase # "halt"
  PROVE  /\ file \in Seq(Chars) /\ Fine(in) /\ in \in Inputs /\ Laid(All(in))
         /\ LexNow \in Lexer /\ ClosedAt(in, LexNow) /\ Remaining(in) \in Seq(Chars)
         /\ Todo = Words(LexNow, Remaining(in))
<1>1. file \in Seq(Chars) /\ Fine(in) /\ in \in Inputs
  BY TypedAtFirst, PosFacts DEF IInv, Typed
<1>2. Remaining(in) \in Seq(Chars)
  <2>1. Pb(in) \in Seq(Chars) /\ Flat(in) \in Seq(Chars) /\ Remaining(in) = Pb(in) \o Flat(in)
    BY <1>1, FlatFacts
  <2> QED
    BY <2>1
<1> QED
  BY <1>1, <1>2, TodoIs DEF WInv, InputsLaid

-----------------------------------------------------------------------------
(* SKIPSPC. *)
LEMMA SkipSpcStreams ==
  ASSUME ReadsReturn, IInv, WInv, IInv', SkipSpc
  PROVE  WInv' /\ [Stream!Next]_(Stream!vars)
<1>1. Typed /\ NameFits /\ phase = "skip" /\ name = <<>> /\ in.errs = 0
      /\ in.putback \in Spaces \union {None}
  BY TypedAtFirst DEF IInv, SkipSpc, NameFits, PutBackIsSpace, WInv
<1>2. PICK d \in GetCh(in) :
        \/ /\ d.ch = EOF
           /\ in' = d.in /\ phase' = "collect" /\ UNCHANGED prompts
        \/ /\ d.ch \notin Spaces \union {EOF}
           /\ in' = PutBack(d) /\ phase' = "collect" /\ UNCHANGED prompts
        \/ /\ d.ch \in Spaces
           /\ in' = d.in /\ UNCHANGED phase
           /\ prompts' = IF d.ch = "nl" THEN prompts + 1 ELSE prompts
  BY DEF SkipSpc
<1>3. file' = file /\ macro' = macro /\ name' = name /\ texts' = texts /\ reason' = reason
  BY DEF SkipSpc
<1>4. /\ file \in Seq(Chars) /\ Fine(in) /\ in \in Inputs /\ Laid(All(in))
      /\ LexNow = Start /\ ClosedAt(in, Start) /\ Remaining(in) \in Seq(Chars)
  BY <1>1, ReadsFrom DEF LexNow
<1>5. Start \in Lexer /\ Start.mode = "word" /\ Start.cur = <<>>
  BY StartFacts
<1>6. /\ d.in \in Inputs /\ Laid(All(d.in)) /\ d.in.errs = in.errs
      /\ d.ch = EOF => /\ Remaining(in) = <<>> /\ Flat(d.in) = <<>>
                       /\ d.in.stack = <<>> /\ ~d.in.eval
      /\ d.ch # EOF => /\ d.ch \in Chars /\ Remaining(in) = <<d.ch>> \o Flat(d.in)
                       /\ d.in.stack # <<>> => Closing(Current(d.in), Lex(Start, d.ch))
                       /\ in.putback = None /\ d.in.eval =>
                            d.in.pos >= 1 /\ d.in.text[d.in.pos] = d.ch
  BY <1>4, <1>5, NextReads
<1>7. d.in.putback \in Spaces \union {None} /\ (in.putback # None => d.ch = in.putback)
  BY ReadFacts DEF GetCh
<1>8. TextsLeftClosed' /\ phase' # "halt" /\ RunsAWord'
  BY <1>1, <1>2, <1>3 DEF WInv, TextsLeftClosed, RunsAWord
<1>9. CASE d.ch = EOF
  <2>1. in' = d.in /\ phase' = "collect"
    BY <1>2, <1>9 DEF EOF, Spaces
  <2>2. LexNow' = Start
    BY <1>1, <1>3, <2>1 DEF LexNow, Start
  <2>3. ClosedAt(d.in, Start)
    BY <1>6, <1>9 DEF ClosedAt
  <2>4. Words(Start, Remaining(in)) = Words(Start, Remaining(d.in))
    BY <1>4, <1>5, <1>6, <1>7, <1>9, SpaceLeft
  <2>5. Flat(in)' = <<>> /\ InWord(in)'
    BY <1>3, <1>6, <1>9, <2>1, FlatNext DEF InWord
  <2>6. CollectsHere'
    BY <2>5 DEF CollectsHere
  <2> QED
    BY <1>1, <1>3, <1>4, <1>6, <1>8, <2>1, <2>2, <2>3, <2>4, <2>6, ReadsOnly
<1>10. CASE d.ch \notin Spaces \union {EOF}
  <2> DEFINE u == PutBack(d)
  <2>1. in' = u /\ phase' = "collect" /\ in.putback = None
    BY <1>1, <1>2, <1>7, <1>10
  <2>2. /\ u.eval = d.in.eval /\ u.text = d.in.text /\ u.pos = d.in.pos /\ u.errs = d.in.errs
        /\ u.putback = d.ch
    BY <1>4, <1>6, <1>10, PutBackFlat
  <2>3. LexNow' = Start
    BY <1>1, <1>3, <2>1 DEF LexNow, Start
  <2>4. Laid(All(u)) /\ ClosedAt(u, Start) /\ Words(Start, Remaining(in)) = Words(Start, Remaining(u))
    <3> DEFINE r == Remaining(in)  m == Lex(Start, d.ch)  f == Flat(d.in)
    <3>1. /\ d.ch \in Chars /\ r = <<d.ch>> \o f /\ r \in Seq(Chars) /\ f \in Seq(Chars)
          /\ Lex(Start, d.ch) = m
          /\ d.in.stack # <<>> => Closing(Current(d.in), m)
      BY <1>4, <1>6, <1>10, FlatFacts
    <3>2. /\ u \in Inputs /\ u.putback = d.ch /\ u.stack = d.in.stack /\ Laid(All(u))
          /\ Remaining(u) = r /\ Rest(Current(u)) = Rest(Current(d.in))
      BY <1>4, <1>6, <1>10, PutBackFlat
    <3> HIDE DEF r, m, u, f
    <3>3. u.stack # <<>> => Closing(Current(u), m)
      BY <3>1, <3>2 DEF Closing
    <3>4. ClosedAt(u, Start) /\ Words(Start, r) = Words(Start, r)
      BY <1>5, <3>1, <3>2, <3>3, ReturnedReads
    <3> QED
      BY <3>2, <3>4 DEF r
  <2>5. d.ch # None
    BY <1>6, <1>10, SpacesAreChars
  <2> HIDE DEF u
  <2>6. CollectsHere'
    <3>1. InWord(in)'
      BY <1>6, <1>10, <2>1, <2>2 DEF InWord
    <3>2. in'.putback \notin Spaces \union {None}
      BY <1>10, <2>1, <2>2, <2>5
    <3> QED
      BY <3>1, <3>2 DEF CollectsHere
  <2> QED
    BY <1>1, <1>3, <1>4, <1>6, <1>8, <2>1, <2>2, <2>3, <2>4, <2>6, ReadsOnly
<1>11. CASE d.ch \in Spaces
  <2>1. in' = d.in /\ phase' = "skip" /\ d.ch # EOF
    BY <1>1, <1>2, <1>11 DEF EOF, Spaces
  <2>2. LexNow' = Start
    BY <2>1 DEF LexNow
  <2>3. Lex(Start, d.ch) = Start
    BY <1>5, <1>11, SpaceIdle
  <2>4. ClosedAt(d.in, Lex(Start, d.ch))
        /\ Words(Start, Remaining(in)) = Words(Lex(Start, d.ch), Remaining(d.in))
    BY <1>4, <1>5, <1>6, <1>7, <2>1, <2>3, TakenReads
  <2>5. CollectsHere'
    BY <2>1 DEF CollectsHere
  <2> QED
    BY <1>1, <1>3, <1>4, <1>6, <1>8, <2>1, <2>2, <2>3, <2>4, <2>5, ReadsOnly
<1> QED
  BY <1>9, <1>10, <1>11

\* ?WORD: a space ends the word and is read again by SKIPSPC, a character that fills NAME
\* ends it too.
LEMMA CollectStreams ==
  ASSUME ReadsReturn, IInv, WInv, IInv', Collect
  PROVE  WInv' /\ [Stream!Next]_(Stream!vars)
<1> DEFINE l == LexFrom("word", name)
<1>1. Typed /\ phase = "collect" /\ Len(name) < NameMax /\ name \in Seq(Chars)
      /\ Len(name) \in Nat /\ in.errs = 0 /\ InWord(in)
      /\ (name = <<>> /\ in.putback \in Spaces \union {None} => Flat(in) = <<>>)
  BY TypedAtFirst DEF IInv, Collect, NameFits, Typed, WInv, CollectsHere
<1>2. PICK d \in GetCh(in) :
       \/ d.ch = EOF /\ in' = d.in /\ UNCHANGED name /\ Finish("term")
       \/ d.ch \in Spaces /\ in' = PutBack(d) /\ UNCHANGED name /\ Finish("term")
       \/ /\ d.ch \notin Spaces \union {EOF}
          /\ in' = d.in
          /\ name' = Append(name, d.ch)
          /\ phase' = IF Len(name') < NameMax THEN "collect" ELSE "exec"
          /\ UNCHANGED reason
  BY DEF Collect
<1>3. file' = file /\ macro' = macro /\ texts' = texts /\ prompts' = prompts /\ reason = "no"
  BY <1>1 DEF Collect, Typed
<1>4. /\ file \in Seq(Chars) /\ Fine(in) /\ in \in Inputs /\ Laid(All(in))
      /\ LexNow = l /\ ClosedAt(in, l) /\ Remaining(in) \in Seq(Chars)
  BY <1>1, ReadsFrom DEF LexNow
<1>5. l \in Lexer /\ l.mode = "word" /\ l.cur = name /\ l.words = <<>>
  BY <1>1, LexFromFacts
<1>6. /\ d.in \in Inputs /\ Laid(All(d.in)) /\ d.in.errs = in.errs
      /\ d.in.putback = None \/ (in.putback = None /\ l.mode = "word" /\ l.cur = <<>>)
      /\ d.ch = EOF => /\ in.putback = None /\ Remaining(in) = <<>> /\ Flat(d.in) = <<>>
                       /\ d.in.stack = <<>> /\ ~d.in.eval
      /\ d.ch # EOF => /\ d.ch \in Chars /\ Remaining(in) = <<d.ch>> \o Flat(d.in)
                       /\ d.in.stack # <<>> => Closing(Current(d.in), Lex(l, d.ch))
                       /\ in.putback = None /\ d.in.eval =>
                            d.in.pos >= 1 /\ d.in.text[d.in.pos] = d.ch
                       /\ in.putback # None => /\ d.in.eval = in.eval /\ d.in.text = in.text
                                               /\ d.in.pos = in.pos
  BY <1>1, <1>4, <1>5, NextReads
<1>7. d.in.putback \in Spaces \union {None} /\ (in.putback # None => d.ch = in.putback)
  BY ReadFacts DEF GetCh
<1>8. TextsLeftClosed'
  BY <1>3 DEF WInv, TextsLeftClosed
<1>9. Words(l, <<>>) = Ended(l).words /\ Ended(l) \in Lexer /\ Ended(l).cur = <<>>
      /\ Ended(Ended(l)) = Ended(l) /\ Words(Ended(l), <<>>) = Ended(l).words
  BY <1>5, WordsFacts, EndedFacts
<1>10. name = <<>> => l = Start /\ Words(l, <<>>) = <<>>
  BY <1>5, <1>9, EndedFacts DEF Start
<1>11. /\ name = <<>> /\ Finish("term") => phase' = "halt" /\ reason' = "term"
       /\ name # <<>> /\ Finish("term") => phase' = "exec"
  BY DEF Finish, Halt
<1>12. name' = name /\ phase' = "exec" => LexNow' = Ended(l)
  BY DEF LexNow
<1> HIDE DEF l
<1>13. CASE name = <<>> /\ d.ch \in Spaces \union {EOF}
  <2>1. phase' = "halt" /\ reason' = "term"
    BY <1>2, <1>11, <1>13
  <2>2. in.putback \in Spaces \union {None}
    BY <1>6, <1>7, <1>13
  <2>3. Words(l, Remaining(in)) = <<>>
    BY <1>1, <1>4, <1>5, <1>10, <1>13, <2>2, SpaceLeft
  <2>4. PICK e : in' = e /\ e.errs = in.errs
    <3>1. CASE d.ch = EOF
      <4>1. in' = d.in
        BY <1>2, <3>1 DEF EOF, Spaces
      <4> QED
        BY <1>6, <4>1
    <3>2. CASE d.ch \in Spaces
      <4>1. in' = PutBack(d) /\ d.ch # EOF
        BY <1>2, <3>2 DEF EOF, Spaces
      <4>2. PutBack(d).errs = d.in.errs
        BY <1>4, <1>6, <4>1, PutBackFlat
      <4> QED
        BY <1>6, <4>1, <4>2
    <3> QED
      BY <1>13, <3>1, <3>2
  <2> QED
    BY <1>1, <1>3, <1>4, <2>1, <2>3, <2>4, EndsRight
<1>14. CASE name # <<>> /\ d.ch = EOF
  <2>1. in' = d.in /\ name' = name /\ phase' = "exec"
    BY <1>2, <1>11, <1>14 DEF EOF, Spaces
  <2>2. LexNow' = Ended(l)
    BY <1>12, <2>1
  <2>3. ClosedAt(d.in, Ended(l))
    BY <1>6, <1>14 DEF ClosedAt
  <2>4. Remaining(d.in) = <<>>
    <3>1. Remaining(d.in) = Pb(d.in) \o Flat(d.in) /\ d.in.putback = None
      BY <1>4, <1>5, <1>6, <1>14, FlatFacts
    <3> QED
      BY <1>6, <1>14, <3>1, ConcatEmptySeq DEF Pb
  <2>5. Words(l, Remaining(in)) = Words(Ended(l), Remaining(d.in))
    BY <1>6, <1>9, <1>14, <2>4
  <2>6. CollectsHere' /\ RunsAWord'
    BY <1>14, <2>1 DEF CollectsHere, RunsAWord
  <2> QED
    BY <1>1, <1>3, <1>4, <1>6, <1>8, <2>1, <2>2, <2>3, <2>5, <2>6, ReadsOnly
<1>15. CASE name # <<>> /\ d.ch \in Spaces
  <2> DEFINE u == PutBack(d)
  <2>1. in' = u /\ name' = name /\ phase' = "exec" /\ d.ch # EOF
    BY <1>2, <1>11, <1>15 DEF EOF, Spaces
  <2>2. u.errs = d.in.errs
    BY <1>4, <1>6, <2>1, PutBackFlat
  <2>3. LexNow' = Ended(l)
    BY <1>12, <2>1
  <2>4. Lex(Ended(l), d.ch) = Lex(l, d.ch)
    BY <1>5, <1>15, SpaceEnds
  <2>5. Laid(All(u)) /\ ClosedAt(u, Ended(l))
        /\ Words(l, Remaining(in)) = Words(Ended(l), Remaining(u))
    <3> DEFINE k == Ended(l)  r == Remaining(in)  m == Lex(l, d.ch)  f == Flat(d.in)
    <3>1. /\ d.ch \in Chars /\ r = <<d.ch>> \o f /\ r \in Seq(Chars) /\ f \in Seq(Chars)
          /\ k \in Lexer /\ Lex(l, d.ch) = m /\ Lex(k, d.ch) = m
          /\ d.in.stack # <<>> => Closing(Current(d.in), m)
      BY <1>4, <1>6, <1>9, <2>1, <2>4, FlatFacts
    <3>2. /\ u \in Inputs /\ u.putback = d.ch /\ u.stack = d.in.stack /\ Laid(All(u))
          /\ Remaining(u) = r /\ Rest(Current(u)) = Rest(Current(d.in))
      BY <1>4, <1>6, <2>1, PutBackFlat
    <3> HIDE DEF k, r, m, u, f
    <3>3. u.stack # <<>> => Closing(Current(u), m)
      BY <3>1, <3>2 DEF Closing
    <3>4. ClosedAt(u, k) /\ Words(l, r) = Words(k, r)
      BY <1>5, <3>1, <3>2, <3>3, ReturnedReads
    <3> QED
      BY <3>2, <3>4 DEF k, r
  <2> HIDE DEF u
  <2>6. CollectsHere' /\ RunsAWord'
    BY <1>15, <2>1 DEF CollectsHere, RunsAWord
  <2> QED
    BY <1>1, <1>3, <1>4, <1>6, <1>8, <2>1, <2>2, <2>3, <2>5, <2>6, ReadsOnly
<1>16. CASE d.ch \notin Spaces \union {EOF}
  <2> DEFINE k == Lex(l, d.ch)
  <2>1. /\ in' = d.in /\ name' = Append(name, d.ch) /\ d.ch \in Chars /\ d.ch # EOF
        /\ phase' = IF Len(name') < NameMax THEN "collect" ELSE "exec"
    BY <1>2, <1>6, <1>16
  <2>2. name' # <<>> /\ Len(name') = Len(name) + 1 /\ name' \in Seq(Chars)
    BY <1>1, <2>1
  <2>3. d.in.putback = None
    <3>1. CASE d.in.putback # None
      <4>1. in.putback = None /\ name = <<>>
        BY <1>5, <1>6, <3>1
      <4>2. Flat(in) = <<>> /\ Remaining(in) = Pb(in) \o Flat(in)
        BY <1>1, <1>4, <4>1, FlatFacts
      <4>3. Remaining(in) = <<>>
        BY <4>1, <4>2, ConcatEmptySeq DEF Pb
      <4>4. Flat(d.in) \in Seq(Chars) /\ Remaining(in) = <<d.ch>> \o Flat(d.in)
        BY <1>4, <1>6, <2>1, FlatFacts
      <4> QED
        BY <2>1, <4>3, <4>4
    <3> QED
      BY <3>1
  <2>4. ClosedAt(d.in, k) /\ Words(l, Remaining(in)) = Words(k, Remaining(d.in))
    BY <1>4, <1>5, <1>6, <2>1, <2>3, TakenReads
  <2>5. Longer(l, d.ch) = LexFrom("word", name')
    <3> DEFINE m == LexFrom("word", name')
    <3>1. m \in Lexer /\ m.mode = "word" /\ m.cur = name' /\ m.words = <<>>
      BY <2>2, LexFromFacts
    <3>2. Longer(l, d.ch) \in Lexer /\ Longer(l, d.ch).cur = name'
          /\ Longer(l, d.ch).mode = "word" /\ Longer(l, d.ch).words = <<>>
      BY <1>5, <2>1, LongerFacts
    <3> HIDE DEF m
    <3>3. Longer(l, d.ch) = m
      BY <3>1, <3>2, LexerBy
    <3> QED
      BY <3>3 DEF m
  <2>6. LexNow' = k /\ phase' # "halt"
    <3>1. CASE Len(name') < NameMax
      <4>1. k = Longer(l, d.ch)
        BY <1>5, <1>16, <2>1, <2>2, <3>1, LexIs
      <4>2. phase' = "collect"
        BY <2>1, <3>1
      <4> QED
        BY <2>5, <4>1, <4>2 DEF LexNow
    <3>2. CASE ~(Len(name') < NameMax)
      <4>1. k = Ended(Longer(l, d.ch))
        BY <1>5, <1>16, <2>1, <2>2, <3>2, LexIs
      <4>2. phase' = "exec"
        BY <2>1, <3>2
      <4> QED
        BY <2>5, <4>1, <4>2 DEF LexNow
    <3> QED
      BY <3>1, <3>2
  <2>7. CollectsHere' /\ RunsAWord'
    <3>1. InWord(d.in)
      <4>1. CASE in.putback = None
        BY <1>6, <1>16, <2>1, <4>1 DEF InWord
      <4>2. CASE in.putback # None
        BY <1>1, <1>6, <2>1, <4>2 DEF InWord
      <4> QED
        BY <4>1, <4>2
    <3> QED
      BY <2>1, <2>2, <3>1 DEF CollectsHere, RunsAWord, InWord
  <2> HIDE DEF k
  <2> QED
    BY <1>1, <1>3, <1>4, <1>6, <1>8, <2>1, <2>4, <2>6, <2>7, ReadsOnly
<1> QED
  BY <1>13, <1>14, <1>15, <1>16

\* The mode of the lexer alone decides whether a text closes its comments.
LEMMA ClosedAtMode ==
  ASSUME NEW i \in Inputs, NEW l \in Lexer, NEW k \in Lexer, l.mode = k.mode, l.cur = <<>>,
         k.cur = <<>>, i.putback \in Spaces \union {None}, ClosedAt(i, l)
  PROVE  ClosedAt(i, k)
<1>1. CASE i.stack # <<>>
  <2> DEFINE c == Current(i)  p == IF i.putback = None THEN l ELSE Lex(l, i.putback)
             q == IF i.putback = None THEN k ELSE Lex(k, i.putback)  t == Rest(c) \o <<"sp">>
  <2>1. t \in Seq(Chars)
    <3>1. Rest(c) \in Seq(Chars) /\ <<"sp">> \in Seq(Chars)
      BY AllIs DEF Chars, Spaces
    <3> QED
      BY <3>1
  <2>2. p \in Lexer /\ q \in Lexer /\ p.mode = q.mode /\ p.cur = q.cur
    <3>1. CASE i.putback = None
      BY <3>1
    <3>2. CASE i.putback # None /\ l.mode = "word"
      BY <3>2, SpaceIdle
    <3>3. CASE i.putback # None /\ l.mode # "word"
      <4>1. i.putback \in Chars
        BY <3>3, SpacesAreChars
      <4>2. Lex(l, i.putback) = Close(l, i.putback) /\ Lex(k, i.putback) = Close(k, i.putback)
        BY <3>3, <4>1, LexIs
      <4>3. Closes(l, i.putback) = Closes(k, i.putback)
        BY DEF Closes
      <4> QED
        BY <3>3, <4>2, <4>3, CloseFacts
    <3> QED
      BY <3>1, <3>2, <3>3
  <2>3. Scan[t][p].mode = "word"
    BY <1>1 DEF ClosedAt, Closing
  <2> HIDE DEF p, q, t
  <2>4. Scan[t][q].mode = "word"
    BY <2>1, <2>2, <2>3, ModeOnly
  <2> QED
    BY <2>4 DEF ClosedAt, Closing, q, t
<1>2. CASE i.stack = <<>>
  BY <1>2 DEF ClosedAt
<1> QED
  BY <1>1, <1>2

LEMMA WithNothing ==
  ASSUME NEW st \in Lexer, NEW w, w = <<>>
  PROVE  With(w, st) = st
<1>1. w \in Seq(Seq(Chars)) /\ st.words \in Seq(Seq(Chars))
  BY DEF Lexer
<1>2. w \o st.words = st.words
  BY <1>1, ConcatEmptySeq
<1> DEFINE m == With(w, st)
<1>3. m \in Lexer /\ m.mode = st.mode /\ m.cur = st.cur /\ m.words = st.words
  BY <1>1, <1>2, WithFacts
<1> HIDE DEF m
<1>4. m = st
  BY <1>3, LexerBy
<1> QED
  BY <1>4 DEF m

\* INTERPRET: a comment word is no word of the stream, another one runs.
LEMMA ExecuteStreams ==
  ASSUME TextsClosed, IInv, WInv, IInv', Execute
  PROVE  WInv' /\ [Stream!Next]_(Stream!vars)
<1> DEFINE l == LexFrom("word", name)  r == Remaining(in)
<1>1. Typed /\ phase = "exec" /\ name \in Seq(Chars) /\ name # <<>> /\ in.errs = 0
      /\ in.putback \in Spaces \union {None} /\ reason = "no" /\ macro \in MacroTables
  BY TypedAtFirst DEF IInv, Execute, Typed, WInv, RunsAWord, PutBackIsSpace
<1>2. /\ name' = <<>> /\ file' = file /\ macro' = macro /\ in' = in /\ reason' = reason
      /\ \/ name = LineComment /\ phase' = "comment" /\ UNCHANGED texts
         \/ name = Paren /\ phase' = "paren" /\ UNCHANGED texts
         \/ /\ name \notin CommentWords
            /\ texts' = Texts /\ phase' = IF Texts = <<>> THEN "skip" ELSE "eval"
  BY DEF Execute
<1>3. /\ file \in Seq(Chars) /\ Fine(in) /\ in \in Inputs /\ Laid(All(in))
      /\ LexNow = Ended(l) /\ ClosedAt(in, Ended(l)) /\ r \in Seq(Chars)
  BY <1>1, ReadsFrom DEF LexNow
<1>4. l \in Lexer /\ l.mode = "word" /\ l.cur = name /\ l.words = <<>>
  BY <1>1, LexFromFacts
<1>5. CollectsHere' /\ RunsAWord' /\ phase' # "halt" /\ phase' # "exec"
  BY <1>2 DEF CollectsHere, RunsAWord
<1> HIDE DEF l, r
<1>6. CASE name = LineComment /\ phase' = "comment" /\ UNCHANGED texts
  <2>1. Ended(l) = LexFrom("comment", <<>>)
    BY <1>4, <1>6, EndedFacts DEF LexFrom
  <2>2. LexNow' = Ended(l)
    BY <1>6, <2>1 DEF LexNow
  <2>3. TextsLeftClosed'
    BY <1>6 DEF WInv, TextsLeftClosed
  <2> QED
    BY <1>1, <1>2, <1>3, <1>5, <2>2, <2>3, ReadsOnly
<1>7. CASE name = Paren /\ phase' = "paren" /\ UNCHANGED texts
  <2>1. Ended(l) = LexFrom("paren", <<>>)
    BY <1>4, <1>7, EndedFacts DEF LexFrom
  <2>2. LexNow' = Ended(l)
    BY <1>7, <2>1 DEF LexNow
  <2>3. TextsLeftClosed'
    BY <1>7 DEF WInv, TextsLeftClosed
  <2> QED
    BY <1>1, <1>2, <1>3, <1>5, <2>2, <2>3, ReadsOnly
<1>8. CASE /\ name \notin CommentWords
           /\ texts' = Texts /\ phase' = IF Texts = <<>> THEN "skip" ELSE "eval"
  <2> DEFINE w == WordsOfAll[Texts]
  <2>1. Texts \in Seq(Seq(Chars)) /\ TextsLeftClosed'
    <3>1. CASE name \in DOMAIN macro
      <4>1. Texts = macro[name] /\ macro[name] \in Seq(Seq(Chars))
        BY <1>1, <3>1, InputAssumption DEF Texts
      <4> QED
        BY <1>1, <1>8, <3>1, <4>1 DEF TextsClosed, TextsLeftClosed
    <3>2. CASE name \notin DOMAIN macro
      BY <1>8, <3>2 DEF Texts, TextsLeftClosed
    <3> QED
      BY <3>1, <3>2
  <2>2. Start \in Lexer /\ Start.mode = "word" /\ Start.cur = <<>> /\ Start.words = <<>>
    BY StartFacts
  <2>3. w \in Seq(Seq(Chars)) /\ (Texts = <<>> => w = <<>>)
    BY <2>1, WordsOfAllIs
  <2>4. With(w, Start) \in Lexer /\ With(w, Start).mode = "word" /\ With(w, Start).cur = <<>>
        /\ With(w, Start).words = w \o <<>>
    BY <2>2, <2>3, WithFacts
  <2>5. LexNow' = With(w, Start)
    <3>1. CASE Texts = <<>>
      <4>1. LexNow' = Start
        BY <1>8, <3>1 DEF LexNow
      <4>2. w = <<>>
        BY <2>3, <3>1
      <4> HIDE DEF w
      <4>3. With(w, Start) = Start
        BY <2>2, <4>2, WithNothing
      <4> QED
        BY <4>1, <4>3
    <3>2. CASE Texts # <<>>
      BY <1>8, <3>2 DEF LexNow
    <3> QED
      BY <3>1, <3>2
  <2>6. ClosedAt(in, With(w, Start))
    <3>1. Ended(l) \in Lexer /\ Ended(l).cur = <<>> /\ Ended(l).mode = "word"
      BY <1>1, <1>4, <1>8, EndedFacts
    <3> HIDE DEF w
    <3> QED
      BY <1>1, <1>3, <2>4, <3>1, ClosedAtMode
  <2>7. WInv'
    BY <1>1, <1>2, <1>3, <1>5, <2>1, <2>5, <2>6, SoundNext
  <2>8. Todo = <<name>> \o Words(Start, r)
    BY <1>1, <1>8, StartFacts DEF Todo, CommentWords, WordsOf, Start, r
  <2>9. Todo' = w \o Words(Start, r)
    <3>1. Todo' = Words(LexNow', r)
      BY <1>2, <1>5, TodoNext DEF r
    <3> HIDE DEF w
    <3>2. Words(With(w, Start), r) = w \o Words(Start, r)
      BY <1>3, <2>2, <2>3, WordsWith
    <3> QED
      BY <2>5, <3>1, <3>2
  <2>10. Words(Start, r) \in Seq(Seq(Chars))
    BY <1>3, <2>2, WordsFacts
  <2>11. Todo # <<>> /\ Head(Todo) = name /\ Tail(Todo) = Words(Start, r)
    <3> DEFINE q == Words(Start, r)
    <3>1. q \in Seq(Seq(Chars)) /\ Todo = <<name>> \o q
      BY <2>8, <2>10
    <3> HIDE DEF q
    <3>2. Todo # <<>> /\ Head(Todo) = name /\ Tail(Todo) = q
      BY <1>1, <3>1
    <3> QED
      BY <3>2 DEF q
  <2>12. w = IF name \in DOMAIN Expand THEN Expand[name] ELSE <<>>
    BY <2>3 DEF Expand, Texts
  <2>13. Expand' = Expand /\ in'.errs = in.errs
    BY <1>2, ExpandStays
  <2>14. Status = "running" /\ Status' = Status
    BY <1>1, <1>2, StatusIs, StatusIsNext
  <2> HIDE DEF w
  <2>15. Stream!Run
    BY <2>9, <2>11, <2>12, <2>13, <2>14 DEF Stream!Run
  <2> QED
    BY <2>7, <2>15 DEF Stream!Next
<1> QED
  BY <1>2, <1>6, <1>7, <1>8

\* EVAL: the words of the last text come first.
LEMMA EvalStreams ==
  ASSUME IInv, WInv, IInv', Eval
  PROVE  WInv' /\ [Stream!Next]_(Stream!vars)
<1>1. Typed /\ phase = "eval" /\ texts \in Seq(Seq(Chars)) /\ texts # <<>> /\ in.errs = 0
      /\ in.putback \in Spaces \union {None} /\ reason = "no" /\ name = <<>>
  BY TypedAtFirst DEF IInv, Eval, Typed, WInv, PutBackIsSpace, NameFits
<1>2. file' = file /\ macro' = macro /\ name' = name /\ prompts' = prompts
  BY DEF Eval
<1> DEFINE w == WordsOfAll[texts]  h == Head(texts)  tl == Tail(texts)  v == WordsOfAll[tl]
           F == Flat(in)
<1>3. /\ file \in Seq(Chars) /\ Fine(in) /\ in \in Inputs /\ Laid(All(in))
      /\ LexNow = With(w, Start) /\ LexNow \in Lexer /\ ClosedAt(in, LexNow)
      /\ F \in Seq(Chars)
  BY <1>1, ReadsFrom, FlatFacts DEF LexNow
<1>4. h \in Seq(Chars) /\ tl \in Seq(Seq(Chars)) /\ texts = <<h>> \o tl /\ h = texts[1]
      /\ Len(texts) = Len(tl) + 1 /\ Len(tl) \in Nat /\ \A k \in 1 .. Len(tl) : tl[k] = texts[k + 1]
  BY <1>1
<1>5. v \in Seq(Seq(Chars)) /\ w \in Seq(Seq(Chars)) /\ (tl = <<>> => v = <<>>)
  BY <1>1, <1>4, WordsOfAllIs
<1>6. w = v \o WordsOf(h)
  <2>1. WordsOfAll[<<h>> \o tl] = WordsOfAll[tl] \o WordsOf(h)
    BY <1>4, WordsOfAllIs
  <2> QED
    BY <1>4, <2>1
<1>7. Start \in Lexer /\ Start.mode = "word" /\ Start.cur = <<>>
  BY StartFacts
<1> HIDE DEF w, h, tl, v, F
<1>8. CASE EvalFits(in)
  <2> DEFINE e == EvalPush(in, h)  k == With(v, Start)
  <2>1. /\ in' = e /\ texts' = tl /\ phase' = IF tl = <<>> THEN "skip" ELSE "eval"
    BY <1>8 DEF Eval, h, tl
  <2>2. e \in Inputs
    <3>1. Fine(e)
      BY <1>1, <1>3, <1>4, <1>8, EvalPushFacts
    <3> HIDE DEF e
    <3> QED
      BY <3>1, PosFacts
  <2>3. ClosedText(h) /\ TextsLeftClosed'
    <3>1. \A j \in 1 .. Len(texts) : ClosedText(texts[j])
      BY DEF WInv, TextsLeftClosed
    <3>2. ClosedText(h)
      BY <1>4, <3>1
    <3>3. ASSUME NEW j \in 1 .. Len(tl) PROVE ClosedText(tl[j])
      <4>1. j + 1 \in 1 .. Len(texts) /\ tl[j] = texts[j + 1]
        BY <1>4
      <4> QED
        BY <3>1, <4>1
    <3> QED
      BY <2>1, <3>2, <3>3 DEF TextsLeftClosed
  <2>4. LexNow.mode = "word" /\ LexNow.cur = <<>>
    BY <1>3, <1>5, <1>7, WithFacts
  <2>5. /\ Flat(e) = h \o (<<"sp">> \o F) /\ Remaining(e) = Flat(e)
        /\ e.putback = None /\ e.errs = in.errs
        /\ Laid(All(e)) /\ Closing(Current(e), Start)
    <3> DEFINE l == LexNow
    <3>1. l \in Lexer /\ l.mode = "word" /\ l.cur = <<>> /\ ClosedAt(in, l)
      BY <1>3, <2>4
    <3>2. e = EvalPush(in, h) /\ e \in Inputs
      BY <2>2
    <3> HIDE DEF e, l
    <3> QED
      BY <1>1, <1>3, <1>4, <2>3, <3>1, <3>2, PushReads DEF F
  <2>6. k \in Lexer /\ k.mode = "word" /\ k.cur = <<>>
    BY <1>5, <1>7, WithFacts
  <2>7. LexNow' = k
    <3>1. CASE tl = <<>>
      <4>1. LexNow' = Start
        BY <2>1, <3>1 DEF LexNow
      <4>2. k = Start
        BY <1>5, <1>7, <3>1, WithNothing
      <4> QED
        BY <4>1, <4>2
    <3>2. CASE tl # <<>>
      <4>1. LexNow' = With(WordsOfAll[texts'], Start)
        BY <2>1, <3>2 DEF LexNow
      <4> QED
        BY <2>1, <4>1 DEF v
    <3> QED
      BY <3>1, <3>2
  <2>8. Words(LexNow, Remaining(in)) = Words(k, Remaining(e))
    <3>1. Words(LexNow, Remaining(in)) = Words(LexNow, F)
      BY <1>1, <1>3, <2>4, SpaceLeft DEF F
    <3>2. Words(LexNow, F) = (v \o WordsOf(h)) \o WordsOf(F)
      <4>1. Words(With(w, Start), F) = w \o Words(Start, F)
        BY <1>3, <1>5, <1>7, WordsWith
      <4>2. WordsOf(F) = Words(Start, F)
        BY DEF WordsOf, Start
      <4> QED
        BY <1>3, <1>6, <4>1, <4>2
    <3>3. Words(Start, h \o (<<"sp">> \o F)) = WordsOf(h) \o WordsOf(F)
      BY <1>3, <1>4, <2>3, ClosedWords
    <3>4. Words(k, Remaining(e)) = v \o (WordsOf(h) \o WordsOf(F))
      <4>1. Flat(e) \in Seq(Chars)
        BY <1>3, <2>2, FlatFacts
      <4> HIDE DEF e
      <4>2. Words(With(v, Start), Flat(e)) = v \o Words(Start, Flat(e))
        BY <1>5, <1>7, <4>1, WordsWith
      <4> QED
        BY <2>5, <3>3, <4>2
    <3>5. WordsOf(h) \in Seq(Seq(Chars)) /\ WordsOf(F) \in Seq(Seq(Chars))
      BY <1>3, <1>4, <1>7, WordsFacts DEF WordsOf, Start
    <3> DEFINE x == WordsOf(h)  y == WordsOf(F)
    <3>6. (v \o x) \o y = v \o (x \o y)
      <4>1. v \in Seq(Seq(Chars)) /\ x \in Seq(Seq(Chars)) /\ y \in Seq(Seq(Chars))
        BY <1>5, <3>5
      <4> HIDE DEF x, y
      <4> QED
        BY <4>1
    <3> QED
      BY <3>1, <3>2, <3>4, <3>6
  <2>9. ClosedAt(e, k)
    <3>1. Rest(Current(e)) \o <<"sp">> \in Seq(Chars)
      <4>1. Rest(Current(e)) \in Seq(Chars) /\ <<"sp">> \in Seq(Chars)
        BY <2>2, AllIs DEF Chars, Spaces
      <4> QED
        BY <4>1
    <3> HIDE DEF e, k
    <3>2. Closing(Current(e), k)
      BY <1>7, <2>5, <2>6, <3>1, ModeOnly DEF Closing
    <3> QED
      BY <2>5, <3>2 DEF ClosedAt
  <2>10. CollectsHere' /\ RunsAWord' /\ phase' # "halt"
    BY <2>1 DEF CollectsHere, RunsAWord
  <2> HIDE DEF e, k
  <2> QED
    BY <1>1, <1>2, <2>1, <2>3, <2>5, <2>7, <2>8, <2>9, <2>10, ReadsOnly
<1>9. CASE ~EvalFits(in)
  <2>1. in' = in /\ texts' = texts /\ phase' = "halt" /\ reason' = "evalstkovf"
    BY <1>9 DEF Eval, Halt
  <2>2. CollectsHere' /\ RunsAWord' /\ TextsLeftClosed'
    BY <2>1 DEF WInv, CollectsHere, RunsAWord, TextsLeftClosed
  <2>3. WInv'
    BY <1>1, <2>1, <2>2, SoundNext
  <2>4. Todo' = <<>>
    BY <2>1 DEF Todo
  <2>5. Status = "running" /\ Status' = "fail" /\ Expand' = Expand
    BY <1>1, <1>2, <2>1, StatusIs, StatusIsNext, ExpandStays
  <2>6. Stream!Fail
    BY <2>1, <2>4, <2>5 DEF Stream!Fail
  <2> QED
    BY <2>3, <2>6 DEF Stream!Next
<1> QED
  BY <1>8, <1>9

\* \ and (: no character of a comment belongs to a word.
LEMMA CommentStreams ==
  ASSUME ReadsReturn, IInv, WInv, IInv', Comment
  PROVE  WInv' /\ [Stream!Next]_(Stream!vars)
<1> DEFINE l == LexFrom(phase, <<>>)
<1>1. Typed /\ phase \in {"comment", "paren"} /\ in.errs = 0 /\ reason = "no"
  BY TypedAtFirst DEF IInv, Comment, Typed, WInv
<1>2. PICK d \in GetCh(in) :
       \/ d.ch = EOF /\ in' = d.in /\ Halt("unexpeof")
       \/ /\ phase = "comment" /\ d.ch = "nl"
          /\ in' = PutBack(d) /\ phase' = "skip" /\ UNCHANGED reason
       \/ /\ phase = "paren" /\ d.ch = "rp"
          /\ in' = d.in /\ phase' = "skip" /\ UNCHANGED reason
       \/ /\ d.ch \notin {EOF, IF phase = "comment" THEN "nl" ELSE "rp"}
          /\ in' = d.in /\ UNCHANGED <<phase, reason>>
  BY DEF Comment
<1>3. file' = file /\ macro' = macro /\ name' = name /\ texts' = texts /\ prompts' = prompts
  BY DEF Comment
<1>4. /\ file \in Seq(Chars) /\ Fine(in) /\ in \in Inputs /\ Laid(All(in))
      /\ LexNow = l /\ ClosedAt(in, l) /\ Remaining(in) \in Seq(Chars)
  <2>1. LexNow = l
    BY <1>1 DEF LexNow
  <2> QED
    BY <1>1, <2>1, ReadsFrom
<1>5. l \in Lexer /\ l.mode = phase /\ l.cur = <<>> /\ l.words = <<>> /\ l.mode # "word"
  <2>1. phase \in {"word", "comment", "paren"} /\ <<>> \in Seq(Chars) /\ phase # "word"
    BY <1>1
  <2> DEFINE none == <<>>
  <2>2. none \in Seq(Chars) /\ l = LexFrom(phase, none) /\ none = <<>>
    BY <2>1
  <2> HIDE DEF none, l
  <2>3. l \in Lexer /\ l.mode = phase /\ l.cur = none /\ l.words = <<>>
    BY <2>1, <2>2 DEF LexFrom, Lexer
  <2> QED
    BY <2>1, <2>2, <2>3
<1> HIDE DEF l
<1>6. /\ d.in \in Inputs /\ Laid(All(d.in)) /\ d.in.errs = in.errs /\ d.in.putback = None
      /\ d.ch = EOF => Remaining(in) = <<>>
      /\ d.ch # EOF => /\ d.ch \in Chars /\ Remaining(in) = <<d.ch>> \o Flat(d.in)
                       /\ d.in.stack # <<>> => Closing(Current(d.in), Lex(l, d.ch))
  BY <1>4, <1>5, NextReads
<1>7. TextsLeftClosed'
  BY <1>3 DEF WInv, TextsLeftClosed
<1>8. Start \in Lexer /\ Start.mode = "word" /\ Start.cur = <<>> /\ Start.words = <<>>
  BY StartFacts
<1>9. CASE d.ch = EOF
  <2>1. in' = d.in /\ phase' = "halt" /\ reason' = "unexpeof"
    BY <1>2, <1>9 DEF EOF, Halt
  <2>2. Words(l, Remaining(in)) = <<>>
    BY <1>5, <1>6, <1>9, WordsFacts, EndedFacts
  <2> QED
    BY <1>1, <1>3, <1>4, <1>6, <2>1, <2>2, EndsRight
<1>10. ASSUME d.ch # EOF PROVE Lex(l, d.ch) = IF Closes(l, d.ch) THEN Start ELSE l
  <2>1. Lex(l, d.ch) = Close(l, d.ch)
    BY <1>5, <1>6, <1>10, LexIs
  <2>2. CASE Closes(l, d.ch)
    <3> DEFINE m == Close(l, d.ch)
    <3>1. m \in Lexer /\ m.mode = "word" /\ m.cur = <<>> /\ m.words = <<>>
      BY <1>5, <2>2, CloseFacts
    <3> HIDE DEF m
    <3>2. m = Start
      BY <1>8, <3>1, LexerBy
    <3> QED
      BY <2>1, <2>2, <3>2 DEF m
  <2>3. CASE ~Closes(l, d.ch)
    BY <1>5, <2>1, <2>3, CloseFacts
  <2> QED
    BY <2>2, <2>3
<1>11. CASE phase = "comment" /\ d.ch = "nl"
  <2> DEFINE u == PutBack(d)
  <2>1. in' = u /\ phase' = "skip" /\ d.ch # EOF
    BY <1>2, <1>11 DEF EOF
  <2>2. LexNow' = Start
    BY <2>1 DEF LexNow
  <2> DEFINE r == Remaining(in)  f == Flat(d.in)
  <2>3. Lex(l, d.ch) = Start /\ Lex(Start, d.ch) = Start
    <3>1. d.ch \in Spaces /\ Closes(l, d.ch)
      BY <1>5, <1>11 DEF Spaces, Closes
    <3> QED
      BY <1>8, <1>10, <2>1, <3>1, SpaceIdle
  <2>4. /\ d.ch \in Chars /\ r = <<d.ch>> \o f /\ r \in Seq(Chars) /\ f \in Seq(Chars)
        /\ d.in.stack # <<>> => Closing(Current(d.in), Start)
    BY <1>4, <1>6, <2>1, <2>3, FlatFacts
  <2>5. /\ u \in Inputs /\ u.putback = d.ch /\ u.stack = d.in.stack /\ Laid(All(u))
        /\ Remaining(u) = r /\ Rest(Current(u)) = Rest(Current(d.in)) /\ u.errs = d.in.errs
    BY <1>4, <1>6, <2>1, PutBackFlat
  <2> HIDE DEF r, u, f
  <2>6. u.stack # <<>> => Closing(Current(u), Start)
    BY <2>4, <2>5 DEF Closing
  <2>7. ClosedAt(u, Start) /\ Words(l, r) = Words(Start, r)
    <3> DEFINE m == Lex(l, d.ch)
    <3>1. Lex(l, d.ch) = m /\ Lex(Start, d.ch) = m /\ (u.stack # <<>> => Closing(Current(u), m))
      BY <2>3, <2>6
    <3>2. /\ u \in Inputs /\ u.putback = d.ch /\ d.ch \in Chars /\ r = <<d.ch>> \o f
          /\ r \in Seq(Chars) /\ f \in Seq(Chars) /\ l \in Lexer /\ Start \in Lexer
      BY <1>5, <1>8, <2>4, <2>5
    <3> HIDE DEF m
    <3> QED
      BY <3>1, <3>2, ReturnedReads
  <2>8. CollectsHere' /\ RunsAWord'
    BY <2>1 DEF CollectsHere, RunsAWord
  <2>9. Words(l, Remaining(in)) = Words(Start, Remaining(u))
    BY <2>5, <2>7 DEF r
  <2> QED
    BY <1>1, <1>3, <1>4, <1>6, <1>7, <2>1, <2>2, <2>5, <2>7, <2>8, <2>9, ReadsOnly
<1>12. CASE d.ch # EOF /\ ~(phase = "comment" /\ d.ch = "nl")
  <2> DEFINE k == Lex(l, d.ch)
  <2>1. /\ in' = d.in
        /\ \/ phase = "paren" /\ d.ch = "rp" /\ phase' = "skip"
           \/ ~(phase = "paren" /\ d.ch = "rp") /\ phase' = phase
    BY <1>1, <1>2, <1>12
  <2>2. LexNow' = k
    <3>1. CASE phase = "paren" /\ d.ch = "rp"
      <4>1. Closes(l, d.ch)
        BY <1>5, <3>1 DEF Closes
      <4> QED
        BY <1>10, <1>12, <2>1, <3>1, <4>1 DEF LexNow
    <3>2. CASE ~(phase = "paren" /\ d.ch = "rp")
      <4>1. ~Closes(l, d.ch)
        BY <1>5, <1>12, <3>2 DEF Closes
      <4>2. LexNow' = l
        BY <1>1, <2>1, <3>2 DEF LexNow, l
      <4> QED
        BY <1>10, <1>12, <4>1, <4>2
    <3> QED
      BY <3>1, <3>2
  <2>3. ClosedAt(d.in, k) /\ Words(l, Remaining(in)) = Words(k, Remaining(d.in))
    BY <1>4, <1>5, <1>6, <1>12, TakenReads
  <2>4. CollectsHere' /\ RunsAWord' /\ phase' # "halt"
    BY <1>1, <2>1 DEF CollectsHere, RunsAWord
  <2> HIDE DEF k
  <2> QED
    BY <1>1, <1>3, <1>4, <1>6, <1>7, <2>1, <2>2, <2>3, <2>4, ReadsOnly
<1> QED
  BY <1>9, <1>11, <1>12

\* At the start there is the first text alone.
LEMMA InitStreams == Init => WInv /\ Stream!Init
<1> SUFFICES ASSUME Init PROVE WInv /\ Stream!Init
  OBVIOUS
<1>1. /\ phase = "skip" /\ name = <<>> /\ texts = <<>> /\ reason = "no" /\ in.errs = 0
      /\ in.stack = <<>> /\ in.eval = TRUE
  BY DEF Init
<1>2. InputsLaid
  <2> DEFINE a == All(in)
  <2>1. a = <<Current(in)>> /\ Current(in).eval = TRUE
    BY <1>1 DEF All, Current, Context
  <2> HIDE DEF a
  <2>2. Len(a) = 1 /\ a[1].eval = TRUE
    BY <2>1
  <2>3. Laid(a)
    BY <2>2 DEF Laid
  <2> QED
    BY <1>1, <2>3 DEF InputsLaid, ClosedAt, a
<1>3. CollectsHere /\ RunsAWord /\ TextsLeftClosed
  BY <1>1 DEF CollectsHere, RunsAWord, TextsLeftClosed
<1>4. Stream!Init
  BY <1>1, StatusIs DEF Stream!Init
<1> QED
  BY <1>1, <1>2, <1>3, <1>4 DEF WInv

LEMMA StutterStreams ==
  ASSUME IInv, WInv, UNCHANGED vars
  PROVE  WInv' /\ [Stream!Next]_(Stream!vars)
<1>1. /\ file' = file /\ macro' = macro /\ in' = in /\ name' = name /\ texts' = texts
      /\ phase' = phase /\ reason' = reason
  BY DEF vars
<1>2. LexNow' = LexNow
  BY <1>1 DEF LexNow
<1>3. RunsAWord' /\ TextsLeftClosed'
  BY <1>1 DEF WInv, RunsAWord, TextsLeftClosed
<1>4. CollectsHere'
  <2>1. Flat(in)' = Flat(in)
    BY <1>1, FlatNext
  <2> QED
    BY <1>1, <2>1 DEF WInv, CollectsHere, InWord
<1>5. InputsLaid'
  BY <1>1, <1>2 DEF WInv, InputsLaid, ClosedAt
<1>6. WInv'
  BY <1>1, <1>3, <1>4, <1>5 DEF WInv
<1>7. Expand' = Expand /\ Status' = Status
  BY <1>1, ExpandStays DEF Status
<1>8. Todo' = Todo
  <2>1. Remaining(in)' = Remaining(in)
    BY <1>1 DEF Remaining
  <2> QED
    BY <1>1, <2>1 DEF Todo
<1> QED
  BY <1>1, <1>6, <1>7, <1>8 DEF Stream!vars

LEMMA StepStreams ==
  ASSUME TextsClosed, ReadsReturn
  PROVE  IInv /\ WInv /\ IInv' /\ [Next]_vars => WInv' /\ [Stream!Next]_(Stream!vars)
BY SkipSpcStreams, CollectStreams, ExecuteStreams, EvalStreams, CommentStreams, StutterStreams DEF Next

(***************************************************************************)
(* ForthInput implements WordStream: for every first text, file, buffer    *)
(* size, word length and stack the interpreter runs the words of its input *)
(* and of the texts they evaluate, each one once and in order, and ends    *)
(* only behind the last one.  The evaluated texts close the comments they  *)
(* open, which TLC checks of the programs of its run, and the reads        *)
(* return: how a failing one cuts a word, the run shows.                   *)
(***************************************************************************)
THEOREM RunsTheWordsTheorem ==
  ASSUME TextsClosed, ReadsReturn
  PROVE  Spec => RunsTheWords
<1>1. Init => WInv /\ Stream!Init
  BY InitStreams
<1>2. IInv /\ WInv /\ IInv' /\ [Next]_vars => WInv' /\ [Stream!Next]_(Stream!vars)
  BY StepStreams
<1> QED
  BY <1>1, <1>2, Invariance, PTL DEF Spec, RunsTheWords, Stream!Spec
=============================================================================
