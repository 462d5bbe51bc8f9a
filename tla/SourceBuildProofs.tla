------------------------- MODULE SourceBuildProofs -------------------------
(***************************************************************************)
(* The build tools (SourceBuild) on every file: their types, that the C    *)
(* compiler gets the compressed text back from the literals, and that the  *)
(* interpreter reads from it what it reads from the source, for every      *)
(* source that is written by the conventions of compressf.                 *)
(***************************************************************************)
EXTENDS SourceBuild, SequenceTheorems, WellFoundedInduction, TLAPS

-----------------------------------------------------------------------------
(* A reader of a text, one character at a time: the C compiler that reads  *)
(* the literals, or the interpreter with the author's quotes.              *)

\* The least element of a set of numbers.
LEMMA LeastExists ==
  ASSUME NEW T, T \subseteq Nat, T # {}
  PROVE  \E k \in T : \A y \in T : k <= y
<1>1. PICK k \in T : \A y \in T : ~ (<<y, k>> \in OpToRel(<, Nat))
  BY WFMin, NatLessThanWellFounded, Zenon
<1>2. \A y \in T : ~ (y < k)
  BY <1>1, Zenon DEF OpToRel
<1> QED
  BY <1>2

\* Induction over the natural numbers, for a set.
LEMMA Induct ==
  ASSUME NEW S, S \subseteq Nat, 0 \in S, \A n \in S : n + 1 \in S
  PROVE  S = Nat
<1> SUFFICES ASSUME Nat \ S # {} PROVE FALSE
  OBVIOUS
<1>1. PICK k \in Nat \ S : \A y \in Nat \ S : k <= y
  BY LeastExists
<1>2. k - 1 \in Nat /\ ~(k <= k - 1) /\ (k - 1) + 1 = k
  BY <1>1
<1>3. k - 1 \in S
  BY <1>1, <1>2
<1> QED
  BY <1>1, <1>2, <1>3

\* A reader before the text, and what one character makes of it.
Start(tool) == IF tool = "compiler" THEN NoText ELSE [st |-> Begin, quoted |-> FALSE]
Step(tool, a, c) == IF tool = "compiler" THEN Compile(a, c) ELSE Advance(a, c)

\* f is the run of a reader over the first n characters of s.
Runs(tool, f, s, n) ==
  f = [k \in 0 .. n |-> IF k = 0 THEN Start(tool) ELSE Step(tool, f[k - 1], s[k])]

\* The parts of that.
Table(f, n) == f = [k \in 0 .. n |-> f[k]]
Steps(tool, f, s, n) == \A k \in 1 .. n : f[k] = Step(tool, f[k - 1], s[k])

LEMMA RunIs ==
  ASSUME NEW tool, NEW f, NEW s, NEW n \in Nat
  PROVE  Runs(tool, f, s, n) <=> Table(f, n) /\ f[0] = Start(tool) /\ Steps(tool, f, s, n)
<1> USE DEF Table, Steps
<1>1. ASSUME Runs(tool, f, s, n)
      PROVE  /\ f = [k \in 0 .. n |-> f[k]] /\ f[0] = Start(tool)
             /\ \A k \in 1 .. n : f[k] = Step(tool, f[k - 1], s[k])
  <2>1. DOMAIN f = 0 .. n
    BY <1>1 DEF Runs
  <2>2. \A k \in 0 .. n : f[k] = IF k = 0 THEN Start(tool) ELSE Step(tool, f[k - 1], s[k])
    BY <1>1 DEF Runs
  <2>3. f = [k \in 0 .. n |-> f[k]]
    BY <1>1, <2>1 DEF Runs
  <2>4. f[0] = Start(tool)
    BY <2>2
  <2>5. ASSUME NEW k \in 1 .. n PROVE f[k] = Step(tool, f[k - 1], s[k])
    <3>1. k \in 0 .. n /\ k # 0
      OBVIOUS
    <3> QED
      BY <2>2, <3>1
  <2> QED
    BY <2>3, <2>4, <2>5
<1>2. ASSUME f = [k \in 0 .. n |-> f[k]], f[0] = Start(tool),
             \A k \in 1 .. n : f[k] = Step(tool, f[k - 1], s[k])
      PROVE  Runs(tool, f, s, n)
  <2> DEFINE g == [k \in 0 .. n |-> IF k = 0 THEN Start(tool) ELSE Step(tool, f[k - 1], s[k])]
  <2>1. ASSUME NEW k \in 0 .. n PROVE f[k] = g[k]
    <3>1. CASE k = 0
      BY <1>2, <3>1
    <3>2. CASE k # 0
      <4>1. k \in 1 .. n
        BY <3>2
      <4> QED
        BY <1>2, <3>2, <4>1
    <3> QED
      BY <3>1, <3>2
  <2>2. g = [k \in 0 .. n |-> g[k]]
    OBVIOUS
  <2> HIDE DEF g
  <2>3. f = g
    BY <1>2, <2>1, <2>2
  <2> QED
    BY <2>3 DEF g, Runs
<1> QED
  BY <1>1, <1>2

LEMMA RunExists ==
  ASSUME NEW tool, NEW s
  PROVE  \A n \in Nat : \E f : Runs(tool, f, s, n)
<1> DEFINE N == {n \in Nat : \E f : Runs(tool, f, s, n)}
<1>1. 0 \in N
  <2> DEFINE f == [k \in 0 .. 0 |-> Start(tool)]
  <2>1. Table(f, 0) /\ f[0] = Start(tool)
    BY DEF Table
  <2>2. Steps(tool, f, s, 0)
    BY DEF Steps
  <2> HIDE DEF f
  <2>3. Runs(tool, f, s, 0)
    BY <2>1, <2>2, RunIs
  <2> QED
    BY <2>3
<1>2. ASSUME NEW n \in N PROVE n + 1 \in N
  <2>1. PICK f : Runs(tool, f, s, n)
    OBVIOUS
  <2>2. Table(f, n) /\ f[0] = Start(tool) /\ Steps(tool, f, s, n)
    BY <2>1, RunIs
  <2> DEFINE next == Step(tool, f[n], s[n + 1])
             g == [k \in 0 .. n + 1 |-> IF k = n + 1 THEN next ELSE f[k]]
  <2>3. n + 1 \in Nat /\ n \in Nat
    OBVIOUS
  <2> HIDE DEF next
  <2>4. Table(g, n + 1) /\ g[0] = Start(tool)
    BY <2>2, <2>3 DEF Table
  <2>5. ASSUME NEW k \in 1 .. n + 1 PROVE g[k] = Step(tool, g[k - 1], s[k])
    <3>1. CASE k = n + 1
      <4>1. g[k] = next /\ g[k - 1] = f[n] /\ k - 1 = n
        BY <2>3, <3>1
      <4> QED
        BY <3>1, <4>1 DEF next
    <3>2. CASE k # n + 1
      <4>1. k \in 1 .. n /\ g[k] = f[k] /\ g[k - 1] = f[k - 1]
        BY <2>3, <3>2
      <4> QED
        BY <2>2, <4>1 DEF Steps
    <3> QED
      BY <3>1, <3>2
  <2> HIDE DEF g
  <2>6. Steps(tool, g, s, n + 1)
    BY <2>5 DEF Steps
  <2>7. Runs(tool, g, s, n + 1)
    BY <2>3, <2>4, <2>6, RunIs
  <2> QED
    BY <2>3, <2>7
<1> HIDE DEF N
<1>3. N = Nat
  <2>1. N \subseteq Nat
    BY DEF N
  <2> QED
    BY <1>1, <1>2, <2>1, Induct
<1> QED
  BY <1>3 DEF N

Same(s, t, n) == \A k \in 1 .. n : s[k] = t[k]

\* Two runs agree as far as their texts do.
LEMMA RunsAgree ==
  ASSUME NEW tool, NEW s, NEW t, NEW n \in Nat, NEW m \in Nat, n <= m,
         Same(s, t, n),
         NEW f, NEW g, Runs(tool, f, s, n), Runs(tool, g, t, m)
  PROVE  \A k \in 0 .. n : f[k] = g[k]
<1> DEFINE N == {k \in Nat : k <= n => f[k] = g[k]}
<1>1. f[0] = Start(tool) /\ Steps(tool, f, s, n) /\ g[0] = Start(tool) /\ Steps(tool, g, t, m)
  BY RunIs
<1>2. 0 \in N
  BY <1>1
<1>3. ASSUME NEW k \in N PROVE k + 1 \in N
  <2>1. CASE k + 1 <= n
    <3>1. k + 1 \in 1 .. n /\ k + 1 \in 1 .. m /\ (k + 1) - 1 = k /\ f[k] = g[k]
      BY <2>1
    <3>2. f[k + 1] = Step(tool, f[k], s[k + 1])
      BY <1>1, <3>1 DEF Steps
    <3>3. g[k + 1] = Step(tool, g[k], t[k + 1])
      BY <1>1, <3>1 DEF Steps
    <3>4. s[k + 1] = t[k + 1]
      BY <3>1 DEF Same
    <3> QED
      BY <3>1, <3>2, <3>3, <3>4
  <2>2. CASE ~(k + 1 <= n)
    BY <2>2
  <2> QED
    BY <2>1, <2>2
<1> HIDE DEF N
<1>4. N = Nat
  <2>1. N \subseteq Nat
    BY DEF N
  <2> QED
    BY <1>2, <1>3, <2>1, Induct
<1> QED
  BY <1>4 DEF N

\* The run over all of a text.
RunOver(tool, s) == CHOOSE f : Runs(tool, f, s, Len(s))

LEMMA RunOverIs ==
  ASSUME NEW tool, NEW s, Len(s) \in Nat
  PROVE  /\ RunOver(tool, s)[0] = Start(tool)
         /\ Steps(tool, RunOver(tool, s), s, Len(s))
         /\ Runs(tool, RunOver(tool, s), s, Len(s))
<1>1. Runs(tool, RunOver(tool, s), s, Len(s))
  BY RunExists DEF RunOver
<1> QED
  BY <1>1, RunIs

\* What a reader makes of a text and one character more.
LEMMA RunAppend ==
  ASSUME NEW tool, NEW S, NEW s \in Seq(S), NEW c \in S
  PROVE  RunOver(tool, Append(s, c))[Len(Append(s, c))]
           = Step(tool, RunOver(tool, s)[Len(s)], c)
<1> DEFINE t == Append(s, c)
           f == RunOver(tool, s)
           g == RunOver(tool, t)
<1>1. /\ Len(s) \in Nat /\ Len(t) = Len(s) + 1 /\ Len(t) \in Nat
      /\ t[Len(s) + 1] = c /\ \A k \in 1 .. Len(s) : s[k] = t[k]
  OBVIOUS
<1> HIDE DEF t
<1>2. Runs(tool, f, s, Len(s)) /\ Runs(tool, g, t, Len(t)) /\ Steps(tool, g, t, Len(t))
  BY <1>1, RunOverIs
<1> HIDE DEF f, g
<1>3. f[Len(s)] = g[Len(s)]
  <2>1. Len(s) <= Len(t) /\ Len(s) \in 0 .. Len(s)
    BY <1>1
  <2>2. PICK n \in Nat, m \in Nat : n = Len(s) /\ m = Len(t)
    BY <1>1
  <2>3. n <= m /\ Runs(tool, f, s, n) /\ Runs(tool, g, t, m) /\ Same(s, t, n)
    BY <1>1, <1>2, <2>1, <2>2 DEF Same
  <2>4. \A k \in 0 .. n : f[k] = g[k]
    BY <2>3, RunsAgree
  <2> QED
    BY <2>1, <2>2, <2>4
<1>4. g[Len(t)] = Step(tool, g[Len(s)], t[Len(s) + 1])
  BY <1>1, <1>2 DEF Steps
<1>5. g[Len(t)] = Step(tool, f[Len(s)], c)
  BY <1>1, <1>3, <1>4
<1> QED
  BY <1>5 DEF f, g, t

\* The recursive functions are such runs.
LEMMA CompiledRuns ==
  ASSUME NEW s
  PROVE  Compiled(s) = RunOver("compiler", s)[Len(s)]
<1>1. \A f : Runs("compiler", f, s, Len(s))
               <=> f = [n \in 0 .. Len(s) |-> IF n = 0 THEN NoText ELSE Compile(f[n - 1], s[n])]
  BY DEF Runs, Start, Step
<1> QED
  BY <1>1 DEF Compiled, RunOver

LEMMA ReadingRuns ==
  ASSUME NEW s
  PROVE  Reading(s) = RunOver("interpreter", s)
<1>1. \A f : Runs("interpreter", f, s, Len(s))
               <=> f = [n \in 0 .. Len(s) |-> IF n = 0 THEN [st |-> Begin, quoted |-> FALSE]
                                              ELSE Advance(f[n - 1], s[n])]
  BY DEF Runs, Start, Step
<1> QED
  BY <1>1 DEF Reading, RunOver

\* The C compiler, one character on.
LEMMA CompiledAppend ==
  ASSUME NEW S, NEW s \in Seq(S), NEW c \in S
  PROVE  Compiled(Append(s, c)) = Compile(Compiled(s), c)
<1>1. Step("compiler", Compiled(s), c) = Compile(Compiled(s), c)
  BY DEF Step
<1> QED
  BY <1>1, CompiledRuns, RunAppend

LEMMA CompiledNothing == Compiled(<<>>) = NoText
<1> DEFINE e == <<>>
<1>1. Len(e) = 0
  OBVIOUS
<1> HIDE DEF e
<1>2. Compiled(e) = RunOver("compiler", e)[0] /\ RunOver("compiler", e)[0] = Start("compiler")
  BY <1>1, CompiledRuns, RunOverIs
<1> QED
  BY <1>2 DEF e, Start

\* The interpreter and the author, one character on.
LEMMA ReadingIs ==
  ASSUME NEW s \in Seq(Chars)
  PROVE  /\ Reading(s)[0] = [st |-> Begin, quoted |-> FALSE]
         /\ \A k \in 1 .. Len(s) : Reading(s)[k] = Advance(Reading(s)[k - 1], s[k])
<1>1. Len(s) \in Nat
  OBVIOUS
<1>2. /\ Reading(s)[0] = Start("interpreter")
      /\ \A k \in 1 .. Len(s) : Reading(s)[k] = Step("interpreter", Reading(s)[k - 1], s[k])
  BY <1>1, ReadingRuns, RunOverIs DEF Steps
<1>3. \A a, c : Step("interpreter", a, c) = Advance(a, c)
  BY DEF Step
<1>4. Start("interpreter") = [st |-> Begin, quoted |-> FALSE]
  BY DEF Start
<1> QED
  BY <1>2, <1>3, <1>4

LEMMA ReaderAppend ==
  ASSUME NEW s \in Seq(Chars), NEW c \in Chars
  PROVE  ReaderOf(Append(s, c)) = Interpret(ReaderOf(s), c)
<1> DEFINE t == Append(s, c)
<1>1. Reading(t)[Len(t)] = Step("interpreter", Reading(s)[Len(s)], c)
  BY ReadingRuns, RunAppend
<1>2. \A a : Step("interpreter", a, c).st = Interpret(a.st, c)
  BY DEF Step, Advance
<1> HIDE DEF t
<1>3. ReaderOf(t) = Interpret(ReaderOf(s), c)
  BY <1>1, <1>2 DEF ReaderOf
<1> QED
  BY <1>3 DEF t

LEMMA ReaderOfNothing == ReaderOf(<<>>) = Begin
<1> DEFINE e == <<>>
<1>1. Len(e) = 0 /\ e \in Seq(Chars)
  OBVIOUS
<1> HIDE DEF e
<1>2. Reading(e)[0] = [st |-> Begin, quoted |-> FALSE]
  BY <1>1, ReadingIs
<1>3. Reading(e)[Len(e)].st = Begin
  BY <1>1, <1>2
<1> QED
  BY <1>3 DEF e, ReaderOf

-----------------------------------------------------------------------------
(* One step of each tool. *)

LEMMA FirstIs ==
  ASSUME NEW s \in Seq(Chars), NEW c
  PROVE  First(s, c) \in Nat \ {0}
<1>1. Len(s) \in Nat /\ Places(s, c) \subseteq 1 .. Len(s)
  BY DEF Places
<1>2. CASE Places(s, c) = {}
  BY <1>1, <1>2 DEF First
<1>3. CASE Places(s, c) # {}
  <2>1. \E k \in Places(s, c) : \A j \in Places(s, c) : k <= j
    BY <1>1, <1>3, LeastExists
  <2>2. Min(Places(s, c)) \in Places(s, c)
    BY <2>1 DEF Min
  <2> QED
    BY <1>1, <1>3, <2>2 DEF First
<1> QED
  BY <1>2, <1>3

LEMMA FromIs ==
  ASSUME NEW s \in Seq(Chars), NEW k \in Nat \ {0}
  PROVE  From(s, k) \in Seq(Chars)
BY DEF From

\* What rdch0 gives: a character or the end, and less of the file.
LEMMA ReadIs ==
  ASSUME NEW s \in Seq(Chars), NEW q \in BOOLEAN
  PROVE  /\ rdch0(s, q).ch \in Chars \union {EOF}
         /\ rdch0(s, q).inp \in Seq(Chars)
         /\ rdch0(s, q).quote \in BOOLEAN
<1> DEFINE r == rdch0(s, q)
           IsRead(g) == /\ g.ch \in Chars \union {EOF} /\ g.inp \in Seq(Chars)
                        /\ g.quote \in BOOLEAN
<1>1. \A c, i, b : c \in Chars \union {EOF} /\ i \in Seq(Chars) /\ b \in BOOLEAN
                     => IsRead(Got(c, i, b))
  BY DEF Got
<1>2. CASE s = <<>>
  <2>1. r = Got(EOF, s, q)
    BY <1>2 DEF rdch0
  <2> QED
    BY <1>1, <2>1
<1>3. CASE s # <<>>
  <2> DEFINE c == Head(s)
             rest == Tail(s)
             q1 == q # (c = "qt")
             starts == Next0(rest) \in {"sp", "nl"}
             eol == First(rest, "nl")
             odd == Odd(SubSeq(rest, 1, eol - 1), "qt")
  <2>1. c \in Chars /\ rest \in Seq(Chars)
    BY <1>3
  <2>2. "sp" \in Chars \union {EOF}
    BY DEF Chars, Spaces
  <2>3. First(rest, "rp") \in Nat \ {0} /\ eol \in Nat \ {0}
    BY <2>1, FirstIs
  <2>4. From(rest, First(rest, "rp") + 1) \in Seq(Chars) /\ From(rest, eol) \in Seq(Chars)
    <3>1. First(rest, "rp") + 1 \in Nat \ {0}
      BY <2>3
    <3> QED
      BY <2>1, <2>3, <3>1, FromIs
  <2>5. q1 \in BOOLEAN /\ (q1 # odd) \in BOOLEAN
    OBVIOUS
  <2>6. \/ r = Got("sp", From(rest, First(rest, "rp") + 1), q1)
        \/ r = Got("sp", From(rest, eol), q1)
        \/ r = Got("sp", From(rest, eol), q1 # odd)
        \/ r = Got(c, rest, q1)
    BY <1>3 DEF rdch0
  <2> HIDE DEF c, rest, q1, starts, eol, odd, r, IsRead
  <2>7. IsRead(r)
    BY <1>1, <2>1, <2>2, <2>4, <2>5, <2>6
  <2> QED
    BY <2>7 DEF IsRead, r
<1> QED
  BY <1>2, <1>3

\* The reader of C between two literals or in one, with the text it has.
Holding(w, t) == [within |-> w, esc |-> FALSE, error |-> FALSE, text |-> t]

LEMMA OpensLiteral ==
  ASSUME NEW t
  PROVE  Compile(Holding(FALSE, t), "qt") = Holding(TRUE, t)
BY DEF Compile, Holding

LEMMA ClosesLiteral ==
  ASSUME NEW t
  PROVE  Compile(Compile(Holding(TRUE, t), "qt"), "nl") = Holding(FALSE, t)
<1>1. Compile(Holding(TRUE, t), "qt") = Holding(FALSE, t)
  BY DEF Compile, Holding
<1>2. Compile(Holding(FALSE, t), "nl") = Holding(FALSE, t)
  BY DEF Compile, Holding
<1> QED
  BY <1>1, <1>2

LEMMA HoldsMore ==
  ASSUME NEW t, NEW c \in Chars, c \notin {"qt", "bsl", "nl"}
  PROVE  Compile(Holding(TRUE, t), c) = Holding(TRUE, Append(t, c))
BY DEF Compile, Holding

LEMMA HoldsEscaped ==
  ASSUME NEW t, NEW c \in {"qt", "bsl"}
  PROVE  Compile(Compile(Holding(TRUE, t), "bsl"), c) = Holding(TRUE, Append(t, c))
<1>1. Compile(Holding(TRUE, t), "bsl") = [Holding(TRUE, t) EXCEPT !.esc = TRUE]
  BY DEF Compile, Holding
<1> QED
  BY <1>1 DEF Compile, Holding

-----------------------------------------------------------------------------
(* The invariant. *)

\* The literals hold what compf2src has taken of the compressed text.
Written ==
  "nl" \notin Range(comp) => Compiled(lit) = Holding(x # 0, SubSeq(comp, 1, cnt))

IInv ==
  /\ TypeOK
  /\ pc \in {"read", "skip"} => lit = <<>> /\ x = 0 /\ cnt = 0
  /\ pc = "done" => x = 0 /\ cnt = Len(comp)
  /\ Written

LEMMA InitSound == Init => IInv
<1> SUFFICES ASSUME Init PROVE IInv
  OBVIOUS
<1>1. source \in Seq(Chars) /\ Margin \in Nat \ {0}
  BY BuildAssumption DEF Init
<1>2. TypeOK
  <2>1. <<>> \in Seq(Chars) /\ 0 \in 0 .. Margin - 1 /\ 0 \in 0 .. Len(<<>>)
    BY <1>1
  <2> QED
    BY <1>1, <2>1 DEF Init, TypeOK
<1>3. Written
  <2>1. NoText = Holding(FALSE, <<>>)
    BY DEF NoText, Holding
  <2>2. Compiled(lit) = NoText
    BY CompiledNothing DEF Init
  <2>3. x = 0 /\ SubSeq(comp, 1, cnt) = <<>>
    BY DEF Init
  <2> QED
    BY <2>1, <2>2, <2>3 DEF Written
<1> QED
  BY <1>2, <1>3 DEF Init, IInv

\* Before compf2src starts nothing is written.
LEMMA NothingWritten ==
  ASSUME lit' = <<>>, x' = 0, cnt' = 0, comp' \in Seq(Chars)
  PROVE  Written'
<1>1. NoText = Holding(FALSE, <<>>)
  BY DEF NoText, Holding
<1>2. Compiled(lit') = NoText
  BY CompiledNothing
<1>3. SubSeq(comp', 1, cnt') = <<>>
  OBVIOUS
<1> QED
  BY <1>1, <1>2, <1>3 DEF Written

LEMMA ReadKeeps == IInv /\ Read => IInv'
<1> SUFFICES ASSUME IInv, Read PROVE IInv'
  OBVIOUS
<1> DEFINE r == rdch0(inp, quote)
<1>1. inp \in Seq(Chars) /\ quote \in BOOLEAN /\ comp \in Seq(Chars)
  BY DEF IInv, TypeOK
<1>2. r.ch \in Chars \union {EOF} /\ r.inp \in Seq(Chars) /\ r.quote \in BOOLEAN
  BY <1>1, ReadIs
<1>3. inp' = r.inp /\ quote' = r.quote /\ pc = "read"
  BY DEF Read
<1>4. /\ comp' \in Seq(Chars) /\ pc' \in {"read", "skip", "encode"}
      /\ UNCHANGED <<source, lit, x, cnt>>
  BY <1>1 DEF Read
<1>5. lit' = <<>> /\ x' = 0 /\ cnt' = 0
  BY <1>3, <1>4 DEF IInv
<1> HIDE DEF r
<1>6. TypeOK'
  BY <1>2, <1>3, <1>4, <1>5, BuildAssumption DEF IInv, TypeOK
<1> QED
  BY <1>4, <1>5, <1>6, NothingWritten DEF IInv

LEMMA SkipKeeps == IInv /\ Skip => IInv'
<1> SUFFICES ASSUME IInv, Skip PROVE IInv'
  OBVIOUS
<1> DEFINE r == rdch0(inp, quote)
<1>1. inp \in Seq(Chars) /\ quote \in BOOLEAN /\ comp \in Seq(Chars)
  BY DEF IInv, TypeOK
<1>2. r.ch \in Chars \union {EOF} /\ r.inp \in Seq(Chars) /\ r.quote \in BOOLEAN
  BY <1>1, ReadIs
<1>3. quote' = r.quote /\ pc = "skip" /\ UNCHANGED <<source, lit, x, cnt>>
  BY DEF Skip
<1>4. inp' \in Seq(Chars)
  <2>1. inp' = r.inp \/ (r.ch # EOF /\ inp' = <<r.ch>> \o r.inp)
    BY DEF Skip
  <2> HIDE DEF r
  <2>2. CASE r.ch # EOF /\ inp' = <<r.ch>> \o r.inp
    <3>1. <<r.ch>> \in Seq(Chars)
      BY <1>2, <2>2
    <3> QED
      BY <1>2, <2>2, <3>1
  <2> QED
    BY <1>2, <2>1, <2>2
<1>5. comp' \in Seq(Chars) /\ pc' \in {"read", "skip"}
  <2>1. "sp" \in Chars
    BY DEF Chars, Spaces
  <2>2. \/ comp' = comp /\ pc' = pc
        \/ comp' = Append(comp, "sp") /\ pc' = "read"
    BY DEF Skip
  <2> QED
    BY <1>1, <1>3, <2>1, <2>2
<1>6. lit' = <<>> /\ x' = 0 /\ cnt' = 0
  BY <1>3 DEF IInv
<1> HIDE DEF r
<1>7. TypeOK'
  BY <1>2, <1>3, <1>4, <1>5, <1>6, BuildAssumption DEF IInv, TypeOK
<1> QED
  BY <1>5, <1>6, <1>7, NothingWritten DEF IInv

LEMMA EncodeKeeps == IInv /\ Encode => IInv'
<1> SUFFICES ASSUME IInv, Encode PROVE IInv'
  OBVIOUS
<1> DEFINE c == comp[cnt + 1]
           col == x + Len(Escape(c)) + 1
           full == col >= Margin
           a == lit \o Opening
           b == a \o Escape(c)
           d == b \o <<c>>
           e == d \o (IF full THEN Closing ELSE <<>>)
<1>1. /\ comp \in Seq(Chars) /\ lit \in Seq(Chars) /\ Margin \in Nat \ {0}
      /\ x \in 0 .. Margin - 1 /\ cnt \in 0 .. Len(comp) /\ Len(comp) \in Nat
  BY BuildAssumption DEF IInv, TypeOK
<1>2. /\ pc = "encode" /\ cnt < Len(comp) /\ lit' = e /\ x' = (IF full THEN 0 ELSE col)
      /\ cnt' = cnt + 1 /\ UNCHANGED <<source, inp, quote, comp, pc>>
  BY DEF Encode
<1>3. c \in Chars /\ cnt' \in 1 .. Len(comp)
  BY <1>1, <1>2
<1>4. {"qt", "bsl", "nl"} \subseteq Chars
  BY DEF Chars, Spaces
<1>5. Len(Escape(c)) \in Nat /\ Escape(c) \in Seq(Chars)
  BY <1>4 DEF Escape
<1> HIDE DEF c
<1>6. col \in Nat \ {0}
  BY <1>1, <1>5
<1> HIDE DEF col
<1>7. x' \in 0 .. Margin - 1 /\ (x' # 0 <=> ~full)
  BY <1>1, <1>2, <1>6
<1> HIDE DEF full
<1>8. a \in Seq(Chars)
  BY <1>1, <1>4 DEF Opening
<1> HIDE DEF a
<1>9. b \in Seq(Chars)
  BY <1>5, <1>8
<1> HIDE DEF b
<1>10. d \in Seq(Chars) /\ d = Append(b, c)
  BY <1>3, <1>9
<1> HIDE DEF d
<1>11. e \in Seq(Chars)
  BY <1>4, <1>10 DEF Closing
<1>12. TypeOK'
  <2> HIDE DEF e
  <2>1. lit' \in Seq(Chars) /\ x' \in 0 .. Margin - 1 /\ cnt' \in 0 .. Len(comp)
    BY <1>2, <1>3, <1>7, <1>11
  <2>2. UNCHANGED <<source, inp, quote, comp, pc>>
    BY <1>2
  <2>3. TypeOK
    BY DEF IInv
  <2> QED
    BY <2>1, <2>2, <2>3 DEF TypeOK
<1>13. ASSUME "nl" \notin Range(comp)
       PROVE  Compiled(e) = Holding(~full, SubSeq(comp, 1, cnt + 1))
  <2> DEFINE t == SubSeq(comp, 1, cnt)
             u == SubSeq(comp, 1, cnt + 1)
  <2>1. u = Append(t, c)
    BY <1>1, <1>2 DEF c
  <2>2. Compiled(lit) = Holding(x # 0, t)
    BY <1>13 DEF IInv, Written
  <2>3. c # "nl"
    <3>1. c \in Range(comp)
      BY <1>1, <1>2 DEF Range, c
    <3> QED
      BY <1>13, <3>1
  <2> HIDE DEF t, u
  <2>4. Compiled(a) = Holding(TRUE, t)
    <3>1. CASE x = 0
      <4>1. a = Append(lit, "qt")
        BY <1>1, <3>1 DEF a, Opening
      <4>2. Compiled(Append(lit, "qt")) = Compile(Compiled(lit), "qt")
        BY <1>1, <1>4, CompiledAppend
      <4>3. Compiled(lit) = Holding(FALSE, t)
        BY <2>2, <3>1
      <4> QED
        BY <4>1, <4>2, <4>3, OpensLiteral
    <3>2. CASE x # 0
      <4>1. a = lit
        BY <1>1, <3>2 DEF a, Opening
      <4>2. Compiled(lit) = Holding(TRUE, t)
        BY <2>2, <3>2
      <4> QED
        BY <4>1, <4>2
    <3> QED
      BY <3>1, <3>2
  <2>5. Compiled(d) = Holding(TRUE, u)
    <3>1. Compiled(Append(b, c)) = Compile(Compiled(b), c)
      BY <1>3, <1>9, CompiledAppend
    <3>2. CASE c \in {"qt", "bsl"}
      <4>1. b = Append(a, "bsl")
        BY <1>8, <3>2 DEF b, Escape
      <4>2. Compiled(Append(a, "bsl")) = Compile(Compiled(a), "bsl")
        BY <1>4, <1>8, CompiledAppend
      <4>3. Compile(Compile(Holding(TRUE, t), "bsl"), c) = Holding(TRUE, Append(t, c))
        BY <3>2, HoldsEscaped
      <4> QED
        BY <1>10, <2>1, <2>4, <3>1, <4>1, <4>2, <4>3
    <3>3. CASE c \notin {"qt", "bsl"}
      <4>1. b = a
        BY <1>8, <3>3 DEF b, Escape
      <4>2. Compile(Holding(TRUE, t), c) = Holding(TRUE, Append(t, c))
        BY <1>3, <2>3, <3>3, HoldsMore
      <4> QED
        BY <1>10, <2>1, <2>4, <3>1, <4>1, <4>2
    <3> QED
      BY <3>2, <3>3
  <2>6. CASE full
    <3>1. e = Append(Append(d, "qt"), "nl")
      BY <1>10, <2>6 DEF Closing
    <3>2. Append(d, "qt") \in Seq(Chars)
      BY <1>4, <1>10
    <3>3. /\ Compiled(Append(d, "qt")) = Compile(Compiled(d), "qt")
          /\ Compiled(Append(Append(d, "qt"), "nl")) = Compile(Compiled(Append(d, "qt")), "nl")
      BY <1>4, <1>10, <3>2, CompiledAppend
    <3>4. Compiled(e) = Holding(FALSE, u)
      BY <2>5, <3>1, <3>3, ClosesLiteral
    <3> QED
      BY <2>6, <3>4 DEF u
  <2>7. CASE ~full
    <3>1. e = d
      BY <1>10, <2>7
    <3> QED
      BY <2>5, <2>7, <3>1 DEF u
  <2> QED
    BY <2>6, <2>7
<1> HIDE DEF e
<1>14. Written'
  <2>1. (x' # 0) = ~full
    BY <1>7
  <2> QED
    BY <1>2, <1>13, <2>1 DEF Written
<1> QED
  BY <1>2, <1>12, <1>14 DEF IInv

LEMMA EncodeEndKeeps == IInv /\ EncodeEnd => IInv'
<1> SUFFICES ASSUME IInv, EncodeEnd PROVE IInv'
  OBVIOUS
<1> DEFINE t == SubSeq(comp, 1, cnt)
<1>1. /\ comp \in Seq(Chars) /\ lit \in Seq(Chars) /\ Margin \in Nat \ {0}
      /\ cnt = Len(comp) /\ x' = 0 /\ pc' = "done"
      /\ lit' = lit \o (IF x = 0 THEN <<>> ELSE Closing)
      /\ UNCHANGED <<source, inp, quote, comp, cnt>>
  BY BuildAssumption DEF IInv, TypeOK, EncodeEnd
<1>2. {"qt", "nl"} \subseteq Chars
  BY DEF Chars, Spaces
<1>3. ASSUME "nl" \notin Range(comp)
      PROVE  Compiled(lit') = Holding(FALSE, t)
  <2>1. Compiled(lit) = Holding(x # 0, t)
    BY <1>3 DEF IInv, Written
  <2> HIDE DEF t
  <2>2. CASE x = 0
    <3>1. lit' = lit
      BY <1>1, <2>2
    <3>2. Compiled(lit) = Holding(FALSE, t)
      BY <2>1, <2>2
    <3> QED
      BY <3>1, <3>2
  <2>3. CASE x # 0
    <3>1. lit' = Append(Append(lit, "qt"), "nl")
      BY <1>1, <2>3 DEF Closing
    <3>2. Append(lit, "qt") \in Seq(Chars)
      BY <1>1, <1>2
    <3>3. /\ Compiled(Append(lit, "qt")) = Compile(Compiled(lit), "qt")
          /\ Compiled(Append(Append(lit, "qt"), "nl")) = Compile(Compiled(Append(lit, "qt")), "nl")
      BY <1>1, <1>2, <3>2, CompiledAppend
    <3>4. Compiled(lit) = Holding(TRUE, t)
      BY <2>1, <2>3
    <3> QED
      BY <3>1, <3>3, <3>4, ClosesLiteral
  <2> QED
    BY <2>2, <2>3
<1>4. Written'
  <2>1. (x' # 0) = FALSE /\ comp' = comp /\ cnt' = cnt
    BY <1>1
  <2> QED
    BY <1>3, <2>1 DEF Written
<1>5. TypeOK'
  <2>1. lit' \in Seq(Chars)
    BY <1>1, <1>2 DEF Closing
  <2> QED
    BY <1>1, <2>1 DEF IInv, TypeOK
<1> QED
  BY <1>1, <1>4, <1>5 DEF IInv

LEMMA StepSound == IInv /\ [Next]_vars => IInv'
<1>1. IInv /\ UNCHANGED vars => IInv'
  BY DEF vars, IInv, TypeOK, Written
<1> QED
  BY <1>1, ReadKeeps, SkipKeeps, EncodeKeeps, EncodeEndKeeps DEF Next

THEOREM Invariance == Spec => []IInv
BY InitSound, StepSound, PTL DEF Spec

(***************************************************************************)
(* On every file, also one with comments, strings or escapes cut short,    *)
(* and for every width of a line: compressf and compf2src put out          *)
(* characters only, and the column of compf2src stays below the margin.    *)
(***************************************************************************)
THEOREM TypeCorrect == Spec => []TypeOK
<1>1. IInv => TypeOK
  BY DEF IInv
<1> QED
  BY <1>1, Invariance, PTL

\* At the end the compiler has all of the text, and the last literal is closed.
LEMMA WrittenIsText == IInv => LiteralsAreText
<1> SUFFICES ASSUME IInv, pc = "done", "nl" \notin Range(comp)
             PROVE  /\ Compiled(lit).text = comp /\ cnt = Len(comp) /\ ~Compiled(lit).error
                    /\ ~Compiled(lit).within /\ ~Compiled(lit).esc
  BY DEF LiteralsAreText
<1>1. x = 0 /\ cnt = Len(comp) /\ comp \in Seq(Chars)
  BY DEF IInv, TypeOK
<1>2. SubSeq(comp, 1, cnt) = comp
  BY <1>1
<1>3. Compiled(lit) = Holding(FALSE, comp)
  <2>1. Compiled(lit) = Holding(x # 0, SubSeq(comp, 1, cnt)) /\ (x # 0) = FALSE
    BY <1>1 DEF IInv, Written
  <2> QED
    BY <1>2, <2>1
<1> QED
  BY <1>1, <1>3 DEF Holding

(***************************************************************************)
(* For every file whose compressed text has no newline and every width of  *)
(* a line: the C compiler gets that text back from the literals, all of    *)
(* it, wherever lines end and whatever is escaped, and compf2src writes    *)
(* its length (compf2src.c:44-67).                                         *)
(***************************************************************************)
THEOREM LiteralsTheorem == Spec => []LiteralsAreText
BY Invariance, WrittenIsText, PTL

-----------------------------------------------------------------------------
(* What compressf keeps: the reader of what it has written stands where the *)
(* reader of the source stood after some beginning, and the rest is unread. *)

St(s, k) == Reading(s)[k].st
Qd(s, k) == Reading(s)[k].quoted
Ahead(s, k, c) == k < Len(s) /\ s[k + 1] = c
AtStart(st) == st.mode = "word" /\ st.cur = <<>>

\* In rdch1, before white space: k characters are read.
InStep(s, k, h, q) ==
  /\ h = St(s, k) /\ h.mode \in {"word", "string"} /\ q = Qd(s, k)
  /\ ~q /\ AtStart(h) /\ Ahead(s, k, "qt") => k = 0 \/ St(s, k - 1).mode = "string"
  /\ ~q /\ h.cur \in {<<"lp">>, <<"bsl">>} /\ ~h.name
       => ~Ahead(s, k, "sp") /\ ~Ahead(s, k, "nl")

\* the same, with a quote that it has toggled for and put back.
PutBack(s, k, h, q) ==
  q /\ Ahead(s, k, "qt") /\ ~Qd(s, k) /\ h = St(s, k) /\ AtStart(h)

\* Behind white space or a comment, which stand for one space.
Between(s, k, h) ==
  ~Qd(s, k) /\ AtStart(St(s, k)) /\ St(s, k) = Interpret(h, "sp")

ReadsAt(s, h, i, q) ==
  \E k \in 0 .. Len(s) : i = From(s, k + 1) /\ (InStep(s, k, h, q) \/ PutBack(s, k, h, q))

\* A line comment is read up to its newline.
SkipsAt(s, h, i) ==
  \E k \in 0 .. Len(s) :
    /\ i = From(s, k + 1)
    /\ Between(s, k, h) \/ (Ahead(s, k, "nl") /\ Between(s, k + 1, h))

Carried ==
  /\ "nl" \notin Range(comp)
  /\ pc = "read" => ReadsAt(source, ReaderOf(comp), inp, quote)
  /\ pc = "skip" => ~quote /\ SkipsAt(source, ReaderOf(comp), inp)
  /\ pc \in {"encode", "done"} => ~quote /\ ReaderOf(comp) = ReaderOf(source)

CInv == Conventional(source) => Carried

-----------------------------------------------------------------------------
(* The interpreter on one character. *)

Modes == {"word", "string", "comment", "paren"}
Readers == [mode : Modes, cur : Seq(Chars), words : Seq(Seq(Chars)), name : BOOLEAN]

LEMMA ReaderIs ==
  ASSUME NEW st \in Readers
  PROVE  /\ st.mode \in Modes /\ st.cur \in Seq(Chars) /\ st.words \in Seq(Seq(Chars))
         /\ st.name \in BOOLEAN
         /\ st = [mode |-> st.mode, cur |-> st.cur, words |-> st.words, name |-> st.name]
BY DEF Readers

LEMMA WordAdded ==
  ASSUME NEW w \in Seq(Seq(Chars)), NEW c \in Seq(Chars)
  PROVE  Append(w, c) \in Seq(Seq(Chars))
OBVIOUS

\* What the end of a word does.
LEMMA EndedIs ==
  ASSUME NEW st \in Readers, st.mode = "word"
  PROVE  /\ Ended(st) \in Readers /\ Ended(st).cur = <<>>
         /\ st.cur = <<>> => Ended(st) = st
         /\ st.name => Ended(st).mode = "word"
<1> DEFINE w == st.cur
           plain == [st EXCEPT !.cur = <<>>, !.words = Append(@, w), !.name = (w = <<"colon">>)]
           e == Ended(st)
<1>1. st.cur \in Seq(Chars) /\ st.words \in Seq(Seq(Chars)) /\ st.name \in BOOLEAN
  BY ReaderIs
<1>2. <<>> \in Seq(Chars) /\ Append(st.words, w) \in Seq(Seq(Chars))
  BY <1>1, WordAdded
<1>3. plain \in Readers /\ plain.cur = <<>> /\ plain.mode = "word"
  BY <1>1, <1>2 DEF Readers, Modes
<1>4. \A m \in Modes : /\ [plain EXCEPT !.mode = m] \in Readers
                       /\ [plain EXCEPT !.mode = m].cur = <<>>
                       /\ [st EXCEPT !.cur = <<>>, !.mode = m] \in Readers
                       /\ [st EXCEPT !.cur = <<>>, !.mode = m].cur = <<>>
  BY <1>1, <1>2, <1>3 DEF Readers
<1>5. CASE st.cur = <<>>
  BY <1>5 DEF Ended
<1>6. CASE st.cur # <<>> /\ st.name
  <2>1. e = plain
    BY <1>6 DEF Ended
  <2> HIDE DEF e, plain
  <2>2. e \in Readers /\ e.cur = <<>> /\ e.mode = "word"
    BY <1>3, <2>1
  <2> QED
    BY <1>6, <2>2 DEF e
<1>7. CASE st.cur # <<>> /\ ~st.name
  <2>1. \/ e = plain
        \/ e = [plain EXCEPT !.mode = "string"]
        \/ e = [st EXCEPT !.cur = <<>>, !.mode = "comment"]
        \/ e = [st EXCEPT !.cur = <<>>, !.mode = "paren"]
    BY <1>7 DEF Ended
  <2> HIDE DEF e, plain
  <2>2. e \in Readers /\ e.cur = <<>>
    BY <1>3, <1>4, <2>1 DEF Modes
  <2> QED
    BY <1>7, <2>2 DEF e
<1> QED
  BY <1>5, <1>6, <1>7

\* Inside a word.
LEMMA WordGrows ==
  ASSUME NEW st \in Readers, st.mode = "word", NEW c \in Chars \ Spaces
  PROVE  /\ Interpret(st, c) = [st EXCEPT !.cur = Append(@, c)]
         /\ Interpret(st, c) \in Readers
         /\ Interpret(st, c).mode = "word"
         /\ Interpret(st, c).cur = Append(st.cur, c)
         /\ Interpret(st, c).name = st.name
<1>1. Interpret(st, c) = [st EXCEPT !.cur = Append(@, c)]
  BY DEF Interpret
<1>2. Append(st.cur, c) \in Seq(Chars)
  BY ReaderIs
<1> QED
  BY <1>1, <1>2 DEF Readers

\* Behind a word that is no comment and starts no string.
LEMMA WordEnds ==
  ASSUME NEW st \in Readers, st.mode = "word", NEW c \in Spaces, Ended(st).mode = "word"
  PROVE  Interpret(st, c) = Ended(st) /\ Interpret(st, "sp") = Ended(st)
BY DEF Interpret, Spaces

LEMMA InterpretIs ==
  ASSUME NEW st \in Readers, NEW c \in Chars
  PROVE  Interpret(st, c) \in Readers
<1>1. CASE st.mode = "word" /\ c \notin Spaces
  BY <1>1, WordGrows
<1>2. CASE st.mode = "word" /\ c \in Spaces
  <2>1. Ended(st) \in Readers
    BY <1>2, EndedIs
  <2>2. [Ended(st) EXCEPT !.mode = "word"] \in Readers
    BY <2>1 DEF Readers, Modes
  <2> QED
    BY <1>2, <2>1, <2>2 DEF Interpret
<1>3. CASE st.mode \in {"comment", "paren"}
  <2>1. [st EXCEPT !.mode = "word"] \in Readers
    BY DEF Readers, Modes
  <2> QED
    BY <1>3, <2>1 DEF Interpret
<1>4. CASE st.mode = "string"
  <2>1. Append(st.cur, c) \in Seq(Chars) /\ Append(st.words, st.cur) \in Seq(Seq(Chars))
    BY ReaderIs
  <2>2. <<>> \in Seq(Chars)
    OBVIOUS
  <2>3. /\ [st EXCEPT !.cur = Append(@, c)] \in Readers
        /\ [st EXCEPT !.mode = "word", !.cur = <<>>, !.words = Append(@, st.cur)] \in Readers
    BY <2>1, <2>2 DEF Readers, Modes
  <2> QED
    BY <1>4, <2>3 DEF Interpret
<1> QED
  BY <1>1, <1>2, <1>3, <1>4, ReaderIs DEF Modes

\* In a string.
LEMMA StringGoesOn ==
  ASSUME NEW st \in Readers, st.mode = "string", NEW c \in Chars
  PROVE  IF c = "qt" THEN AtStart(Interpret(st, c)) ELSE Interpret(st, c).mode = "string"
BY DEF Interpret, AtStart, Readers

\* A comment word is read, and what it changes is undone at the comment's end.
LEMMA CommentWord ==
  ASSUME NEW st \in Readers, Starts(st), NEW c \in {"lp", "bsl"}
  PROVE  LET a == Interpret(st, c)
             m == IF c = "lp" THEN "paren" ELSE "comment"
         IN  /\ a.mode = "word" /\ Ended(a).mode = m
             /\ [Ended(a) EXCEPT !.mode = "word"] = st
<1> DEFINE a == Interpret(st, c)
           m == IF c = "lp" THEN "paren" ELSE "comment"
           b == [a EXCEPT !.cur = <<>>, !.mode = m]
<1>1. c \in Chars \ Spaces /\ st.mode = "word" /\ st.cur = <<>> /\ ~st.name
  BY DEF Chars, Spaces, Starts
<1>2. /\ a = [st EXCEPT !.cur = Append(@, c)] /\ a \in Readers /\ a.mode = "word"
      /\ a.cur = <<c>> /\ ~a.name
  <2>1. Append(<<>>, c) = <<c>>
    OBVIOUS
  <2>2. /\ a = [st EXCEPT !.cur = Append(@, c)] /\ a \in Readers /\ a.mode = "word"
        /\ a.cur = Append(st.cur, c) /\ a.name = st.name
    BY <1>1, WordGrows
  <2> HIDE DEF a
  <2> QED
    BY <1>1, <2>1, <2>2
<1>3. m \in Modes /\ <<>> \in Seq(Chars)
  BY DEF Modes
<1>4. Ended(a) = b
  <2> HIDE DEF a
  <2>1. CASE c = "lp"
    BY <1>2, <2>1 DEF Ended
  <2>2. CASE c = "bsl"
    BY <1>2, <2>2 DEF Ended
  <2> QED
    BY <2>1, <2>2
<1>5. b.mode = m /\ [b EXCEPT !.mode = "word"] = st
  <2> HIDE DEF m
  <2>1. [st EXCEPT !.cur = <<>>, !.mode = "word"] = st
    BY <1>1 DEF Readers
  <2>2. a = [st EXCEPT !.cur = <<c>>]
    BY <1>1, <1>2
  <2>3. [b EXCEPT !.mode = "word"] = [st EXCEPT !.cur = <<>>, !.mode = "word"]
    BY <1>2, <2>2 DEF Readers
  <2>4. b.mode = m
    BY <1>2 DEF Readers
  <2> QED
    BY <2>1, <2>3, <2>4
<1> QED
  BY <1>2, <1>4, <1>5

\* A comment leaves the reader as it was.
LEMMA LineComment ==
  ASSUME NEW st \in Readers, Starts(st)
  PROVE  /\ Interpret(Interpret(st, "bsl"), "nl") = st
         /\ \A c \in {"sp", "tab"} :
              /\ Interpret(Interpret(st, "bsl"), c).mode = "comment"
              /\ Interpret(Interpret(Interpret(st, "bsl"), c), "nl") = st
<1> DEFINE a == Interpret(st, "bsl")
           b == Ended(a)
<1>1. a.mode = "word" /\ b.mode = "comment" /\ [b EXCEPT !.mode = "word"] = st
  BY CommentWord
<1> HIDE DEF a
<1>2. Interpret(a, "nl") = st
  BY <1>1 DEF Interpret, Spaces
<1>3. ASSUME NEW c \in {"sp", "tab"} PROVE Interpret(a, c) = b
  BY <1>1 DEF Interpret, Spaces
<1> HIDE DEF b
<1>4. Interpret(b, "nl") = st
  BY <1>1 DEF Interpret
<1> QED
  BY <1>1, <1>2, <1>3, <1>4 DEF a

LEMMA ParenComment ==
  ASSUME NEW st \in Readers, Starts(st), NEW c \in {"sp", "nl"}
  PROVE  /\ Interpret(Interpret(st, "lp"), c).mode = "paren"
         /\ Interpret(Interpret(Interpret(st, "lp"), c), "rp") = st
<1> DEFINE a == Interpret(st, "lp")
           b == Ended(a)
<1>1. a.mode = "word" /\ b.mode = "paren" /\ [b EXCEPT !.mode = "word"] = st
  BY CommentWord
<1> HIDE DEF a
<1>2. Interpret(a, c) = b
  BY <1>1 DEF Interpret, Spaces
<1> HIDE DEF b
<1>3. Interpret(b, "rp") = st
  BY <1>1 DEF Interpret
<1> QED
  BY <1>1, <1>2, <1>3 DEF a

-----------------------------------------------------------------------------
(* Along a source. *)

\* One character on.
LEMMA Goes ==
  ASSUME NEW s \in Seq(Chars), NEW k \in 0 .. Len(s), k < Len(s)
  PROVE  /\ k + 1 \in 0 .. Len(s) /\ s[k + 1] \in Chars
         /\ St(s, k + 1) = Interpret(St(s, k), s[k + 1])
         /\ Qd(s, k + 1) = Quoted(St(s, k), Qd(s, k), s[k + 1])
<1>1. k + 1 \in 1 .. Len(s) /\ (k + 1) - 1 = k /\ k + 1 \in 0 .. Len(s)
  OBVIOUS
<1>2. Reading(s)[k + 1] = Advance(Reading(s)[k], s[k + 1])
  BY <1>1, ReadingIs
<1>3. s[k + 1] \in Chars
  BY <1>1
<1>4. \A a, c : Advance(a, c).st = Interpret(a.st, c)
                 /\ Advance(a, c).quoted = Quoted(a.st, a.quoted, c)
  BY DEF Advance
<1> QED
  BY <1>1, <1>2, <1>3, <1>4 DEF St, Qd

LEMMA AtFirst ==
  ASSUME NEW s \in Seq(Chars)
  PROVE  St(s, 0) = Begin /\ Qd(s, 0) = FALSE
<1>1. Reading(s)[0] = [st |-> Begin, quoted |-> FALSE]
  BY ReadingIs
<1>2. Reading(s)[0].st = Begin /\ Reading(s)[0].quoted = FALSE
  BY <1>1
<1> QED
  BY <1>2 DEF St, Qd

LEMMA BeginIs == Begin \in Readers /\ AtStart(Begin)
<1>1. <<>> \in Seq(Chars) /\ <<>> \in Seq(Seq(Chars))
  OBVIOUS
<1> QED
  BY <1>1 DEF Begin, Readers, Modes, AtStart

LEMMA Along ==
  ASSUME NEW s \in Seq(Chars)
  PROVE  \A k \in 0 .. Len(s) : St(s, k) \in Readers /\ Qd(s, k) \in BOOLEAN
<1> DEFINE Good == {k \in Nat : k <= Len(s) => St(s, k) \in Readers /\ Qd(s, k) \in BOOLEAN}
<1>1. 0 \in Good
  BY AtFirst, BeginIs
<1>2. ASSUME NEW k \in Good PROVE k + 1 \in Good
  <2>1. CASE k + 1 <= Len(s)
    <3>1. k \in 0 .. Len(s) /\ k < Len(s) /\ k <= Len(s)
      BY <2>1
    <3>2. St(s, k) \in Readers
      BY <3>1
    <3>3. /\ s[k + 1] \in Chars /\ St(s, k + 1) = Interpret(St(s, k), s[k + 1])
          /\ Qd(s, k + 1) = Quoted(St(s, k), Qd(s, k), s[k + 1])
      BY <3>1, Goes
    <3>4. St(s, k + 1) \in Readers
      BY <3>2, <3>3, InterpretIs
    <3>5. Qd(s, k + 1) \in BOOLEAN
      BY <3>3 DEF Quoted
    <3> QED
      BY <3>4, <3>5
  <2>2. CASE ~(k + 1 <= Len(s))
    BY <2>2
  <2> QED
    BY <2>1, <2>2
<1> HIDE DEF Good
<1>3. Good = Nat
  <2>1. Good \subseteq Nat
    BY DEF Good
  <2> QED
    BY <1>1, <1>2, <2>1, Induct
<1> QED
  BY <1>3 DEF Good

LEMMA ReaderOfIs ==
  ASSUME NEW s \in Seq(Chars)
  PROVE  ReaderOf(s) \in Readers /\ ReaderOf(s) = St(s, Len(s))
<1>1. Len(s) \in 0 .. Len(s)
  OBVIOUS
<1>2. ReaderOf(s) = St(s, Len(s))
  BY DEF ReaderOf, St
<1> QED
  BY <1>1, <1>2, Along

\* What ends a comment of a mode.
Closer(m) == IF m = "comment" THEN "nl" ELSE "rp"

\* In a comment, up to what closes it.
LEMMA InComment ==
  ASSUME NEW s \in Seq(Chars), NEW k \in 0 .. Len(s), NEW l \in 0 .. Len(s), k <= l,
         NEW m \in {"comment", "paren"},
         St(s, k).mode = m, Qd(s, k) = FALSE,
         \A j \in 1 .. Len(s) : k < j /\ j <= l => s[j] # Closer(m)
  PROVE  St(s, l) = St(s, k) /\ Qd(s, l) = FALSE
<1> DEFINE Good == {n \in Nat : k + n <= l => St(s, k + n) = St(s, k) /\ Qd(s, k + n) = FALSE}
<1>1. 0 \in Good
  <2>1. k + 0 = k
    OBVIOUS
  <2> QED
    BY <2>1
<1>2. ASSUME NEW n \in Good PROVE n + 1 \in Good
  <2>1. CASE k + (n + 1) <= l
    <3>1. /\ k + n \in 0 .. Len(s) /\ k + n < Len(s) /\ k + n <= l /\ k + (n + 1) = (k + n) + 1
          /\ (k + n) + 1 \in 1 .. Len(s) /\ k < (k + n) + 1
      BY <2>1
    <3>2. St(s, k + n) = St(s, k) /\ Qd(s, k + n) = FALSE
      BY <3>1
    <3>3. /\ St(s, (k + n) + 1) = Interpret(St(s, k + n), s[(k + n) + 1])
          /\ Qd(s, (k + n) + 1) = Quoted(St(s, k + n), Qd(s, k + n), s[(k + n) + 1])
      BY <3>1, Goes
    <3>4. s[(k + n) + 1] # Closer(m)
      BY <2>1, <3>1
    <3>5. Interpret(St(s, k), s[(k + n) + 1]) = St(s, k)
      BY <3>4 DEF Interpret, Closer
    <3>6. Qd(s, (k + n) + 1) = FALSE
      BY <3>2, <3>3 DEF Quoted
    <3> QED
      BY <3>1, <3>2, <3>3, <3>5, <3>6
  <2>2. CASE ~(k + (n + 1) <= l)
    BY <2>2
  <2> QED
    BY <2>1, <2>2
<1> HIDE DEF Good
<1>3. Good = Nat
  <2>1. Good \subseteq Nat
    BY DEF Good
  <2> QED
    BY <1>1, <1>2, <2>1, Induct
<1>4. l - k \in Nat /\ k + (l - k) = l /\ k + (l - k) <= l
  OBVIOUS
<1>5. l - k \in Good
  BY <1>3, <1>4
<1> QED
  BY <1>4, <1>5 DEF Good

-----------------------------------------------------------------------------
(* What is left of a source. *)

LEMMA FirstPlace ==
  ASSUME NEW s \in Seq(Chars), NEW c
  PROVE  /\ First(s, c) \in 1 .. Len(s) + 1
         /\ First(s, c) <= Len(s) => s[First(s, c)] = c
         /\ \A j \in 1 .. Len(s) : j < First(s, c) => s[j] # c
<1>1. Len(s) \in Nat /\ Places(s, c) \subseteq 1 .. Len(s)
  BY DEF Places
<1>2. CASE Places(s, c) = {}
  <2>1. First(s, c) = Len(s) + 1
    BY <1>2 DEF First
  <2>2. \A j \in 1 .. Len(s) : s[j] # c
    BY <1>2 DEF Places
  <2> QED
    BY <1>1, <2>1, <2>2
<1>3. CASE Places(s, c) # {}
  <2>1. \E k \in Places(s, c) : \A j \in Places(s, c) : k <= j
    BY <1>1, <1>3, LeastExists
  <2>2. First(s, c) = Min(Places(s, c))
    BY <1>3 DEF First
  <2>3. First(s, c) \in Places(s, c) /\ \A j \in Places(s, c) : First(s, c) <= j
    BY <2>1, <2>2 DEF Min
  <2> HIDE <2>2
  <2>4. \A j \in 1 .. Len(s) : s[j] = c => j \in Places(s, c)
    BY DEF Places
  <2>5. s[First(s, c)] = c
    BY <2>3 DEF Places
  <2> QED
    BY <1>1, <2>3, <2>4, <2>5
<1> QED
  BY <1>2, <1>3

LEMMA FromElements ==
  ASSUME NEW s \in Seq(Chars), NEW a \in 1 .. Len(s) + 1
  PROVE  /\ From(s, a) \in Seq(Chars) /\ Len(From(s, a)) = Len(s) + 1 - a
         /\ \A j \in 1 .. Len(From(s, a)) : From(s, a)[j] = s[a + j - 1]
<1>1. Len(s) \in Int /\ a \in Int /\ \A i \in a .. Len(s) : s[i] \in Chars
  OBVIOUS
<1> DEFINE n == Len(s)
           u == SubSeq(s, a, n)
<1> HIDE DEF n
<1>2. n \in Int /\ \A i \in a .. n : s[i] \in Chars
  BY <1>1 DEF n
<1>3. /\ u \in Seq(Chars) /\ Len(u) = IF a <= n THEN n - a + 1 ELSE 0
      /\ \A i \in 1 .. n - a + 1 : u[i] = s[a + i - 1]
  BY <1>1, <1>2, SubSeqProperties
<1>4. n \in Nat /\ a \in 1 .. n + 1
  BY DEF n
<1> HIDE DEF u
<1>5. Len(u) = n + 1 - a
  BY <1>3, <1>4
<1>6. \A j \in 1 .. Len(u) : u[j] = s[a + j - 1]
  BY <1>3, <1>4, <1>5
<1> QED
  BY <1>3, <1>5, <1>6 DEF u, n, From

LEMMA FromParts ==
  ASSUME NEW s \in Seq(Chars), NEW k \in 0 .. Len(s)
  PROVE  /\ From(s, k + 1) \in Seq(Chars) /\ k + Len(From(s, k + 1)) = Len(s)
         /\ \A j \in 1 .. Len(From(s, k + 1)) : From(s, k + 1)[j] = s[k + j]
         /\ \A n \in 1 .. Len(From(s, k + 1)) + 1 : From(From(s, k + 1), n) = From(s, k + n)
<1> DEFINE t == From(s, k + 1)
<1>1. /\ t \in Seq(Chars) /\ k + Len(t) = Len(s)
      /\ \A j \in 1 .. Len(t) : t[j] = s[k + j]
  <2>1. k + 1 \in 1 .. Len(s) + 1 /\ Len(s) \in Nat
    OBVIOUS
  <2>2. /\ t \in Seq(Chars) /\ Len(t) = Len(s) + 1 - (k + 1)
        /\ \A j \in 1 .. Len(t) : t[j] = s[(k + 1) + j - 1]
    BY <2>1, FromElements
  <2> HIDE DEF t
  <2>3. \A j \in 1 .. Len(t) : (k + 1) + j - 1 = k + j
    OBVIOUS
  <2> QED
    BY <2>1, <2>2, <2>3
<1> HIDE DEF t
<1>2. ASSUME NEW n \in 1 .. Len(t) + 1
      PROVE  From(t, n) = From(s, k + n)
  <2> DEFINE u == From(t, n)
             v == From(s, k + n)
  <2>1. /\ u \in Seq(Chars) /\ Len(u) = Len(t) + 1 - n
        /\ \A j \in 1 .. Len(u) : u[j] = t[n + j - 1]
    BY <1>1, FromElements
  <2>2. k + n \in 1 .. Len(s) + 1
    BY <1>1
  <2>3. /\ v \in Seq(Chars) /\ Len(v) = Len(s) + 1 - (k + n)
        /\ \A j \in 1 .. Len(v) : v[j] = s[(k + n) + j - 1]
    BY <2>2, FromElements
  <2> HIDE DEF u, v
  <2>4. Len(u) = Len(v) /\ Len(t) \in Nat
    <3>1. Len(t) \in Nat /\ Len(s) \in Nat
      BY <1>1
    <3>2. PICK a \in Nat, b \in Nat : a = Len(t) /\ b = Len(s)
      BY <3>1
    <3>3. k + a = b /\ Len(u) = a + 1 - n /\ Len(v) = b + 1 - (k + n) /\ k \in Int /\ n \in Int
      BY <1>1, <2>1, <2>3, <3>2
    <3>4. a + 1 - n = b + 1 - (k + n)
      BY <3>3
    <3> QED
      BY <3>1, <3>3, <3>4
  <2>5. ASSUME NEW j \in 1 .. Len(u) PROVE u[j] = v[j]
    <3>1. n + j - 1 \in 1 .. Len(t) /\ k + (n + j - 1) = (k + n) + j - 1
      BY <2>1, <2>4
    <3>2. u[j] = t[n + j - 1] /\ v[j] = s[(k + n) + j - 1]
      BY <2>1, <2>3, <2>4
    <3>3. t[n + j - 1] = s[k + (n + j - 1)]
      BY <1>1, <3>1
    <3> QED
      BY <3>1, <3>2, <3>3
  <2>6. u = v
    BY <2>1, <2>3, <2>4, <2>5, SeqEqual
  <2> QED
    BY <2>6 DEF u, v
<1> QED
  BY <1>1, <1>2 DEF t

\* What comes next.
LEMMA FromNext ==
  ASSUME NEW s \in Seq(Chars), NEW k \in 0 .. Len(s)
  PROVE  /\ k = Len(s) => From(s, k + 1) = <<>>
         /\ k < Len(s) => /\ From(s, k + 1) # <<>>
                          /\ Head(From(s, k + 1)) = s[k + 1]
                          /\ Tail(From(s, k + 1)) = From(s, (k + 1) + 1)
                          /\ <<s[k + 1]>> \o From(s, (k + 1) + 1) = From(s, k + 1)
                          /\ Next0(From(s, k + 1)) = s[k + 1]
<1>1. Len(s) \in Nat /\ k \in Nat
  OBVIOUS
<1>2. CASE k = Len(s)
  <2>1. Len(s) < Len(s) + 1
    BY <1>1
  <2>2. SubSeq(s, Len(s) + 1, Len(s)) = <<>>
    BY <1>1, <2>1, SubSeqEmpty
  <2> QED
    BY <1>1, <1>2, <2>2 DEF From
<1>3. CASE k < Len(s)
  <2> DEFINE n == Len(s)
             a == k + 1
             t == SubSeq(s, a, n)
  <2>1. n \in Int /\ a \in Int /\ a <= n /\ n \in Nat /\ a \in Nat
    BY <1>1, <1>3
  <2>2. t = <<s[a]>> \o SubSeq(s, a + 1, n)
    <3>1. \A i \in a .. n : s[i] \in Chars
      BY <2>1
    <3> HIDE DEF n, a
    <3> QED
      BY <2>1, <3>1, SubSeqRecursiveFirst
  <2>3. Head(t) = s[a] /\ Tail(t) = SubSeq(s, a + 1, n)
    <3>1. \A i \in a .. n : s[i] \in Chars
      BY <2>1
    <3> HIDE DEF n, a
    <3> QED
      BY <2>1, <3>1, HeadTailOfSubSeq
  <2>4. t # <<>>
    <3>1. t \in Seq(Chars) /\ Len(t) = n + 1 - a
      BY <2>1, FromElements DEF From
    <3> HIDE DEF t
    <3> QED
      BY <2>1, <3>1
  <2>5. t = From(s, k + 1) /\ SubSeq(s, a + 1, n) = From(s, (k + 1) + 1) /\ a = k + 1
    BY DEF From
  <2> HIDE DEF t, a, n
  <2>6. Next0(t) = s[a]
    BY <2>3, <2>4 DEF Next0
  <2> DEFINE u == From(s, k + 1)
             v == From(s, (k + 1) + 1)
  <2>7. s[a] = s[k + 1]
    BY <2>5
  <2>8. /\ u # <<>> /\ Head(u) = s[k + 1] /\ Tail(u) = v
        /\ Next0(u) = s[k + 1] /\ <<s[k + 1]>> \o v = u
    BY <2>2, <2>3, <2>4, <2>5, <2>6, <2>7, Zenon
  <2>9. k # Len(s)
    BY <1>1, <1>3
  <2> QED
    BY <2>8, <2>9, Zenon
<1> QED
  BY <1>1, <1>2, <1>3

\* A comment comes to its end, in a source that does.
LEMMA CommentCloses ==
  ASSUME NEW s \in Seq(Chars), St(s, Len(s)).mode = "word",
         NEW k \in 0 .. Len(s), k < Len(s), NEW m \in {"comment", "paren"},
         s[k + 1] # Closer(m), St(s, k + 1).mode = m, Qd(s, k + 1) = FALSE
  PROVE  \E e \in 0 .. Len(s) :
           /\ e < Len(s) /\ k + First(From(s, k + 1), Closer(m)) = e + 1
           /\ s[e + 1] = Closer(m) /\ Qd(s, e + 1) = FALSE
           /\ St(s, e + 1) = Interpret(St(s, k + 1), Closer(m))
           /\ From(From(s, k + 1), First(From(s, k + 1), Closer(m))) = From(s, e + 1)
           /\ From(From(s, k + 1), First(From(s, k + 1), Closer(m)) + 1) = From(s, (e + 1) + 1)
<1> DEFINE t == From(s, k + 1)
           c == Closer(m)
           p == First(t, c)
<1>1. /\ t \in Seq(Chars) /\ k + Len(t) = Len(s)
      /\ \A j \in 1 .. Len(t) : t[j] = s[k + j]
      /\ \A n \in 1 .. Len(t) + 1 : From(t, n) = From(s, k + n)
  BY FromParts
<1> HIDE DEF t
<1>2. PICK a \in Nat, b \in Nat : a = Len(t) /\ b = Len(s)
  BY <1>1
<1>3. k \in Nat /\ k < b /\ k + a = b
  BY <1>1, <1>2
<1>4. p \in 1 .. a + 1 /\ (p <= a => t[p] = c) /\ \A j \in 1 .. a : j < p => t[j] # c
  BY <1>1, <1>2, FirstPlace
<1> HIDE DEF c, p
<1>5. k + 1 \in 0 .. b /\ k + 1 <= b /\ b \in 0 .. b
  BY <1>3
<1>6. ASSUME NEW j \in 1 .. b, k < j, j < k + p PROVE s[j] # c
  <2>1. j - k \in 1 .. a /\ j - k < p /\ k + (j - k) = j
    BY <1>3, <1>4, <1>6
  <2>2. t[j - k] # c /\ t[j - k] = s[k + (j - k)]
    BY <1>1, <1>2, <1>4, <2>1
  <2> QED
    BY <2>1, <2>2
<1>7. ASSUME NEW l \in 0 .. b, k + 1 <= l, l < k + p
      PROVE  St(s, l) = St(s, k + 1) /\ Qd(s, l) = FALSE
  <2>1. \A j \in 1 .. Len(s) : k + 1 < j /\ j <= l => s[j] # Closer(m)
    BY <1>2, <1>3, <1>4, <1>6, <1>7 DEF c
  <2>2. k + 1 \in 0 .. Len(s) /\ l \in 0 .. Len(s)
    BY <1>2, <1>5
  <2> QED
    BY <1>7, <2>1, <2>2, InComment
<1>8. p <= a
  <2> SUFFICES ASSUME ~(p <= a) PROVE FALSE
    OBVIOUS
  <2>1. b < k + p
    BY <1>3, <1>4
  <2>2. St(s, b) = St(s, k + 1)
    BY <1>5, <1>7, <2>1
  <2> QED
    BY <1>2, <2>2
<1>9. p # 1
  <2>1. t[1] = s[k + 1]
    BY <1>1, <1>2, <1>3
  <2>2. s[k + 1] # c
    BY DEF c
  <2> QED
    BY <1>4, <1>8, <2>1, <2>2
<1> DEFINE e == k + p - 1
<1>10. /\ e \in 0 .. b /\ e < b /\ k + p = e + 1 /\ k + (p + 1) = (e + 1) + 1 /\ k + 1 <= e
       /\ e < k + p /\ p \in 1 .. a + 1 /\ p + 1 \in 1 .. a + 1
  BY <1>3, <1>4, <1>8, <1>9
<1> HIDE DEF e
<1>11. St(s, e) = St(s, k + 1) /\ Qd(s, e) = FALSE
  BY <1>7, <1>10
<1>12. s[e + 1] = c
  <2>1. p \in 1 .. Len(t)
    BY <1>2, <1>4, <1>8
  <2>2. t[p] = s[k + p] /\ t[p] = c
    BY <1>1, <1>4, <1>8, <2>1
  <2> QED
    BY <1>10, <2>2
<1>13. St(s, e + 1) = Interpret(St(s, k + 1), c) /\ Qd(s, e + 1) = FALSE
  <2>1. /\ St(s, e + 1) = Interpret(St(s, e), s[e + 1])
        /\ Qd(s, e + 1) = Quoted(St(s, e), Qd(s, e), s[e + 1])
    BY <1>2, <1>10, Goes
  <2>2. Qd(s, e + 1) = FALSE
    BY <1>11, <2>1 DEF Quoted
  <2> QED
    BY <1>11, <1>12, <2>1, <2>2
<1>14. From(t, p) = From(s, e + 1) /\ From(t, p + 1) = From(s, (e + 1) + 1)
  BY <1>1, <1>2, <1>10
<1>15. e \in 0 .. Len(s) /\ e < Len(s)
  BY <1>2, <1>10
<1> QED
  BY <1>10, <1>12, <1>13, <1>14, <1>15 DEF t, c, p

-----------------------------------------------------------------------------
(* compressf along a source. *)

LEMMA GotIs ==
  ASSUME NEW c, NEW i, NEW q
  PROVE  Got(c, i, q).ch = c /\ Got(c, i, q).inp = i /\ Got(c, i, q).quote = q
BY DEF Got

LEMMA EOFIs == EOF \notin Chars
BY DEF EOF, Chars, Spaces

LEMMA NextIs ==
  ASSUME NEW s \in Seq(Chars), NEW k \in 0 .. Len(s)
  PROVE  /\ Ahead(s, k, "sp") <=> Next0(From(s, k + 1)) = "sp"
         /\ Ahead(s, k, "nl") <=> Next0(From(s, k + 1)) = "nl"
         /\ Ahead(s, k, "tab") <=> Next0(From(s, k + 1)) = "tab"
<1> DEFINE n == Next0(From(s, k + 1))
<1>1. CASE k = Len(s)
  <2>1. n = EOF
    BY <1>1, FromNext DEF Next0
  <2>2. ~(k < Len(s))
    BY <1>1
  <2>3. EOF \notin {"sp", "nl", "tab"}
    BY EOFIs DEF Chars, Spaces
  <2> HIDE DEF n
  <2>4. n \notin {"sp", "nl", "tab"}
    BY <2>1, <2>3
  <2> QED
    BY <2>2, <2>4 DEF Ahead, n
<1>2. CASE k < Len(s)
  <2>1. n = s[k + 1]
    BY <1>2, FromNext
  <2> HIDE DEF n
  <2> QED
    BY <1>2, <2>1 DEF Ahead, n
<1> QED
  BY <1>1, <1>2

\* rdch0 behind k characters of the source.
LEMMA ReadsEnd ==
  ASSUME NEW s \in Seq(Chars), NEW k \in 0 .. Len(s), NEW q \in BOOLEAN, k = Len(s)
  PROVE  rdch0(From(s, k + 1), q) = Got(EOF, <<>>, q)
<1>1. From(s, k + 1) = <<>>
  BY FromNext
<1> QED
  BY <1>1 DEF rdch0

LEMMA ReadsOne ==
  ASSUME NEW s \in Seq(Chars), NEW k \in 0 .. Len(s), k < Len(s), NEW q \in BOOLEAN
  PROVE  LET i    == From(s, k + 1)
             c    == s[k + 1]
             rest == From(s, (k + 1) + 1)
             starts == Next0(rest) \in {"sp", "nl"}
             eol  == First(rest, "nl")
         IN  /\ c = "lp" /\ ~q /\ starts
                  => rdch0(i, q) = Got("sp", From(rest, First(rest, "rp") + 1), FALSE)
             /\ c = "bsl" /\ ~q /\ starts => rdch0(i, q) = Got("sp", From(rest, eol), FALSE)
             /\ c = "bsl" /\ q /\ Odd(SubSeq(rest, 1, eol - 1), "qt")
                  => rdch0(i, q) = Got("sp", From(rest, eol), FALSE)
             /\ c = "qt" => rdch0(i, q) = Got(c, rest, ~q)
             /\ c \notin {"lp", "bsl", "qt"} => rdch0(i, q) = Got(c, rest, q)
             /\ c \in {"lp", "bsl"} /\ ~q /\ ~starts => rdch0(i, q) = Got(c, rest, FALSE)
             /\ c = "lp" /\ q => rdch0(i, q) = Got(c, rest, TRUE)
<1> DEFINE i    == From(s, k + 1)
           c    == s[k + 1]
           rest == From(s, (k + 1) + 1)
           starts == Next0(rest) \in {"sp", "nl"}
           eol  == First(rest, "nl")
           odd  == Odd(SubSeq(rest, 1, eol - 1), "qt")
           q1   == q # (c = "qt")
           past == From(rest, First(rest, "rp") + 1)
           line == From(rest, eol)
<1>1. i # <<>> /\ Head(i) = c /\ Tail(i) = rest
  BY FromNext
<1>2. rdch0(i, q) =
        CASE c = "lp" /\ ~q1 /\ starts -> Got("sp", past, q1)
          [] ~q1 /\ c = "bsl" /\ starts -> Got("sp", line, q1)
          [] q1 /\ c = "bsl" -> Got("sp", line, q1 # odd)
          [] OTHER -> Got(c, rest, q1)
  BY <1>1 DEF rdch0
<1>3. odd \in BOOLEAN /\ starts \in BOOLEAN
  BY DEF Odd
<1> HIDE DEF i, c, rest, starts, odd, past, line, eol
<1>4. /\ c = "qt" => q1 = ~q
      /\ c # "qt" => q1 = q
  OBVIOUS
<1> HIDE DEF q1
<1>5. /\ c = "lp" /\ ~q /\ starts => rdch0(i, q) = Got("sp", past, FALSE)
      /\ c = "bsl" /\ ~q /\ starts => rdch0(i, q) = Got("sp", line, FALSE)
      /\ c = "bsl" /\ q /\ odd => rdch0(i, q) = Got("sp", line, FALSE)
      /\ c = "qt" => rdch0(i, q) = Got(c, rest, ~q)
      /\ c \notin {"lp", "bsl", "qt"} => rdch0(i, q) = Got(c, rest, q)
      /\ c \in {"lp", "bsl"} /\ ~q /\ ~starts => rdch0(i, q) = Got(c, rest, FALSE)
      /\ c = "lp" /\ q => rdch0(i, q) = Got(c, rest, TRUE)
  <2> DEFINE r == rdch0(i, q)
  <2> HIDE DEF r
  <2>1. r = CASE c = "lp" /\ ~q1 /\ starts -> Got("sp", past, q1)
              [] ~q1 /\ c = "bsl" /\ starts -> Got("sp", line, q1)
              [] q1 /\ c = "bsl" -> Got("sp", line, q1 # odd)
              [] OTHER -> Got(c, rest, q1)
    BY <1>2 DEF r
  <2>2. CASE c = "lp"
    <3>1. q1 = q
      BY <1>4, <2>2
    <3>2. ~q /\ starts => r = Got("sp", past, FALSE)
      BY <2>1, <2>2, <3>1
    <3>3. q \/ ~starts => r = Got(c, rest, q)
      BY <2>1, <2>2, <3>1
    <3>4. (~q => q = FALSE) /\ (q => q = TRUE)
      OBVIOUS
    <3> QED
      BY <2>2, <3>2, <3>3, <3>4 DEF r
  <2>3. CASE c = "bsl"
    <3>1. q1 = q
      BY <1>4, <2>3
    <3>2. ~q /\ starts => r = Got("sp", line, FALSE)
      BY <2>1, <2>3, <3>1
    <3>3. ~q /\ ~starts => r = Got(c, rest, FALSE)
      BY <2>1, <2>3, <3>1
    <3>4. q => r = Got("sp", line, q # odd)
      BY <2>1, <2>3, <3>1
    <3>5. q /\ odd => (q # odd) = FALSE
      BY <1>3
    <3>6. q /\ odd => r = Got("sp", line, FALSE)
      BY <3>4, <3>5
    <3> QED
      BY <2>3, <3>2, <3>3, <3>6 DEF r
  <2>4. CASE c \notin {"lp", "bsl"}
    <3>1. r = Got(c, rest, q1)
      BY <2>1, <2>4
    <3>2. c = "qt" => r = Got(c, rest, ~q)
      BY <1>4, <3>1
    <3>3. c # "qt" => r = Got(c, rest, q)
      BY <1>4, <3>1
    <3> QED
      BY <2>4, <3>2, <3>3 DEF r
  <2> QED
    BY <2>2, <2>3, <2>4
<1> QED
  BY <1>5 DEF i, c, rest, starts, odd, past, line, eol

\* The convention behind k characters.
LEMMA ConventionEnds ==
  ASSUME NEW s \in Seq(Chars), Conventional(s)
  PROVE  St(s, Len(s)).mode = "word" /\ Qd(s, Len(s)) = FALSE
<1>1. Len(s) \in 0 .. Len(s)
  OBVIOUS
<1>2. Qd(s, Len(s)) \in BOOLEAN
  BY <1>1, Along
<1> QED
  BY <1>2 DEF Conventional, St, Qd

LEMMA ConventionHolds ==
  ASSUME NEW s \in Seq(Chars), Conventional(s),
         NEW k \in 0 .. Len(s), k < Len(s), St(s, k).mode \in {"word", "string"}
  PROVE  LET rest == From(s, (k + 1) + 1)
         IN  /\ Qd(s, k) => InQuotes(St(s, k), s[k + 1], rest)
             /\ ~Qd(s, k) => Outside(St(s, k), s[k + 1], rest,
                                     k # 0 /\ St(s, k - 1).mode # "string")
<1>1. k + 1 \in 1 .. Len(s) /\ (k + 1) - 1 = k /\ (k + 1) - 2 = k - 1 /\ (k + 1 > 1 <=> k # 0)
  OBVIOUS
<1>2. IF Reading(s)[(k + 1) - 1].quoted
        THEN InQuotes(Reading(s)[(k + 1) - 1].st, s[k + 1], From(s, (k + 1) + 1))
        ELSE Outside(Reading(s)[(k + 1) - 1].st, s[k + 1], From(s, (k + 1) + 1),
                     k + 1 > 1 /\ Reading(s)[(k + 1) - 2].st.mode # "string")
  BY <1>1 DEF Conventional, St
<1>3. (k + 1 > 1 /\ Reading(s)[(k + 1) - 2].st.mode # "string")
        = (k # 0 /\ St(s, k - 1).mode # "string")
  BY <1>1 DEF St
<1> QED
  BY <1>1, <1>2, <1>3 DEF St, Qd

-----------------------------------------------------------------------------
(* Comments behind k characters: the space that stands for one. *)

LEMMA StartIs ==
  ASSUME NEW h \in Readers, Starts(h)
  PROVE  Interpret(h, "sp") = h
<1>1. h.mode = "word" /\ Ended(h) = h
  BY EndedIs DEF Starts
<1> QED
  BY <1>1, WordEnds DEF Spaces

\* Behind the comment word.
LEMMA CommentRead ==
  ASSUME NEW s \in Seq(Chars), NEW k \in 0 .. Len(s), k < Len(s),
         s[k + 1] \in {"lp", "bsl"}, Starts(St(s, k)), s[k + 1] = "lp" => Qd(s, k) = FALSE
  PROVE  Qd(s, k + 1) = FALSE /\ St(s, k + 1).mode = "word"
<1> DEFINE st == St(s, k)
           c == s[k + 1]
<1>1. St(s, k + 1) = Interpret(st, c) /\ Qd(s, k + 1) = Quoted(st, Qd(s, k), c)
  BY Goes
<1>2. st \in Readers /\ Qd(s, k) \in BOOLEAN
  BY Along
<1> HIDE DEF st, c
<1>3. Interpret(st, c).mode = "word"
  BY <1>2, CommentWord DEF st, c
<1>4. Quoted(st, Qd(s, k), c) = FALSE
  BY <1>2 DEF Quoted, st, c
<1> QED
  BY <1>1, <1>3, <1>4

LEMMA ParenSkips ==
  ASSUME NEW s \in Seq(Chars), St(s, Len(s)).mode = "word",
         NEW k \in 0 .. Len(s), k < Len(s),
         s[k + 1] = "lp", Next0(From(s, (k + 1) + 1)) \in {"sp", "nl"},
         Starts(St(s, k)), Qd(s, k) = FALSE,
         NEW h, Interpret(h, "sp") = St(s, k)
  PROVE  LET rest == From(s, (k + 1) + 1)
         IN  SkipsAt(s, h, From(rest, First(rest, "rp") + 1))
<1> DEFINE a == k + 1
           rest == From(s, a + 1)
           st == St(s, k)
<1>1. a \in 0 .. Len(s) /\ St(s, a) = Interpret(st, "lp")
  BY Goes
<1>2. Qd(s, a) = FALSE /\ St(s, a).mode = "word"
  BY CommentRead
<1>3. st \in Readers /\ Starts(st)
  BY Along
<1> HIDE DEF a
<1>4. a < Len(s) /\ s[a + 1] \in {"sp", "nl"}
  BY <1>1, NextIs DEF Ahead, a
<1>5. /\ St(s, a + 1) = Interpret(Interpret(st, "lp"), s[a + 1])
      /\ Qd(s, a + 1) = Quoted(St(s, a), Qd(s, a), s[a + 1])
  BY <1>1, <1>4, Goes
<1> HIDE DEF st
<1>6. St(s, a + 1).mode = "paren" /\ Interpret(St(s, a + 1), "rp") = st
  BY <1>3, <1>4, <1>5, ParenComment
<1>7. Qd(s, a + 1) = FALSE
  BY <1>2, <1>4, <1>5 DEF Quoted
<1>8. Closer("paren") = "rp" /\ s[a + 1] # "rp"
  BY <1>4 DEF Closer
<1>9. PICK e \in 0 .. Len(s) :
        /\ e < Len(s) /\ Qd(s, e + 1) = FALSE
        /\ St(s, e + 1) = Interpret(St(s, a + 1), "rp")
        /\ From(rest, First(rest, "rp") + 1) = From(s, (e + 1) + 1)
  BY <1>1, <1>4, <1>6, <1>7, <1>8, CommentCloses
<1>10. e + 1 \in 0 .. Len(s)
  BY <1>9
<1>11. AtStart(st)
  BY <1>3 DEF Starts, AtStart
<1>12. Between(s, e + 1, h)
  BY <1>6, <1>9, <1>11 DEF Between, st
<1>13. SkipsAt(s, h, From(rest, First(rest, "rp") + 1))
  BY <1>9, <1>10, <1>12 DEF SkipsAt
<1> QED
  BY <1>13 DEF a

LEMMA LineSkips ==
  ASSUME NEW s \in Seq(Chars), St(s, Len(s)).mode = "word",
         NEW k \in 0 .. Len(s), k < Len(s),
         s[k + 1] = "bsl", Next0(From(s, (k + 1) + 1)) \in Spaces,
         Starts(St(s, k)),
         NEW h, Interpret(h, "sp") = St(s, k)
  PROVE  LET rest == From(s, (k + 1) + 1)
         IN  SkipsAt(s, h, From(rest, First(rest, "nl")))
<1> DEFINE a == k + 1
           rest == From(s, a + 1)
           st == St(s, k)
<1>1. a \in 0 .. Len(s) /\ St(s, a) = Interpret(st, "bsl")
  BY Goes
<1>2. Qd(s, a) = FALSE /\ St(s, a).mode = "word"
  BY CommentRead
<1>3. st \in Readers /\ Starts(st)
  BY Along
<1> HIDE DEF a
<1>4. a < Len(s) /\ s[a + 1] \in Spaces
  BY <1>1, NextIs DEF Ahead, Spaces, a
<1>5. /\ St(s, a + 1) = Interpret(Interpret(st, "bsl"), s[a + 1])
      /\ Qd(s, a + 1) = Quoted(St(s, a), Qd(s, a), s[a + 1])
  BY <1>1, <1>4, Goes
<1> HIDE DEF st
<1>6. Qd(s, a + 1) = FALSE
  BY <1>2, <1>4, <1>5 DEF Quoted, Spaces
<1>7. \E e \in 0 .. Len(s) :
        /\ e < Len(s) /\ s[e + 1] = "nl" /\ Qd(s, e + 1) = FALSE /\ St(s, e + 1) = st
        /\ From(rest, First(rest, "nl")) = From(s, e + 1)
  <2>1. CASE s[a + 1] = "nl"
    <3>1. St(s, a + 1) = st
      BY <1>3, <1>5, <2>1, LineComment
    <3>2. First(rest, "nl") = 1
      <4>1. /\ rest \in Seq(Chars) /\ a + Len(rest) = Len(s)
            /\ \A j \in 1 .. Len(rest) : rest[j] = s[a + j]
        BY <1>1, FromParts
      <4> HIDE DEF rest
      <4>2. Len(rest) \in Nat /\ Len(s) \in Nat
        BY <4>1
      <4>3. 1 \in 1 .. Len(rest)
        BY <1>1, <1>4, <4>1, <4>2
      <4>4. rest[1] = "nl"
        BY <2>1, <4>1, <4>3
      <4>5. First(rest, "nl") \in Nat \ {0} /\ ~(1 < First(rest, "nl"))
        BY <4>1, <4>3, <4>4, FirstPlace, FirstIs
      <4> QED
        BY <4>5
    <3>3. From(rest, 1) = From(s, a + 1)
      <4>1. 1 \in 1 .. Len(rest) + 1 /\ From(rest, 1) = From(s, a + 1)
        BY <1>1, FromParts
      <4> QED
        BY <4>1
    <3> QED
      BY <1>1, <1>4, <1>6, <2>1, <3>1, <3>2, <3>3
  <2>2. CASE s[a + 1] # "nl"
    <3>1. s[a + 1] \in {"sp", "tab"}
      BY <1>4, <2>2 DEF Spaces
    <3>2. St(s, a + 1).mode = "comment" /\ Interpret(St(s, a + 1), "nl") = st
      BY <1>3, <1>5, <3>1, LineComment
    <3>3. Closer("comment") = "nl"
      BY DEF Closer
    <3>4. PICK e \in 0 .. Len(s) :
            /\ e < Len(s) /\ s[e + 1] = "nl" /\ Qd(s, e + 1) = FALSE
            /\ St(s, e + 1) = Interpret(St(s, a + 1), "nl")
            /\ From(rest, First(rest, "nl")) = From(s, e + 1)
      <4> DEFINE m == "comment"
                 c == Closer(m)
      <4>1. m \in {"comment", "paren"} /\ s[a + 1] # c /\ St(s, a + 1).mode = m
        BY <2>2, <3>2, <3>3
      <4>2. c = "nl"
        BY <3>3
      <4> HIDE DEF m
      <4>3. \E e \in 0 .. Len(s) :
              /\ e < Len(s) /\ s[e + 1] = c /\ Qd(s, e + 1) = FALSE
              /\ St(s, e + 1) = Interpret(St(s, a + 1), c)
              /\ From(rest, First(rest, c)) = From(s, e + 1)
        BY <1>1, <1>4, <1>6, <4>1, CommentCloses
      <4> HIDE DEF c
      <4> QED
        BY <4>2, <4>3
    <3> QED
      BY <3>2, <3>4
  <2> QED
    BY <2>1, <2>2
<1>8. PICK e \in 0 .. Len(s) :
        /\ e < Len(s) /\ s[e + 1] = "nl" /\ Qd(s, e + 1) = FALSE /\ St(s, e + 1) = st
        /\ From(rest, First(rest, "nl")) = From(s, e + 1)
  BY <1>7
<1>9. AtStart(st)
  BY <1>3 DEF Starts, AtStart
<1>10. Between(s, e + 1, h) /\ Ahead(s, e, "nl")
  BY <1>8, <1>9 DEF Between, st, Ahead
<1>11. SkipsAt(s, h, From(rest, First(rest, "nl")))
  BY <1>8, <1>10 DEF SkipsAt
<1> QED
  BY <1>11 DEF a

-----------------------------------------------------------------------------
(* One character of compressf. *)

\* What rdch0 gave in rdch1: the end, white space outside quotes, or a character to write.
ReadOn(s, h, r) ==
  \/ r.ch = EOF /\ ~r.quote /\ h = ReaderOf(s)
  \/ r.ch \in Spaces /\ ~r.quote /\ SkipsAt(s, h, r.inp)
  \/ /\ r.ch \in Chars \ {"nl"} /\ (r.ch \in Spaces => r.quote)
     /\ ReadsAt(s, Interpret(h, r.ch), r.inp, r.quote)

LEMMA LastOf ==
  ASSUME NEW w \in Seq(Chars), NEW c \in Chars, NEW d \in Chars
  PROVE  Append(w, c) = <<d>> => c = d
<1> DEFINE v == Append(w, c)
           u == <<d>>
<1>1. Len(v) = Len(w) + 1 /\ v[Len(w) + 1] = c /\ Len(w) \in Nat
  BY AppendProperties
<1>2. Len(u) = 1 /\ u[1] = d
  OBVIOUS
<1> HIDE DEF u, v
<1>3. ASSUME v = u PROVE c = d
  <2>1. Len(w) + 1 = 1
    BY <1>1, <1>2, <1>3
  <2>2. Len(w) = 0
    BY <1>1, <2>1
  <2> QED
    BY <1>1, <1>2, <1>3, <2>1
<1> QED
  BY <1>3 DEF u, v

\* A character is written and the next step is as before.
LEMMA StepsOn ==
  ASSUME NEW s \in Seq(Chars), NEW k \in 0 .. Len(s), k < Len(s),
         NEW q \in BOOLEAN, q = Qd(s, k + 1),
         St(s, k + 1).mode \in {"word", "string"},
         \/ q
         \/ St(s, k).mode = "string" /\ s[k + 1] = "qt"
         \/ /\ St(s, k).mode = "word" /\ s[k + 1] \notin Spaces
            /\ s[k + 1] \in {"lp", "bsl"} => Next0(From(s, (k + 1) + 1)) \notin {"sp", "nl"}
  PROVE  ReadsAt(s, Interpret(St(s, k), s[k + 1]), From(s, (k + 1) + 1), q)
<1> DEFINE a == k + 1
           h == Interpret(St(s, k), s[k + 1])
           i == From(s, a + 1)
<1>1. /\ a \in 0 .. Len(s) /\ s[k + 1] \in Chars /\ h = St(s, a)
      /\ a - 1 = k /\ a # 0
  BY Goes
<1>2. St(s, k) \in Readers
  BY Along
<1>3. CASE q
  <2>1. InStep(s, a, h, q)
    BY <1>1, <1>3 DEF InStep
  <2> QED
    BY <1>1, <2>1 DEF ReadsAt
<1>4. CASE St(s, k).mode = "string" /\ s[k + 1] = "qt"
  <2>1. AtStart(h)
    BY <1>1, <1>2, <1>4, StringGoesOn
  <2>2. h.cur \notin {<<"lp">>, <<"bsl">>}
    <3>1. h.cur = <<>>
      BY <2>1 DEF AtStart
    <3> QED
      BY <3>1
  <2> HIDE DEF a, h
  <2>3. InStep(s, a, h, q)
    BY <1>1, <1>4, <2>2 DEF InStep, a
  <2> QED
    BY <1>1, <2>3 DEF ReadsAt, a, h
<1>5. CASE /\ St(s, k).mode = "word" /\ s[k + 1] \notin Spaces
           /\ s[k + 1] \in {"lp", "bsl"} => Next0(i) \notin {"sp", "nl"}
  <2>1. h.cur = Append(St(s, k).cur, s[k + 1])
    BY <1>1, <1>2, <1>5, WordGrows
  <2>2. St(s, k).cur \in Seq(Chars)
    BY <1>2, ReaderIs
  <2>3. ~AtStart(h)
    <3>1. h.cur # <<>>
      BY <1>1, <2>1, <2>2
    <3> QED
      BY <3>1 DEF AtStart
  <2>4. ASSUME h.cur \in {<<"lp">>, <<"bsl">>}
        PROVE  ~Ahead(s, a, "sp") /\ ~Ahead(s, a, "nl")
    <3>1. s[k + 1] \in {"lp", "bsl"}
      <4>1. "lp" \in Chars /\ "bsl" \in Chars
        BY DEF Chars
      <4>2. PICK d \in {"lp", "bsl"} : h.cur = <<d>>
        BY <2>4
      <4>3. Append(St(s, k).cur, s[k + 1]) = <<d>>
        BY <2>1, <4>2
      <4> HIDE DEF h
      <4>4. s[k + 1] = d
        BY <1>1, <2>2, <4>1, <4>2, <4>3, LastOf
      <4> QED
        BY <4>4
    <3>2. Next0(i) \notin {"sp", "nl"}
      BY <1>5, <3>1
    <3> QED
      BY <1>1, <3>2, NextIs
  <2> HIDE DEF a, h
  <2>5. InStep(s, a, h, q)
    BY <1>1, <2>3, <2>4 DEF InStep, a
  <2> QED
    BY <1>1, <2>5 DEF ReadsAt, a, h
<1> QED
  BY <1>3, <1>4, <1>5

\* A line comment or a parenthesis, or one character, becomes what ReadOn says.
LEMMA ReadsSpace ==
  ASSUME NEW s, NEW h, NEW i, SkipsAt(s, h, i), NEW c \in Spaces
  PROVE  ReadOn(s, h, Got(c, i, FALSE))
<1> DEFINE r == Got(c, i, FALSE)
<1>1. r.ch = c /\ r.inp = i /\ r.quote = FALSE
  BY DEF Got
<1> HIDE DEF r
<1>2. r.ch \in Spaces /\ ~r.quote /\ SkipsAt(s, h, r.inp)
  BY <1>1
<1>3. ReadOn(s, h, r)
  BY <1>2 DEF ReadOn
<1> QED
  BY <1>3 DEF r

LEMMA ReadsChar ==
  ASSUME NEW s, NEW h, NEW i, NEW c \in Chars \ {"nl"}, NEW q, c \in Spaces => q,
         ReadsAt(s, Interpret(h, c), i, q)
  PROVE  ReadOn(s, h, Got(c, i, q))
BY GotIs DEF ReadOn

\* In quotes.
LEMMA ReadsQuoted ==
  ASSUME NEW s \in Seq(Chars), Conventional(s),
         NEW k \in 0 .. Len(s), k < Len(s),
         St(s, k).mode \in {"word", "string"}, Qd(s, k) = TRUE
  PROVE  ReadOn(s, St(s, k), rdch0(From(s, k + 1), TRUE))
<1> DEFINE h == St(s, k)
           c == s[k + 1]
           rest == From(s, (k + 1) + 1)
           r == rdch0(From(s, k + 1), TRUE)
<1>1. InQuotes(h, c, rest)
  BY ConventionHolds
<1>2. /\ c \in Chars /\ St(s, k + 1) = Interpret(h, c)
      /\ Qd(s, k + 1) = Quoted(h, TRUE, c)
  BY Goes
<1>3. h \in Readers
  BY Along
<1>4. /\ c = "bsl" /\ Odd(SubSeq(rest, 1, First(rest, "nl") - 1), "qt")
             => r = Got("sp", From(rest, First(rest, "nl")), FALSE)
      /\ c = "qt" => r = Got(c, rest, FALSE)
      /\ c \notin {"bsl", "qt"} => r = Got(c, rest, TRUE)
  <2>1. TRUE \in BOOLEAN
    OBVIOUS
  <2>2. /\ c = "bsl" /\ Odd(SubSeq(rest, 1, First(rest, "nl") - 1), "qt")
               => r = Got("sp", From(rest, First(rest, "nl")), FALSE)
        /\ c = "qt" => r = Got(c, rest, ~TRUE)
        /\ c \notin {"lp", "bsl", "qt"} => r = Got(c, rest, TRUE)
        /\ c = "lp" => r = Got(c, rest, TRUE)
    BY <2>1, ReadsOne
  <2> HIDE DEF r, c, rest
  <2> QED
    BY <2>2
<1>5. CASE c = "qt"
  <2>1. Qd(s, k + 1) = FALSE
    BY <1>2, <1>5 DEF Quoted
  <2>2. St(s, k + 1).mode \in {"word", "string"}
    <3>1. CASE h.mode = "word"
      BY <1>2, <1>3, <1>5, <3>1, WordGrows DEF Spaces
    <3>2. CASE h.mode = "string"
      BY <1>2, <1>3, <1>5, <3>2, StringGoesOn DEF AtStart
    <3> QED
      BY <3>1, <3>2
  <2>3. ReadsAt(s, Interpret(h, c), rest, FALSE)
    BY <1>5, <2>1, <2>2, StepsOn DEF Spaces
  <2> HIDE DEF h, c, rest, r
  <2> QED
    BY <1>2, <1>4, <1>5, <2>3, ReadsChar DEF Spaces, r, h
<1>6. CASE c = "bsl"
  <2>1. /\ Starts(h) /\ Next0(rest) \in Spaces
        /\ Odd(SubSeq(rest, 1, First(rest, "nl") - 1), "qt")
    BY <1>1, <1>6 DEF InQuotes
  <2>2. Interpret(h, "sp") = h
    BY <1>3, <2>1, StartIs
  <2>3. SkipsAt(s, h, From(rest, First(rest, "nl")))
    BY <1>6, <2>1, <2>2, ConventionEnds, LineSkips
  <2>4. r = Got("sp", From(rest, First(rest, "nl")), FALSE)
    BY <1>4, <1>6, <2>1
  <2> HIDE DEF h, c, rest, r
  <2> QED
    BY <2>3, <2>4, ReadsSpace DEF r, h, Spaces
<1>7. CASE c \notin {"qt", "bsl"}
  <2>1. c # "nl" /\ (c \in Spaces /\ h.mode = "word" => Ended(h).mode \in {"word", "string"})
    BY <1>1 DEF InQuotes
  <2>2. Qd(s, k + 1) = TRUE
    BY <1>2, <1>7 DEF Quoted
  <2>3. St(s, k + 1).mode \in {"word", "string"}
    <3>1. CASE h.mode = "word" /\ c \notin Spaces
      BY <1>2, <1>3, <3>1, WordGrows
    <3>2. CASE h.mode = "word" /\ c \in Spaces
      <4>1. Interpret(h, c) = Ended(h)
        BY <2>1, <3>2 DEF Interpret
      <4> QED
        BY <1>2, <2>1, <3>2, <4>1
    <3>3. CASE h.mode = "string"
      BY <1>2, <1>3, <1>7, <3>3, StringGoesOn
    <3> QED
      BY <3>1, <3>2, <3>3
  <2>4. ReadsAt(s, Interpret(h, c), rest, TRUE)
    BY <2>2, <2>3, StepsOn
  <2> HIDE DEF h, c, rest, r
  <2> QED
    BY <1>2, <1>4, <1>7, <2>1, <2>4, ReadsChar DEF r, h
<1> QED
  BY <1>5, <1>6, <1>7

\* Outside, behind what is no white space.
LEMMA ReadsUnquoted ==
  ASSUME NEW s \in Seq(Chars), Conventional(s),
         NEW k \in 0 .. Len(s), k < Len(s), InStep(s, k, St(s, k), FALSE)
  PROVE  ReadOn(s, St(s, k), rdch0(From(s, k + 1), FALSE))
<1> DEFINE h == St(s, k)
           c == s[k + 1]
           rest == From(s, (k + 1) + 1)
           r == rdch0(From(s, k + 1), FALSE)
           starts == Next0(rest) \in {"sp", "nl"}
<1>1. /\ h.mode \in {"word", "string"} /\ Qd(s, k) = FALSE
      /\ AtStart(h) /\ c = "qt" => k = 0 \/ St(s, k - 1).mode = "string"
      /\ h.cur \in {<<"lp">>, <<"bsl">>} /\ ~h.name => c \notin {"sp", "nl"}
  BY DEF InStep, Ahead
<1>2. Outside(h, c, rest, k # 0 /\ St(s, k - 1).mode # "string")
  BY <1>1, ConventionHolds
<1>3. /\ h.mode = "word"
      /\ c \in {"lp", "bsl"} /\ starts => Starts(h)
      /\ c \in Spaces /\ Ended(h).mode # "word" => h.cur \in {<<"lp">>, <<"bsl">>} /\ c # "tab"
      /\ c = "qt" => h.cur # <<>>
  BY <1>1, <1>2 DEF Outside, AtStart
<1>4. /\ c \in Chars /\ St(s, k + 1) = Interpret(h, c)
      /\ Qd(s, k + 1) = Quoted(h, FALSE, c)
  BY <1>1, Goes
<1>5. h \in Readers
  BY Along
<1>6. /\ c = "lp" /\ starts => r = Got("sp", From(rest, First(rest, "rp") + 1), FALSE)
      /\ c = "bsl" /\ starts => r = Got("sp", From(rest, First(rest, "nl")), FALSE)
      /\ c = "qt" => r = Got(c, rest, TRUE)
      /\ c # "qt" /\ ~(c \in {"lp", "bsl"} /\ starts) => r = Got(c, rest, FALSE)
  <2>1. FALSE \in BOOLEAN
    OBVIOUS
  <2>2. /\ c = "lp" /\ starts => r = Got("sp", From(rest, First(rest, "rp") + 1), FALSE)
        /\ c = "bsl" /\ starts => r = Got("sp", From(rest, First(rest, "nl")), FALSE)
        /\ c = "qt" => r = Got(c, rest, ~FALSE)
        /\ c \notin {"lp", "bsl", "qt"} => r = Got(c, rest, FALSE)
        /\ c \in {"lp", "bsl"} /\ ~starts => r = Got(c, rest, FALSE)
    BY <2>1, ReadsOne
  <2> HIDE DEF r, c, rest, starts
  <2> QED
    BY <2>2
<1>7. CASE c = "qt"
  <2>1. Qd(s, k + 1) = TRUE
    BY <1>3, <1>4, <1>7 DEF Quoted
  <2>2. St(s, k + 1).mode = "word"
    BY <1>3, <1>4, <1>5, <1>7, WordGrows DEF Spaces
  <2>3. ReadsAt(s, Interpret(h, c), rest, TRUE)
    BY <2>1, <2>2, StepsOn
  <2> HIDE DEF h, c, rest, r
  <2> QED
    BY <1>4, <1>6, <1>7, <2>3, ReadsChar DEF Spaces, r, h
<1>8. CASE c \in {"lp", "bsl"} /\ starts
  <2>1. Starts(h) /\ Interpret(h, "sp") = h
    BY <1>3, <1>5, <1>8, StartIs
  <2>2. CASE c = "lp"
    <3>1. SkipsAt(s, h, From(rest, First(rest, "rp") + 1))
      BY <1>1, <1>8, <2>1, <2>2, ConventionEnds, ParenSkips
    <3>2. r = Got("sp", From(rest, First(rest, "rp") + 1), FALSE)
      BY <1>6, <1>8, <2>2
    <3> HIDE DEF h, c, rest, r
    <3> QED
      BY <3>1, <3>2, ReadsSpace DEF r, h, Spaces
  <2>3. CASE c = "bsl"
    <3>1. SkipsAt(s, h, From(rest, First(rest, "nl")))
      BY <1>8, <2>1, <2>3, ConventionEnds, LineSkips DEF Spaces
    <3>2. r = Got("sp", From(rest, First(rest, "nl")), FALSE)
      BY <1>6, <1>8, <2>3
    <3> HIDE DEF h, c, rest, r
    <3> QED
      BY <3>1, <3>2, ReadsSpace DEF r, h, Spaces
  <2> QED
    BY <1>8, <2>2, <2>3
<1>9. CASE c \in Spaces
  <2>1. c # "qt" /\ c \notin {"lp", "bsl"}
    BY <1>9 DEF Spaces
  <2>2. Ended(h).mode = "word"
    <3> SUFFICES ASSUME Ended(h).mode # "word" PROVE FALSE
      OBVIOUS
    <3>1. h.cur \in {<<"lp">>, <<"bsl">>} /\ c # "tab"
      BY <1>3, <1>9
    <3>2. ~h.name
      BY <1>3, <1>5, EndedIs
    <3> QED
      BY <1>1, <1>9, <3>1, <3>2 DEF Spaces
  <2>3. Interpret(h, c) = Ended(h) /\ Interpret(h, "sp") = Ended(h)
    BY <1>3, <1>5, <1>9, <2>2, WordEnds
  <2>4. AtStart(Ended(h))
    BY <1>3, <1>5, <2>2, EndedIs DEF AtStart
  <2>5. Qd(s, k + 1) = FALSE
    BY <1>4, <2>1 DEF Quoted
  <2>6. Between(s, k + 1, h)
    BY <1>4, <2>3, <2>4, <2>5 DEF Between
  <2>7. SkipsAt(s, h, rest)
    <3>1. k + 1 \in 0 .. Len(s)
      OBVIOUS
    <3> QED
      BY <2>6, <3>1 DEF SkipsAt
  <2>8. r = Got(c, rest, FALSE)
    BY <1>6, <2>1
  <2> HIDE DEF h, c, rest, r
  <2> QED
    BY <1>9, <2>7, <2>8, ReadsSpace DEF r, h
<1>10. CASE c # "qt" /\ c \notin Spaces /\ ~(c \in {"lp", "bsl"} /\ starts)
  <2>1. Qd(s, k + 1) = FALSE
    BY <1>4, <1>10 DEF Quoted
  <2>2. St(s, k + 1).mode = "word"
    BY <1>3, <1>4, <1>5, <1>10, WordGrows
  <2>3. ReadsAt(s, Interpret(h, c), rest, FALSE)
    BY <1>3, <1>10, <2>1, <2>2, StepsOn
  <2> HIDE DEF h, c, rest, r, starts
  <2> QED
    BY <1>4, <1>6, <1>10, <2>3, ReadsChar DEF Spaces, r, h
<1> QED
  BY <1>7, <1>8, <1>9, <1>10

\* The quote that was put back.
LEMMA ReadsPutBack ==
  ASSUME NEW s \in Seq(Chars), NEW k \in 0 .. Len(s), PutBack(s, k, St(s, k), TRUE)
  PROVE  ReadOn(s, St(s, k), rdch0(From(s, k + 1), TRUE))
<1> DEFINE h == St(s, k)
           c == s[k + 1]
           rest == From(s, (k + 1) + 1)
           r == rdch0(From(s, k + 1), TRUE)
<1>1. k < Len(s) /\ c = "qt" /\ ~Qd(s, k) /\ h.mode = "word" /\ h.cur = <<>>
  BY DEF PutBack, Ahead, AtStart
<1>2. /\ c \in Chars /\ St(s, k + 1) = Interpret(h, c)
      /\ Qd(s, k + 1) = Quoted(h, Qd(s, k), c)
  BY <1>1, Goes
<1>3. h \in Readers
  BY Along
<1>4. Qd(s, k + 1) = FALSE
  BY <1>1, <1>2 DEF Quoted
<1>5. St(s, k + 1).mode = "word"
  BY <1>1, <1>2, <1>3, WordGrows DEF Spaces
<1>6. ReadsAt(s, Interpret(h, c), rest, FALSE)
  BY <1>1, <1>4, <1>5, StepsOn DEF Spaces
<1>7. r = Got(c, rest, FALSE)
  <2>1. TRUE \in BOOLEAN
    OBVIOUS
  <2>2. c = "qt" => r = Got(c, rest, ~TRUE)
    BY <1>1, <2>1, ReadsOne
  <2> HIDE DEF r, c, rest
  <2> QED
    BY <1>1, <2>2
<1> HIDE DEF h, c, rest, r
<1> QED
  BY <1>1, <1>2, <1>6, <1>7, ReadsChar DEF Spaces, r, h

LEMMA Reads ==
  ASSUME NEW s \in Seq(Chars), Conventional(s), NEW h, NEW i, NEW q \in BOOLEAN, ReadsAt(s, h, i, q)
  PROVE  ReadOn(s, h, rdch0(i, q))
<1>1. PICK k \in 0 .. Len(s) :
        i = From(s, k + 1) /\ (InStep(s, k, h, q) \/ PutBack(s, k, h, q))
  BY DEF ReadsAt
<1>2. h = St(s, k)
  BY <1>1 DEF InStep, PutBack
<1>3. CASE PutBack(s, k, h, q)
  <2>1. q = TRUE
    BY <1>3 DEF PutBack
  <2> QED
    BY <1>1, <1>2, <1>3, <2>1, ReadsPutBack
<1>4. CASE InStep(s, k, h, q)
  <2>1. /\ St(s, k).mode \in {"word", "string"} /\ Qd(s, k) = q
    BY <1>2, <1>4 DEF InStep
  <2>2. CASE k = Len(s)
    <3> DEFINE r == rdch0(i, q)
    <3>1. r = Got(EOF, <<>>, q)
      BY <1>1, <2>2, ReadsEnd
    <3>2. q = FALSE /\ h = ReaderOf(s)
      BY <1>2, <2>1, <2>2, ConventionEnds, ReaderOfIs
    <3>3. r.ch = EOF /\ r.quote = q
      BY <3>1, GotIs
    <3> HIDE DEF r
    <3>4. ReadOn(s, h, r)
      BY <3>2, <3>3 DEF ReadOn
    <3> QED
      BY <3>4 DEF r
  <2>3. CASE k < Len(s) /\ q = TRUE
    BY <1>1, <1>2, <2>1, <2>3, ReadsQuoted
  <2>4. CASE k < Len(s) /\ q = FALSE
    BY <1>1, <1>2, <1>4, <2>4, ReadsUnquoted
  <2>5. Len(s) \in Nat /\ (k = Len(s) \/ k < Len(s))
    OBVIOUS
  <2>6. q = TRUE \/ q = FALSE
    OBVIOUS
  <2> QED
    BY <2>2, <2>3, <2>4, <2>5, <2>6
<1> QED
  BY <1>1, <1>3, <1>4

\* What rdch0 gave behind white space: more of it, or what is put back.
SkipOn(s, h, r) ==
  \/ r.ch \in Spaces /\ ~r.quote /\ SkipsAt(s, h, r.inp)
  \/ /\ r.ch \notin Spaces
     /\ ReadsAt(s, Interpret(h, "sp"),
                IF r.ch = EOF THEN r.inp ELSE <<r.ch>> \o r.inp, r.quote)

LEMMA SkipsSpace ==
  ASSUME NEW s, NEW h, NEW i, SkipsAt(s, h, i), NEW c \in Spaces
  PROVE  SkipOn(s, h, Got(c, i, FALSE))
<1> DEFINE r == Got(c, i, FALSE)
<1>1. r.ch = c /\ r.inp = i /\ r.quote = FALSE
  BY DEF Got
<1> HIDE DEF r
<1>2. r.ch \in Spaces /\ ~r.quote /\ SkipsAt(s, h, r.inp)
  BY <1>1
<1>3. SkipOn(s, h, r)
  BY <1>2 DEF SkipOn
<1> QED
  BY <1>3 DEF r

LEMMA SkipsChar ==
  ASSUME NEW s, NEW h, NEW i, NEW q, NEW c \in Chars \ Spaces,
         ReadsAt(s, Interpret(h, "sp"), <<c>> \o i, q)
  PROVE  SkipOn(s, h, Got(c, i, q))
<1> DEFINE r == Got(c, i, q)
           j == <<c>> \o i
<1>1. r.ch = c /\ r.inp = i /\ r.quote = q
  BY GotIs
<1>2. c # EOF
  BY EOFIs
<1> HIDE DEF r
<1>3. (IF r.ch = EOF THEN r.inp ELSE <<r.ch>> \o r.inp) = j
  BY <1>1, <1>2
<1> HIDE DEF j
<1>4. SkipOn(s, h, r)
  <2>1. r.ch \notin Spaces /\ ReadsAt(s, Interpret(h, "sp"), j, r.quote)
    BY <1>1 DEF j
  <2> QED
    BY <1>3, <2>1 DEF SkipOn
<1> QED
  BY <1>4 DEF r

\* Behind a comment and its newline, or before the newline of a line comment.
LEMMA SkipsBetween ==
  ASSUME NEW s \in Seq(Chars), Conventional(s),
         NEW k \in 0 .. Len(s), NEW h, Between(s, k, h)
  PROVE  SkipOn(s, h, rdch0(From(s, k + 1), FALSE))
<1> DEFINE g == St(s, k)
           c == s[k + 1]
           rest == From(s, (k + 1) + 1)
           i == From(s, k + 1)
           r == rdch0(i, FALSE)
           starts == Next0(rest) \in {"sp", "nl"}
<1>1. /\ g.mode = "word" /\ g.cur = <<>> /\ ~Qd(s, k) /\ g = Interpret(h, "sp")
      /\ AtStart(g)
  BY DEF Between, AtStart
<1>2. g \in Readers /\ Qd(s, k) \in BOOLEAN
  BY Along
<1>3. Ended(g) = g
  BY <1>1, <1>2, EndedIs
<1>4. CASE k = Len(s)
  <2>1. r = Got(EOF, <<>>, FALSE)
    BY <1>4, ReadsEnd
  <2>2. i = <<>>
    BY <1>4, FromNext
  <2>3. InStep(s, k, g, FALSE)
    <3>1. \A d : ~Ahead(s, k, d)
      BY <1>4 DEF Ahead
    <3>2. Qd(s, k) = FALSE
      BY <1>1, <1>2
    <3> HIDE DEF g
    <3> QED
      BY <1>1, <3>1, <3>2 DEF InStep, g
  <2>4. ReadsAt(s, Interpret(h, "sp"), i, FALSE)
    BY <1>1, <2>3 DEF ReadsAt
  <2>5. r.ch = EOF /\ r.inp = i /\ r.quote = FALSE
    <3>1. r = Got(EOF, i, FALSE)
      BY <2>1, <2>2
    <3> HIDE DEF r, i
    <3> QED
      BY <3>1 DEF Got
  <2>6. EOF \notin Spaces
    BY EOFIs DEF Chars
  <2> HIDE DEF r, i
  <2>7. SkipOn(s, h, r)
    BY <2>4, <2>5, <2>6 DEF SkipOn
  <2> QED
    BY <2>7 DEF r, i
<1>5. CASE k < Len(s)
  <2>1. /\ c \in Chars /\ St(s, k + 1) = Interpret(g, c) /\ k + 1 \in 0 .. Len(s)
        /\ Qd(s, k + 1) = Quoted(g, Qd(s, k), c)
    BY <1>5, Goes
  <2>2. Outside(g, c, rest, k # 0 /\ St(s, k - 1).mode # "string")
    BY <1>1, <1>5, ConventionHolds
  <2>3. c \in {"lp", "bsl"} /\ starts => Starts(g)
    BY <2>2 DEF Outside
  <2>4. <<c>> \o rest = i
    BY <1>5, FromNext
  <2>5. /\ c = "lp" /\ starts => r = Got("sp", From(rest, First(rest, "rp") + 1), FALSE)
        /\ c = "bsl" /\ starts => r = Got("sp", From(rest, First(rest, "nl")), FALSE)
        /\ c = "qt" => r = Got(c, rest, TRUE)
        /\ c # "qt" /\ ~(c \in {"lp", "bsl"} /\ starts) => r = Got(c, rest, FALSE)
    <3>1. FALSE \in BOOLEAN
      OBVIOUS
    <3>2. /\ c = "lp" /\ starts => r = Got("sp", From(rest, First(rest, "rp") + 1), FALSE)
          /\ c = "bsl" /\ starts => r = Got("sp", From(rest, First(rest, "nl")), FALSE)
          /\ c = "qt" => r = Got(c, rest, ~FALSE)
          /\ c \notin {"lp", "bsl", "qt"} => r = Got(c, rest, FALSE)
          /\ c \in {"lp", "bsl"} /\ ~starts => r = Got(c, rest, FALSE)
      BY <1>5, <3>1, ReadsOne
    <3> HIDE DEF r, c, rest, starts
    <3> QED
      BY <3>2
  <2>6. CASE c \in Spaces
    <3>1. Interpret(g, c) = g
      BY <1>1, <1>2, <1>3, <2>6, WordEnds
    <3>2. ~Qd(s, k + 1)
      BY <1>1, <2>1, <2>6 DEF Quoted, Spaces
    <3>3. Between(s, k + 1, h)
      BY <1>1, <2>1, <3>1, <3>2 DEF Between
    <3>4. SkipsAt(s, h, rest)
      BY <2>1, <3>3 DEF SkipsAt
    <3>5. r = Got(c, rest, FALSE)
      BY <2>5, <2>6 DEF Spaces
    <3> HIDE DEF g, c, rest, r, i
    <3> QED
      BY <2>6, <3>4, <3>5, SkipsSpace DEF r, i
  <2>7. CASE c \in {"lp", "bsl"} /\ starts
    <3>1. Starts(g) /\ Qd(s, k) = FALSE
      BY <1>1, <1>2, <2>3, <2>7
    <3>2. CASE c = "lp"
      <4>1. SkipsAt(s, h, From(rest, First(rest, "rp") + 1))
        BY <1>1, <1>5, <2>7, <3>1, <3>2, ConventionEnds, ParenSkips
      <4>2. r = Got("sp", From(rest, First(rest, "rp") + 1), FALSE)
        BY <2>5, <2>7, <3>2
      <4> HIDE DEF g, c, rest, r, i
      <4> QED
        BY <4>1, <4>2, SkipsSpace DEF r, i, Spaces
    <3>3. CASE c = "bsl"
      <4>1. SkipsAt(s, h, From(rest, First(rest, "nl")))
        BY <1>1, <1>5, <2>7, <3>1, <3>3, ConventionEnds, LineSkips DEF Spaces
      <4>2. r = Got("sp", From(rest, First(rest, "nl")), FALSE)
        BY <2>5, <2>7, <3>3
      <4> HIDE DEF g, c, rest, r, i
      <4> QED
        BY <4>1, <4>2, SkipsSpace DEF r, i, Spaces
    <3> QED
      BY <2>7, <3>2, <3>3
  <2>8. CASE c = "qt"
    <3>1. PutBack(s, k, g, TRUE)
      BY <1>1, <1>5, <2>8 DEF PutBack, Ahead
    <3>2. ReadsAt(s, Interpret(h, "sp"), <<c>> \o rest, TRUE)
      BY <1>1, <2>4, <3>1 DEF ReadsAt
    <3>3. r = Got(c, rest, TRUE)
      BY <2>5, <2>8
    <3>4. c \in Chars \ Spaces
      BY <2>1, <2>8 DEF Spaces
    <3> HIDE DEF g, c, rest, r, i
    <3> QED
      BY <3>2, <3>3, <3>4, SkipsChar DEF r, i
  <2>9. CASE c \notin Spaces /\ c # "qt" /\ ~(c \in {"lp", "bsl"} /\ starts)
    <3>1. InStep(s, k, g, FALSE)
      <4>1. ~Ahead(s, k, "qt") /\ ~Ahead(s, k, "sp") /\ ~Ahead(s, k, "nl")
        BY <2>9 DEF Ahead, Spaces
      <4>2. Qd(s, k) = FALSE
        BY <1>1, <1>2
      <4> HIDE DEF g
      <4> QED
        BY <1>1, <4>1, <4>2 DEF InStep, g
    <3>2. ReadsAt(s, Interpret(h, "sp"), <<c>> \o rest, FALSE)
      BY <1>1, <2>4, <3>1 DEF ReadsAt
    <3>3. r = Got(c, rest, FALSE)
      BY <2>5, <2>9
    <3>4. c \in Chars \ Spaces
      BY <2>1, <2>9
    <3> HIDE DEF g, c, rest, r, i
    <3> QED
      BY <3>2, <3>3, <3>4, SkipsChar DEF r, i
  <2> QED
    BY <2>6, <2>7, <2>8, <2>9
<1>6. k = Len(s) \/ k < Len(s)
  OBVIOUS
<1> QED
  BY <1>4, <1>5, <1>6

LEMMA SkipsNewline ==
  ASSUME NEW s \in Seq(Chars), NEW k \in 0 .. Len(s), NEW h,
         Ahead(s, k, "nl"), Between(s, k + 1, h)
  PROVE  SkipOn(s, h, rdch0(From(s, k + 1), FALSE))
<1> DEFINE c == s[k + 1]
           rest == From(s, (k + 1) + 1)
           r == rdch0(From(s, k + 1), FALSE)
<1>1. k < Len(s) /\ c = "nl"
  BY DEF Ahead
<1>2. k + 1 \in 0 .. Len(s)
  BY <1>1
<1>3. r = Got(c, rest, FALSE)
  <2>1. FALSE \in BOOLEAN
    OBVIOUS
  <2>2. c \notin {"lp", "bsl", "qt"} => r = Got(c, rest, FALSE)
    BY <1>1, <2>1, ReadsOne
  <2> HIDE DEF r, c, rest
  <2> QED
    BY <1>1, <2>2
<1>4. SkipsAt(s, h, rest)
  BY <1>2 DEF SkipsAt
<1> HIDE DEF c, rest, r
<1> QED
  BY <1>1, <1>3, <1>4, SkipsSpace DEF r, Spaces

LEMMA Skips ==
  ASSUME NEW s \in Seq(Chars), Conventional(s), NEW h, NEW i, SkipsAt(s, h, i)
  PROVE  SkipOn(s, h, rdch0(i, FALSE))
BY SkipsBetween, SkipsNewline DEF SkipsAt

-----------------------------------------------------------------------------
(* The invariant. *)

LEMMA CarriedAtFirst == IInv /\ Init => CInv
<1> SUFFICES ASSUME IInv, Init, Conventional(source) PROVE Carried
  BY DEF CInv
<1>1. /\ source \in Seq(Chars) /\ inp = source /\ quote = FALSE /\ comp = <<>>
      /\ pc = "read"
  BY DEF Init, IInv, TypeOK
<1>2. "nl" \notin Range(comp)
  BY <1>1 DEF Range
<1>3. ReaderOf(comp) = Begin
  BY <1>1, ReaderOfNothing
<1>4. inp = From(source, 0 + 1)
  BY <1>1, SubSeqFull DEF From
<1>5. InStep(source, 0, Begin, FALSE)
  <2>1. Begin.mode = "word" /\ Begin.cur \notin {<<"lp">>, <<"bsl">>}
    BY DEF Begin
  <2>2. St(source, 0) = Begin /\ Qd(source, 0) = FALSE
    BY <1>1, AtFirst
  <2> QED
    BY <2>1, <2>2 DEF InStep
<1>6. 0 \in 0 .. Len(source)
  BY <1>1
<1>7. ReadsAt(source, Begin, inp, FALSE)
  BY <1>4, <1>5, <1>6 DEF ReadsAt
<1> QED
  BY <1>1, <1>2, <1>3, <1>7 DEF Carried

LEMMA RangeAppend ==
  ASSUME NEW s \in Seq(Chars), NEW c \in Chars \ {"nl"}, "nl" \notin Range(s)
  PROVE  "nl" \notin Range(Append(s, c))
<1> DEFINE t == Append(s, c)
<1>1. /\ Len(s) \in Nat /\ Len(t) = Len(s) + 1 /\ t[Len(s) + 1] = c
      /\ \A j \in 1 .. Len(s) : t[j] = s[j]
      /\ t \in Seq(Chars)
  BY AppendProperties
<1>2. \A j \in 1 .. Len(s) : s[j] # "nl"
  BY DEF Range
<1> HIDE DEF t
<1>3. DOMAIN t = 1 .. Len(t)
  BY <1>1
<1>4. ASSUME NEW j \in DOMAIN t PROVE t[j] # "nl"
  BY <1>1, <1>2, <1>3
<1>5. "nl" \notin Range(t)
  BY <1>4 DEF Range
<1> QED
  BY <1>5 DEF t

LEMMA ReadCarries == IInv /\ CInv /\ Read => CInv'
<1> SUFFICES ASSUME IInv, CInv, Read, Conventional(source) PROVE Carried'
  BY DEF CInv, Read
<1> DEFINE r == rdch0(inp, quote)
           h == ReaderOf(comp)
<1>1. /\ source \in Seq(Chars) /\ inp \in Seq(Chars) /\ quote \in BOOLEAN
      /\ comp \in Seq(Chars) /\ pc = "read" /\ source' = source
  BY DEF IInv, TypeOK, Read
<1>2. "nl" \notin Range(comp) /\ ReadsAt(source, h, inp, quote)
  BY <1>1 DEF CInv, Carried
<1>3. ReadOn(source, h, r)
  BY <1>1, <1>2, Reads
<1>4. /\ inp' = r.inp /\ quote' = r.quote
      /\ \/ r.ch = EOF /\ pc' = "encode" /\ comp' = comp
         \/ r.ch \in Spaces /\ ~r.quote /\ pc' = "skip" /\ comp' = comp
         \/ /\ r.ch \in Chars /\ (r.ch \in Spaces => r.quote)
            /\ comp' = Append(comp, r.ch) /\ pc' = "read"
  BY <1>1 DEF Read
<1>5. r.ch \in Chars \union {EOF}
  BY <1>1, ReadIs
<1>6. EOF \notin Chars /\ EOF \notin Spaces /\ Spaces \subseteq Chars
  BY EOFIs DEF Chars
<1> HIDE DEF r, h
<1>7. CASE r.ch = EOF
  <2>1. pc' = "encode" /\ comp' = comp /\ ~quote' /\ h = ReaderOf(source)
    BY <1>3, <1>4, <1>6, <1>7 DEF ReadOn
  <2>2. ReaderOf(comp') = ReaderOf(source')
    BY <1>1, <2>1 DEF h
  <2> QED
    BY <1>2, <2>1, <2>2 DEF Carried
<1>8. CASE r.ch \in Spaces /\ ~r.quote
  <2>1. pc' = "skip" /\ comp' = comp /\ ~quote' /\ SkipsAt(source, h, inp')
    BY <1>3, <1>4, <1>6, <1>8 DEF ReadOn
  <2>2. SkipsAt(source', ReaderOf(comp'), inp')
    BY <1>1, <2>1 DEF h
  <2> QED
    BY <1>2, <2>1, <2>2 DEF Carried
<1>9. CASE r.ch \in Chars /\ (r.ch \in Spaces => r.quote)
  <2>1. /\ r.ch # "nl" /\ ReadsAt(source, Interpret(h, r.ch), inp', quote')
        /\ comp' = Append(comp, r.ch) /\ pc' = "read"
    BY <1>3, <1>4, <1>6, <1>9 DEF ReadOn
  <2>2. ReaderOf(comp') = Interpret(h, r.ch)
    BY <1>1, <1>9, <2>1, ReaderAppend DEF h
  <2>3. ReadsAt(source', ReaderOf(comp'), inp', quote')
    BY <1>1, <2>1, <2>2
  <2>4. "nl" \notin Range(comp')
    BY <1>1, <1>2, <1>9, <2>1, RangeAppend
  <2> QED
    BY <2>1, <2>3, <2>4 DEF Carried
<1> QED
  BY <1>5, <1>7, <1>8, <1>9

LEMMA SkipCarries == IInv /\ CInv /\ Skip => CInv'
<1> SUFFICES ASSUME IInv, CInv, Skip, Conventional(source) PROVE Carried'
  BY DEF CInv, Skip
<1> DEFINE r == rdch0(inp, quote)
           h == ReaderOf(comp)
<1>1. /\ source \in Seq(Chars) /\ inp \in Seq(Chars)
      /\ comp \in Seq(Chars) /\ pc = "skip" /\ source' = source
  BY DEF IInv, TypeOK, Skip
<1>2. "nl" \notin Range(comp) /\ quote = FALSE /\ SkipsAt(source, h, inp)
  BY <1>1 DEF CInv, Carried, IInv, TypeOK
<1>3. SkipOn(source, h, r)
  BY <1>1, <1>2, Skips
<1>4. /\ quote' = r.quote
      /\ \/ r.ch \in Spaces /\ inp' = r.inp /\ comp' = comp /\ pc' = "skip"
         \/ /\ r.ch \notin Spaces
            /\ inp' = IF r.ch = EOF THEN r.inp ELSE <<r.ch>> \o r.inp
            /\ comp' = Append(comp, "sp") /\ pc' = "read"
  BY <1>1 DEF Skip
<1> HIDE DEF r, h
<1>5. CASE r.ch \in Spaces
  <2>1. pc' = "skip" /\ comp' = comp /\ ~quote' /\ SkipsAt(source, h, inp')
    BY <1>3, <1>4, <1>5 DEF SkipOn
  <2>2. SkipsAt(source', ReaderOf(comp'), inp')
    BY <1>1, <2>1 DEF h
  <2> QED
    BY <1>2, <2>1, <2>2 DEF Carried
<1>6. CASE r.ch \notin Spaces
  <2>1. /\ ReadsAt(source, Interpret(h, "sp"), inp', quote')
        /\ comp' = Append(comp, "sp") /\ pc' = "read"
    BY <1>3, <1>4, <1>6 DEF SkipOn
  <2>2. "sp" \in Chars \ {"nl"}
    BY DEF Chars, Spaces
  <2>3. ReaderOf(comp') = Interpret(h, "sp")
    BY <1>1, <2>1, <2>2, ReaderAppend DEF h
  <2>4. ReadsAt(source', ReaderOf(comp'), inp', quote')
    BY <1>1, <2>1, <2>3
  <2>5. "nl" \notin Range(comp')
    BY <1>1, <1>2, <2>1, <2>2, RangeAppend
  <2> QED
    BY <2>1, <2>4, <2>5 DEF Carried
<1> QED
  BY <1>5, <1>6

LEMMA CarriedOn == IInv /\ CInv /\ [Next]_vars => CInv'
<1>1. IInv /\ CInv /\ UNCHANGED vars => CInv'
  BY DEF vars, CInv, Carried
<1>2. IInv /\ CInv /\ Encode => CInv'
  BY DEF Encode, CInv, Carried
<1>3. IInv /\ CInv /\ EncodeEnd => CInv'
  BY DEF EncodeEnd, CInv, Carried
<1> QED
  BY <1>1, <1>2, <1>3, ReadCarries, SkipCarries DEF Next

LEMMA CarriedIsSame == IInv /\ CInv => LoadsTheSame
<1> SUFFICES ASSUME IInv, CInv, pc = "done", Conventional(source)
             PROVE  /\ quote = FALSE /\ "nl" \notin Range(comp)
                    /\ WordsOf(Compiled(lit).text) = WordsOf(source)
  BY DEF LoadsTheSame
<1>1. "nl" \notin Range(comp) /\ ~quote /\ ReaderOf(comp) = ReaderOf(source)
  BY DEF CInv, Carried
<1>2. quote \in BOOLEAN
  BY DEF IInv, TypeOK
<1>3. Compiled(lit).text = comp
  BY <1>1, WrittenIsText DEF LiteralsAreText
<1>4. WordsOf(Compiled(lit).text) = WordsOf(source)
  BY <1>1, <1>3 DEF WordsOf
<1> QED
  BY <1>1, <1>2, <1>4

(***************************************************************************)
(* For every source that follows the conventions and every width of a line *)
(* of the C file: the interpreter reads the same words and strings from    *)
(* the text that compressf leaves (compressf.c:35-91), that compf2src      *)
(* encodes and the C compiler reads, as from the source, and quotes are in *)
(* step at the end.                                                        *)
(***************************************************************************)
THEOREM LoadsTheorem == Spec => []LoadsTheSame
<1>1. Init => CInv
  BY InitSound, CarriedAtFirst
<1> QED
  BY <1>1, CarriedOn, CarriedIsSame, Invariance, PTL DEF Spec
=============================================================================
