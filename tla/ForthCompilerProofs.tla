------------------------ MODULE ForthCompilerProofs ------------------------
(***************************************************************************)
(* The compiler and the inner interpreter (ForthCompiler): their types for *)
(* every text, also one that patches and runs what it should not; and for  *)
(* every well-formed text, that the marks on the return stack are those of *)
(* the structures open in the text, and that each jump lands where the     *)
(* structure of the text says.                                             *)
(***************************************************************************)
EXTENDS ForthCompiler, SequenceTheorems, FiniteSetTheorems, WellFoundedInduction, TLAPS

\* The cells of a memory: tokens are those of a text of n, a call is for a cell, and what
\* uses the next cell has one.
Sound(m, n) ==
  /\ m \in Seq(Cells)
  /\ \A a \in 1 .. Len(m) :
       /\ m[a].tok \in 1 .. n
       /\ m[a].op = "call" => m[a].arg \in 1 .. Len(m)
       /\ m[a].op \in Paired => a + 1 \in 1 .. Len(m)

\* Every header has its codeword in a memory of n cells.
Headed(h, n) == h \in Seq(Headers) /\ \A k \in 1 .. Len(h) : h[k].cfa \in 1 .. n

Registers ==
  /\ ip \in Nat \ {0} /\ iscomp \in BOOLEAN
  /\ wp \in Int /\ rstk \in Seq(Int) /\ Len(rstk) <= RStkCells
  /\ pstk \in Seq(Int) /\ Len(pstk) <= PStkCells
  /\ status \in {"run", "end", "unknown", "notfound", "stkunf", "stkovf", "rstkunf",
                 "rstkovf", "fault"}

Inv ==
  /\ prog \in Programs
  /\ Sound(mem, Len(prog)) /\ Headed(words, Len(mem)) /\ Registers

-----------------------------------------------------------------------------
(* The text and the dictionary. *)

LEMMA ProgFacts ==
  ASSUME prog \in Programs
  PROVE  /\ prog \in Seq(Tokens) /\ Len(prog) \in Nat /\ DOMAIN prog = 1 .. Len(prog)
         /\ \A i \in 1 .. Len(prog) : prog[i] \in Tokens
<1>1. prog \in Seq(Tokens)
  BY TextAssumption
<1> QED
  BY <1>1

\* The greatest element of a bounded set of numbers.
LEMMA GreatestExists ==
  ASSUME NEW n \in Nat, NEW T, T \subseteq 1 .. n, T # {}
  PROVE  \E x \in T : \A y \in T : x >= y
<1> DEFINE D == {n - y : y \in T}
<1>1. D \subseteq Nat /\ D # {}
  <2>1. ASSUME NEW y \in T PROVE n - y \in Nat
    <3>1. y \in 1 .. n
      OBVIOUS
    <3> QED
      BY <3>1
  <2>2. PICK y \in T : TRUE
    OBVIOUS
  <2> QED
    BY <2>1, <2>2
<1> HIDE DEF D
<1>2. PICK d \in D : \A e \in D : ~ (<<e, d>> \in OpToRel(<, Nat))
  BY <1>1, WFMin, NatLessThanWellFounded, Zenon
<1>3. \A e \in D : ~ (e < d)
  BY <1>1, <1>2, Zenon DEF OpToRel
<1>4. PICK x \in T : d = n - x
  BY DEF D
<1>5. ASSUME NEW y \in T PROVE x >= y
  <2>1. n - y \in D
    BY DEF D
  <2>2. ~(n - y < n - x)
    BY <1>3, <1>4, <2>1
  <2> QED
    BY <2>2
<1> QED
  BY <1>5

\* FIND answers with a header, or with none.
LEMMA FindFacts ==
  ASSUME words \in Seq(Headers), NEW w
  PROVE  Find(w) \in 0 .. Len(words)
<1> DEFINE hits == {k \in DOMAIN words : words[k].name = w /\ ~words[k].hidden}
<1>1. Find(w) = IF hits = {} THEN 0 ELSE Max(hits)
  BY DEF Find
<1>2. hits \subseteq 1 .. Len(words) /\ Len(words) \in Nat
  OBVIOUS
<1> HIDE DEF hits
<1>3. CASE hits = {}
  BY <1>1, <1>2, <1>3
<1>4. CASE hits # {}
  <2>1. \E x \in hits : \A y \in hits : x >= y
    BY <1>2, <1>4, GreatestExists
  <2>2. Max(hits) = CHOOSE x \in hits : \A y \in hits : x >= y
    BY DEF Max
  <2>3. Max(hits) \in hits
    BY <2>1, <2>2, Zenon
  <2>4. Find(w) \in 1 .. Len(words)
    BY <1>1, <1>2, <1>4, <2>3, Zenon
  <2> QED
    BY <1>2, <2>4
<1> QED
  BY <1>3, <1>4

-----------------------------------------------------------------------------
(* Compiling. *)

\* A cell that stands alone.
Alone(c, n) == c \in Cells /\ c.tok \in 1 .. n /\ c.op # "call" /\ c.op \notin Paired

\* Cells that need nothing behind them are appended.
LEMMA AppendSound ==
  ASSUME NEW n \in Nat, NEW m, Sound(m, n), NEW t \in Seq(Cells),
         \A b \in 1 .. Len(t) :
           /\ t[b].tok \in 1 .. n
           /\ t[b].op = "call" => t[b].arg \in 1 .. Len(m)
           /\ t[b].op \in Paired => b + 1 \in 1 .. Len(t)
  PROVE  Sound(m \o t, n) /\ Len(m \o t) = Len(m) + Len(t)
<1> DEFINE r == m \o t
<1>1. m \in Seq(Cells) /\ Len(m) \in Nat /\ Len(t) \in Nat
  BY DEF Sound
<1>2. /\ r \in Seq(Cells) /\ Len(r) = Len(m) + Len(t)
      /\ \A a \in 1 .. Len(m) : r[a] = m[a]
      /\ \A b \in 1 .. Len(t) : r[Len(m) + b] = t[b]
  BY <1>1
<1> HIDE DEF r
<1>3. ASSUME NEW a \in 1 .. Len(r)
      PROVE  /\ r[a].tok \in 1 .. n
             /\ r[a].op = "call" => r[a].arg \in 1 .. Len(r)
             /\ r[a].op \in Paired => a + 1 \in 1 .. Len(r)
  <2>1. CASE a \in 1 .. Len(m)
    <3>1. /\ m[a].tok \in 1 .. n
          /\ m[a].op = "call" => m[a].arg \in 1 .. Len(m)
          /\ m[a].op \in Paired => a + 1 \in 1 .. Len(m)
      BY <2>1 DEF Sound
    <3>2. r[a] = m[a]
      BY <1>2, <2>1
    <3>3. 1 .. Len(m) \subseteq 1 .. Len(r)
      BY <1>1, <1>2
    <3> QED
      BY <3>1, <3>2, <3>3
  <2>2. CASE a \notin 1 .. Len(m)
    <3> DEFINE b == a - Len(m)
    <3>1. b \in 1 .. Len(t) /\ Len(m) + b = a
      BY <1>1, <1>2, <2>2
    <3> HIDE DEF b
    <3>2. r[a] = t[b]
      BY <1>2, <3>1
    <3>3. /\ t[b].tok \in 1 .. n
          /\ t[b].op = "call" => t[b].arg \in 1 .. Len(m)
          /\ t[b].op \in Paired => b + 1 \in 1 .. Len(t)
      BY <3>1
    <3>4. 1 .. Len(m) \subseteq 1 .. Len(r)
      BY <1>1, <1>2
    <3>5. b + 1 \in 1 .. Len(t) => a + 1 \in 1 .. Len(r)
      BY <1>1, <1>2, <3>1
    <3> QED
      BY <3>2, <3>3, <3>4, <3>5
  <2> QED
    BY <2>1, <2>2
<1>4. Sound(r, n)
  BY <1>2, <1>3 DEF Sound
<1> QED
  BY <1>2, <1>4 DEF r

LEMMA OneSound ==
  ASSUME NEW n \in Nat, NEW m, Sound(m, n), NEW c \in Cells, c.tok \in 1 .. n,
         c.op = "call" => c.arg \in 1 .. Len(m), c.op \notin Paired
  PROVE  /\ Sound(Append(m, c), n) /\ Len(Append(m, c)) = Len(m) + 1
         /\ Sound(m \o <<c>>, n) /\ Len(m \o <<c>>) = Len(m) + 1
<1> DEFINE t == <<c>>
<1>1. t \in Seq(Cells) /\ Len(t) = 1 /\ t[1] = c
  OBVIOUS
<1> HIDE DEF t
<1>2. \A b \in 1 .. Len(t) :
        /\ t[b].tok \in 1 .. n
        /\ t[b].op = "call" => t[b].arg \in 1 .. Len(m)
        /\ t[b].op \in Paired => b + 1 \in 1 .. Len(t)
  BY <1>1
<1>3. Sound(m \o t, n) /\ Len(m \o t) = Len(m) + 1
  BY <1>1, <1>2, AppendSound
<1>4. Append(m, c) = m \o t
  BY DEF Sound, t
<1> QED
  BY <1>3, <1>4 DEF t

LEMMA TwoSound ==
  ASSUME NEW n \in Nat, NEW m, Sound(m, n), NEW c \in Cells, NEW d, Alone(d, n),
         c.tok \in 1 .. n, c.op # "call"
  PROVE  Sound(m \o <<c, d>>, n) /\ Len(m \o <<c, d>>) = Len(m) + 2
<1> DEFINE t == <<c, d>>
<1>1. t \in Seq(Cells) /\ Len(t) = 2 /\ t[1] = c /\ t[2] = d
  BY DEF Alone
<1> HIDE DEF t
<1>2. \A b \in 1 .. Len(t) :
        /\ t[b].tok \in 1 .. n
        /\ t[b].op = "call" => t[b].arg \in 1 .. Len(m)
        /\ t[b].op \in Paired => b + 1 \in 1 .. Len(t)
  <2>1. \A b \in 1 .. Len(t) : b = 1 \/ b = 2
    BY <1>1
  <2> QED
    BY <1>1, <2>1 DEF Alone
<1>3. Sound(m \o t, n) /\ Len(m \o t) = Len(m) + 2
  BY <1>1, <1>2, AppendSound
<1> QED
  BY <1>3 DEF t

LEMMA ThreeSound ==
  ASSUME NEW n \in Nat, NEW m, Sound(m, n), NEW c, Alone(c, n), NEW d \in Cells, NEW e, Alone(e, n),
         d.tok \in 1 .. n, d.op # "call"
  PROVE  Sound(m \o <<c, d, e>>, n) /\ Len(m \o <<c, d, e>>) = Len(m) + 3
<1> DEFINE t == <<c, d, e>>
<1>1. t \in Seq(Cells) /\ Len(t) = 3 /\ t[1] = c /\ t[2] = d /\ t[3] = e
  BY DEF Alone
<1> HIDE DEF t
<1>2. \A b \in 1 .. Len(t) :
        /\ t[b].tok \in 1 .. n
        /\ t[b].op = "call" => t[b].arg \in 1 .. Len(m)
        /\ t[b].op \in Paired => b + 1 \in 1 .. Len(t)
  <2>1. \A b \in 1 .. Len(t) : b = 1 \/ b = 2 \/ b = 3
    BY <1>1
  <2> QED
    BY <1>1, <2>1 DEF Alone
<1>3. Sound(m \o t, n) /\ Len(m \o t) = Len(m) + 3
  BY <1>1, <1>2, AppendSound
<1> QED
  BY <1>3 DEF t

\* A patched cell is an operand, wherever the mark points.
LEMMA PatchSound ==
  ASSUME NEW n, NEW m, Sound(m, n), NEW a, NEW v \in Int
  PROVE  Sound(Patch(m, a, v), n) /\ Len(Patch(m, a, v)) = Len(m)
<1> DEFINE r == Patch(m, a, v)
<1>1. m \in Seq(Cells) /\ DOMAIN m = 1 .. Len(m)
  BY DEF Sound
<1>2. CASE a \notin DOMAIN m
  BY <1>2 DEF Patch
<1>3. CASE a \in DOMAIN m
  <2> DEFINE c == [m[a] EXCEPT !.op = "operand", !.arg = v]
  <2>1. m[a] \in Cells
    BY <1>1, <1>3
  <2>2. c \in Cells /\ c.op = "operand" /\ c.tok = m[a].tok
    BY <2>1 DEF Cells, Kinds
  <2>3. r = [m EXCEPT ![a] = c]
    BY <1>3 DEF Patch
  <2> HIDE DEF c, r
  <2>4. /\ r \in Seq(Cells) /\ Len(r) = Len(m) /\ r[a] = c
        /\ \A b \in 1 .. Len(m) : b # a => r[b] = m[b]
    BY <1>1, <1>3, <2>2, <2>3
  <2>5. ASSUME NEW b \in 1 .. Len(r)
        PROVE  /\ r[b].tok \in 1 .. n
               /\ r[b].op = "call" => r[b].arg \in 1 .. Len(r)
               /\ r[b].op \in Paired => b + 1 \in 1 .. Len(r)
    <3>1. /\ m[b].tok \in 1 .. n
          /\ m[b].op = "call" => m[b].arg \in 1 .. Len(r)
          /\ m[b].op \in Paired => b + 1 \in 1 .. Len(r)
      BY <2>4 DEF Sound
    <3> QED
      BY <2>2, <2>4, <3>1 DEF Paired
  <2> QED
    BY <2>4, <2>5 DEF Sound, r
<1> QED
  BY <1>2, <1>3

-----------------------------------------------------------------------------
(* Headers, and the two stacks. *)

LEMMA HeadedGrows ==
  ASSUME NEW h, NEW n \in Nat, Headed(h, n), NEW k \in Nat, n <= k
  PROVE  Headed(h, k)
<1>1. 1 .. n \subseteq 1 .. k
  OBVIOUS
<1> QED
  BY <1>1 DEF Headed

\* A new header behind the others.
LEMMA HeadedAppend ==
  ASSUME NEW h, NEW n \in Nat, Headed(h, n), NEW k \in Nat, n <= k,
         NEW r \in Headers, r.cfa \in 1 .. k
  PROVE  Headed(Append(h, r), k)
<1> DEFINE g == Append(h, r)
<1>1. h \in Seq(Headers) /\ Len(h) \in Nat
  BY DEF Headed
<1>2. /\ g \in Seq(Headers) /\ Len(g) = Len(h) + 1 /\ g[Len(h) + 1] = r
      /\ \A j \in 1 .. Len(h) : g[j] = h[j]
  BY <1>1
<1> HIDE DEF g
<1>3. Headed(h, k)
  BY HeadedGrows
<1>4. ASSUME NEW j \in 1 .. Len(g) PROVE g[j].cfa \in 1 .. k
  <2>1. j \in 1 .. Len(h) \/ j = Len(h) + 1
    BY <1>1, <1>2
  <2> QED
    BY <1>2, <1>3, <2>1 DEF Headed
<1>5. Headed(g, k)
  BY <1>2, <1>4 DEF Headed
<1> QED
  BY <1>5 DEF g

\* A header is marked.
LEMMA HeadedMarked ==
  ASSUME NEW h, NEW n \in Nat, Headed(h, n), NEW j \in 1 .. Len(h),
         NEW field \in {"hidden", "immediate"}, NEW value \in BOOLEAN
  PROVE  Headed([h EXCEPT ![j][field] = value], n)
<1> DEFINE r == [h[j] EXCEPT ![field] = value]
           g == [h EXCEPT ![j] = r]
<1>1. h \in Seq(Headers) /\ h[j] \in Headers /\ h[j].cfa \in 1 .. n
  BY DEF Headed
<1>2. r \in Headers /\ r.cfa = h[j].cfa
  <2>1. CASE field = "hidden"
    BY <1>1, <2>1 DEF Headers
  <2>2. CASE field = "immediate"
    BY <1>1, <2>2 DEF Headers
  <2> QED
    BY <2>1, <2>2
<1>3. [h EXCEPT ![j][field] = value] = g
  BY <1>1
<1> HIDE DEF r
<1>4. /\ g \in Seq(Headers) /\ Len(g) = Len(h) /\ g[j] = r
      /\ \A i \in 1 .. Len(h) : i # j => g[i] = h[i]
  BY <1>1, <1>2
<1> HIDE DEF g
<1>5. ASSUME NEW i \in 1 .. Len(g) PROVE g[i].cfa \in 1 .. n
  BY <1>1, <1>2, <1>4 DEF Headed
<1> QED
  BY <1>3, <1>4, <1>5 DEF Headed

LEMMA PushFacts ==
  ASSUME NEW s \in Seq(Int), NEW v \in Int
  PROVE  <<v>> \o s \in Seq(Int) /\ Len(<<v>> \o s) = Len(s) + 1
OBVIOUS

LEMMA PopFacts ==
  ASSUME NEW s \in Seq(Int), s # <<>>
  PROVE  /\ Len(s) \in Nat \ {0} /\ Head(s) \in Int
         /\ Tail(s) \in Seq(Int) /\ Len(Tail(s)) = Len(s) - 1
OBVIOUS

-----------------------------------------------------------------------------
(* Steps. *)

Reasons == {"end", "unknown", "notfound", "stkunf", "stkovf", "rstkunf", "rstkovf", "fault"}

LEMMA InvFacts ==
  ASSUME Inv
  PROVE  /\ prog \in Programs /\ Len(prog) \in Nat /\ DOMAIN prog = 1 .. Len(prog)
         /\ \A i \in 1 .. Len(prog) : prog[i] \in Tokens
         /\ Sound(mem, Len(prog)) /\ mem \in Seq(Cells) /\ Len(mem) \in Nat
         /\ DOMAIN mem = 1 .. Len(mem)
         /\ Headed(words, Len(mem)) /\ words \in Seq(Headers) /\ Len(words) \in Nat
         /\ \A k \in 1 .. Len(words) : words[k] \in Headers /\ words[k].cfa \in 1 .. Len(mem)
         /\ ip \in Nat \ {0} /\ iscomp \in BOOLEAN
         /\ wp \in Int /\ rstk \in Seq(Int) /\ Len(rstk) \in Nat /\ Len(rstk) <= RStkCells
         /\ pstk \in Seq(Int) /\ Len(pstk) \in Nat /\ Len(pstk) <= PStkCells
         /\ RStkCells \in Nat \ {0, 1} /\ PStkCells \in Nat
<1>1. prog \in Programs /\ Sound(mem, Len(prog)) /\ Headed(words, Len(mem)) /\ Registers
  BY DEF Inv
<1>2. Len(prog) \in Nat /\ DOMAIN prog = 1 .. Len(prog) /\ \A i \in 1 .. Len(prog) : prog[i] \in Tokens
  BY <1>1, ProgFacts
<1>3. mem \in Seq(Cells) /\ words \in Seq(Headers)
  BY <1>1 DEF Sound, Headed
<1>4. \A k \in 1 .. Len(words) : words[k] \in Headers /\ words[k].cfa \in 1 .. Len(mem)
  BY <1>1, <1>3 DEF Headed
<1> QED
  BY <1>1, <1>2, <1>3, <1>4, SizeAssumption DEF Registers

\* What a cell that is executed says.
LEMMA CellFacts ==
  ASSUME Inv, NEW a \in 1 .. Len(mem)
  PROVE  /\ mem[a] \in Cells /\ mem[a].arg \in Int
         /\ mem[a].op = "call" => mem[a].arg \in 1 .. Len(mem)
         /\ mem[a].op \in Paired =>
              a + 1 \in 1 .. Len(mem) /\ mem[a + 1] \in Cells /\ mem[a + 1].arg \in Int
<1>1. mem \in Seq(Cells) /\ \A b \in 1 .. Len(mem) : mem[b] \in Cells
  BY InvFacts
<1>2. \A c \in Cells : c.arg \in Int
  BY DEF Cells
<1>3. /\ mem[a].op = "call" => mem[a].arg \in 1 .. Len(mem)
      /\ mem[a].op \in Paired => a + 1 \in 1 .. Len(mem)
  BY DEF Inv, Sound
<1> QED
  BY <1>1, <1>2, <1>3

\* A step whose parts keep their types keeps the invariant.
LEMMA Concludes ==
  ASSUME Inv, prog' = prog, Sound(mem', Len(prog)), Headed(words', Len(mem')),
         ip' \in Nat \ {0}, iscomp' \in BOOLEAN, wp' \in Int,
         rstk' \in Seq(Int), Len(rstk') <= RStkCells,
         pstk' \in Seq(Int), Len(pstk') <= PStkCells,
         status' \in {"run"} \union Reasons
  PROVE  Inv'
BY DEF Inv, Registers, Reasons

LEMMA StopKeeps ==
  ASSUME Inv, NEW why \in Reasons, Stop(why)
  PROVE  Inv'
<1>1. /\ prog' = prog /\ ip' = ip /\ mem' = mem /\ words' = words /\ iscomp' = iscomp
      /\ wp' = wp /\ rstk' = rstk /\ pstk' = pstk /\ status' = why
  BY DEF Stop
<1> QED
  BY <1>1, InvFacts, Concludes

LEMMA StatusFacts ==
  ASSUME Inv
  PROVE  status \in {"run"} \union Reasons
BY DEF Inv, Registers, Reasons

LEMMA PassKeeps ==
  ASSUME Inv, NEW i \in Nat \ {0}, NEW back \in Int, Pass(i, back)
  PROVE  Inv'
<1>1. /\ prog' = prog /\ ip' = i /\ mem' = mem /\ words' = words /\ iscomp' = iscomp
      /\ wp' = back /\ rstk' = rstk /\ pstk' = pstk /\ status' = status
  BY DEF Pass
<1> QED
  BY <1>1, InvFacts, StatusFacts, Concludes

LEMMA LeaveKeeps ==
  ASSUME Inv, NEW v \in Int, NEW i \in Nat \ {0}, NEW back \in Int, Leave(v, i, back)
  PROVE  Inv'
<1>1. CASE Len(pstk) >= PStkCells
  BY <1>1, StopKeeps DEF Leave, Reasons
<1>2. CASE ~(Len(pstk) >= PStkCells)
  <2>1. /\ prog' = prog /\ ip' = i /\ mem' = mem /\ words' = words /\ iscomp' = iscomp
        /\ wp' = back /\ rstk' = rstk /\ pstk' = <<v>> \o pstk /\ status' = status
    BY <1>2 DEF Leave
  <2>2. pstk' \in Seq(Int) /\ Len(pstk') = Len(pstk) + 1
    BY <2>1, InvFacts, PushFacts
  <2>3. Len(pstk') <= PStkCells
    BY <1>2, <2>2, InvFacts
  <2> QED
    BY <2>1, <2>2, <2>3, InvFacts, StatusFacts, Concludes
<1> QED
  BY <1>1, <1>2

LEMMA ActKeeps ==
  ASSUME Inv, NEW w \in {"x", "flag", "DROP"}, NEW i \in Nat \ {0}, NEW back \in Int,
         Act(w, i, back)
  PROVE  Inv'
<1>1. CASE w = "x"
  BY <1>1, PassKeeps DEF Act
<1>2. CASE w = "flag"
  <2>1. PICK v \in {0, -1} : Leave(v, i, back)
    BY <1>2 DEF Act
  <2>2. v \in Int
    OBVIOUS
  <2> QED
    BY <2>1, <2>2, LeaveKeeps
<1>3. CASE w = "DROP" /\ pstk = <<>>
  <2>1. Stop("stkunf")
    BY <1>3 DEF Act
  <2> QED
    BY <2>1, StopKeeps DEF Reasons
<1>4. CASE w = "DROP" /\ pstk # <<>>
  <2>1. /\ prog' = prog /\ ip' = i /\ mem' = mem /\ words' = words /\ iscomp' = iscomp
        /\ wp' = back /\ rstk' = rstk /\ pstk' = Tail(pstk) /\ status' = status
    BY <1>4 DEF Act
  <2>2. pstk' \in Seq(Int) /\ Len(pstk') = Len(pstk) - 1
    BY <1>4, <2>1, InvFacts, PopFacts
  <2>3. Len(pstk') <= PStkCells
    BY <2>2, InvFacts
  <2> QED
    BY <2>1, <2>2, <2>3, InvFacts, StatusFacts, Concludes
<1> QED
  BY <1>1, <1>2, <1>3, <1>4

LEMMA CreateKeeps ==
  ASSUME Inv, NEW w, NEW i \in Nat \ {0}, NEW back \in Int, Create(w, i, back)
  PROVE  Inv'
<1>1. CASE i > Len(prog)
  BY <1>1, StopKeeps DEF Create, Reasons
<1>2. CASE ~(i > Len(prog))
  <2> DEFINE c == [op |-> "douser", arg |-> 0, tok |-> i]
             d == [op |-> "operand", arg |-> 0, tok |-> i]
             r == [name |-> prog[i], cfa |-> Here, hidden |-> FALSE, immediate |-> FALSE]
  <2>1. /\ prog' = prog /\ ip' = i + 1 /\ words' = Append(words, r) /\ iscomp' = iscomp
        /\ mem' = mem \o <<c, d>> \o (IF w = "VARIABLE" THEN <<d>> ELSE <<>>)
        /\ wp' = back /\ rstk' = rstk /\ pstk' = pstk /\ status' = status
    BY <1>2 DEF Create
  <2>2. i \in 1 .. Len(prog)
    BY <1>2, InvFacts
  <2>3. c \in Cells /\ c.tok \in 1 .. Len(prog) /\ c.op # "call" /\ Alone(d, Len(prog))
    BY <2>2 DEF Cells, Kinds, Alone, Paired
  <2>4. r \in Headers /\ r.cfa = Len(mem) + 1
    BY <2>2, InvFacts DEF Headers, Here
  <2> HIDE DEF c, d, r
  <2>5. Sound(mem \o <<c, d>>, Len(prog)) /\ Len(mem \o <<c, d>>) = Len(mem) + 2
    <3>1. Len(prog) \in Nat /\ Sound(mem, Len(prog))
      BY InvFacts
    <3> QED
      BY <2>3, <3>1, TwoSound
  <2>6. Sound(mem', Len(prog)) /\ Len(mem') \in {Len(mem) + 2, Len(mem) + 3}
    <3> DEFINE m == mem \o <<c, d>>
    <3>1. Len(m) = Len(mem) + 2 /\ Sound(m, Len(prog))
      BY <2>5
    <3>2. mem' = m \o (IF w = "VARIABLE" THEN <<d>> ELSE <<>>)
      BY <2>1
    <3> HIDE DEF m
    <3> m \in Seq(Cells)
      BY <3>1 DEF Sound
    <3>3. CASE w = "VARIABLE"
      <4>1. Sound(m \o <<d>>, Len(prog)) /\ Len(m \o <<d>>) = Len(m) + 1
        BY <2>3, <3>1, InvFacts, OneSound DEF Alone
      <4> QED
        BY <3>1, <3>2, <3>3, <4>1, InvFacts
    <3>4. CASE w # "VARIABLE"
      BY <3>1, <3>2, <3>4
    <3> QED
      BY <3>3, <3>4
  <2>7. Headed(words', Len(mem'))
    <3> DEFINE k == Len(mem')
    <3>1. k \in Nat /\ Len(mem) <= k /\ r.cfa \in 1 .. k
      BY <2>4, <2>6, InvFacts
    <3> HIDE DEF k
    <3>2. Headed(Append(words, r), k)
      BY <2>4, <3>1, InvFacts, HeadedAppend
    <3> QED
      BY <2>1, <3>2 DEF k
  <2>8. ip' \in Nat \ {0}
    BY <2>1
  <2> QED
    BY <2>1, <2>6, <2>7, <2>8, InvFacts, StatusFacts, Concludes
<1> QED
  BY <1>1, <1>2

LEMMA DoesKeeps ==
  ASSUME Inv, NEW i \in Nat \ {0}, NEW back \in Int, Does(i, back)
  PROVE  Inv'
<1> DEFINE made == words # <<>> /\ mem[Last(words).cfa].op = "douser"
<1>1. CASE ~made
  BY <1>1, PassKeeps DEF Does
<1>2. CASE made /\ rstk = <<>>
  BY <1>2, StopKeeps DEF Does, Reasons
<1>3. CASE made /\ rstk # <<>>
  <2> DEFINE a == Last(words).cfa + 1
  <2>1. /\ prog' = prog /\ ip' = i /\ words' = words /\ iscomp' = iscomp
        /\ mem' = Patch(mem, a, back)
        /\ wp' = Head(rstk) /\ rstk' = Tail(rstk) /\ pstk' = pstk /\ status' = status
    BY <1>3 DEF Does
  <2> HIDE DEF a
  <2>2. Sound(mem', Len(prog)) /\ Len(mem') = Len(mem)
    BY <2>1, InvFacts, PatchSound
  <2>3. Headed(words', Len(mem'))
    BY <2>1, <2>2, InvFacts
  <2>4. wp' \in Int /\ rstk' \in Seq(Int) /\ Len(rstk') = Len(rstk) - 1
    BY <1>3, <2>1, InvFacts, PopFacts
  <2>5. Len(rstk') <= RStkCells
    BY <2>4, InvFacts
  <2> QED
    BY <2>1, <2>2, <2>3, <2>4, <2>5, InvFacts, StatusFacts, Concludes
<1> QED
  BY <1>1, <1>2, <1>3

\* The cell compiled for a name or a primitive.
LEMMA CodeFacts ==
  ASSUME Inv, ip \in 1 .. Len(prog), NEW t \in Tokens, t \in Names => Find(t) # 0
  PROVE  /\ CodeFor(t) \in Cells /\ CodeFor(t).tok \in 1 .. Len(prog)
         /\ CodeFor(t).op = "call" => CodeFor(t).arg \in 1 .. Len(mem)
         /\ CodeFor(t).op \notin Paired
<1> DEFINE c == CodeFor(t)
<1>1. CASE t \in Names
  <2> DEFINE a == words[Find(t)].cfa
  <2>1. Find(t) \in 1 .. Len(words)
    BY <1>1, InvFacts, FindFacts
  <2>2. a \in 1 .. Len(mem)
    BY <2>1, InvFacts
  <2>3. c = [op |-> "call", arg |-> a, tok |-> ip]
    BY <1>1 DEF CodeFor, Call
  <2> HIDE DEF a, c
  <2>4. c \in Cells /\ c.tok \in 1 .. Len(prog) /\ c.arg \in 1 .. Len(mem) /\ c.op = "call"
    BY <2>2, <2>3, InvFacts DEF Cells, Kinds
  <2> QED
    BY <2>4 DEF Paired, c
<1>2. CASE t \notin Names
  <2>1. c = [op |-> t, arg |-> 0, tok |-> ip]
    BY <1>2 DEF CodeFor, Prim
  <2>2. t # "call" /\ t \notin Paired
    BY <1>2 DEF Tokens, Primitives, Compilers, Paired
  <2> HIDE DEF c
  <2>3. c \in Cells /\ c.tok \in 1 .. Len(prog) /\ c.op = t
    BY <2>1, InvFacts DEF Cells
  <2> QED
    BY <2>2, <2>3 DEF c
<1> QED
  BY <1>1, <1>2

LEMMA CodeSound ==
  ASSUME Inv, ip \in 1 .. Len(prog), NEW t \in Tokens, t \in Names => Find(t) # 0
  PROVE  /\ Sound(Append(mem, CodeFor(t)), Len(prog))
         /\ Len(Append(mem, CodeFor(t))) = Len(mem) + 1
<1> DEFINE c == CodeFor(t)
<1>1. /\ c \in Cells /\ c.tok \in 1 .. Len(prog)
      /\ c.op = "call" => c.arg \in 1 .. Len(mem)
      /\ c.op \notin Paired
  BY CodeFacts
<1> HIDE DEF c
<1>2. Sound(Append(mem, c), Len(prog)) /\ Len(Append(mem, c)) = Len(mem) + 1
  BY <1>1, InvFacts, OneSound
<1> QED
  BY <1>2 DEF c

LEMMA BCompileKeeps ==
  ASSUME Inv, NEW i \in Nat \ {0}, ip <= i, NEW back \in Int, BCompile(i, back)
  PROVE  Inv'
<1>1. CASE i > Len(prog)
  BY <1>1, StopKeeps DEF BCompile, Reasons
<1>2. CASE ~(i > Len(prog)) /\ prog[i] \in Names /\ Find(prog[i]) = 0
  BY <1>2, StopKeeps DEF BCompile, Reasons
<1>3. CASE ~(i > Len(prog)) /\ (prog[i] \in Names => Find(prog[i]) # 0)
  <2> DEFINE t == prog[i]
  <2>1. /\ prog' = prog /\ ip' = i + 1 /\ words' = words /\ iscomp' = iscomp
        /\ mem' = IF iscomp THEN Append(mem, CodeFor(t)) ELSE mem
        /\ wp' = back /\ rstk' = rstk /\ pstk' = pstk /\ status' = status
    BY <1>3 DEF BCompile
  <2>2. i \in 1 .. Len(prog) /\ ip \in 1 .. Len(prog)
    BY <1>3, InvFacts
  <2>3. t \in Tokens /\ (t \in Names => Find(t) # 0)
    BY <1>3, <2>2, InvFacts
  <2> HIDE DEF t
  <2>4. Sound(mem', Len(prog)) /\ Len(mem') \in {Len(mem), Len(mem) + 1}
    <3>1. CASE iscomp
      BY <2>1, <2>2, <2>3, <3>1, CodeSound
    <3>2. CASE ~iscomp
      BY <2>1, <3>2, InvFacts
    <3> QED
      BY <3>1, <3>2
  <2>5. Headed(words', Len(mem'))
    <3> DEFINE k == Len(mem')
    <3>1. k \in Nat /\ Len(mem) <= k
      BY <2>4, InvFacts
    <3> HIDE DEF k
    <3>2. Headed(words, k)
      BY <3>1, InvFacts, HeadedGrows
    <3> QED
      BY <2>1, <3>2 DEF k
  <2>6. ip' \in Nat \ {0}
    BY <2>1
  <2> QED
    BY <2>1, <2>4, <2>5, <2>6, InvFacts, StatusFacts, Concludes
<1> QED
  BY <1>1, <1>2, <1>3

LEMMA SystemKeeps ==
  ASSUME Inv, NEW w \in Primitives, NEW i \in Nat \ {0}, ip <= i, NEW back \in Int,
         System(w, i, back)
  PROVE  Inv'
<1>1. CASE w \in {"x", "flag", "DROP"}
  BY <1>1, ActKeeps DEF System
<1>2. CASE w \in {"CREATE", "VARIABLE"}
  BY <1>2, CreateKeeps DEF System
<1>3. CASE w = "DOES>"
  BY <1>3, DoesKeeps DEF System
<1>4. CASE w = "[COMPILE]"
  BY <1>4, BCompileKeeps DEF System
<1> QED
  BY <1>1, <1>2, <1>3, <1>4 DEF Primitives

LEMMA BegunKeeps ==
  ASSUME Inv, NEW code \in Int, NEW i \in Nat \ {0}, NEW back \in Int, Begun(code, i, back),
         RoomOnReturn, pstk' \in Seq(Int), Len(pstk') <= PStkCells
  PROVE  Inv'
<1>1. /\ prog' = prog /\ ip' = i /\ mem' = mem /\ words' = words /\ iscomp' = iscomp
      /\ wp' = code /\ rstk' = <<back>> \o rstk /\ status' = status
  BY DEF Begun
<1>2. rstk' \in Seq(Int) /\ Len(rstk') = Len(rstk) + 1
  BY <1>1, InvFacts, PushFacts
<1>3. Len(rstk') <= RStkCells
  BY <1>2, InvFacts DEF RoomOnReturn
<1> QED
  BY <1>1, <1>2, <1>3, InvFacts, StatusFacts, Concludes

LEMMA InvokeKeeps ==
  ASSUME Inv, NEW cfa \in 1 .. Len(mem), NEW i \in Nat \ {0}, NEW back \in Int,
         Invoke(cfa, i, back)
  PROVE  Inv'
<1> DEFINE op == mem[cfa].op
           code == mem[cfa + 1].arg
<1>0. cfa + 1 \in Int /\ cfa + 2 \in Int
  OBVIOUS
<1>1. CASE op = "docol" /\ ~RoomOnReturn
  BY <1>1, StopKeeps DEF Invoke, Reasons
<1>2. CASE op = "docol" /\ RoomOnReturn
  <2>1. Begun(cfa + 1, i, back) /\ pstk' = pstk
    BY <1>2 DEF Invoke
  <2> QED
    BY <1>0, <1>2, <2>1, InvFacts, BegunKeeps
<1>3. CASE op \notin {"docol", "douser"}
  <2>1. Stop("fault")
    BY <1>3 DEF Invoke
  <2> QED
    BY <2>1, StopKeeps DEF Reasons
<1>4. CASE op = "douser" /\ (code = 0 \/ Len(pstk) >= PStkCells)
  <2>1. Leave(cfa + 2, i, back)
    BY <1>4 DEF Invoke
  <2> QED
    BY <1>0, <2>1, LeaveKeeps
<1>5. CASE op = "douser" /\ ~(code = 0 \/ Len(pstk) >= PStkCells) /\ ~RoomOnReturn
  <2>1. Stop("rstkovf")
    BY <1>5 DEF Invoke
  <2> QED
    BY <2>1, StopKeeps DEF Reasons
<1>6. CASE op = "douser" /\ ~(code = 0 \/ Len(pstk) >= PStkCells) /\ RoomOnReturn
  <2>1. Begun(code, i, back) /\ pstk' = <<cfa + 2>> \o pstk
    BY <1>6 DEF Invoke
  <2>2. code \in Int
    BY <1>6, CellFacts DEF Paired
  <2>3. pstk' \in Seq(Int) /\ Len(pstk') = Len(pstk) + 1
    BY <1>0, <2>1, InvFacts, PushFacts
  <2>4. Len(pstk') <= PStkCells
    BY <1>6, <2>3, InvFacts
  <2> HIDE DEF code
  <2> QED
    BY <1>6, <2>1, <2>2, <2>3, <2>4, BegunKeeps
<1> QED
  BY <1>1, <1>2, <1>3, <1>4, <1>5, <1>6

-----------------------------------------------------------------------------
(* The words of the interpreter. *)

\* The interpreter reads a token of the text.
LEMMA ReadFacts ==
  ASSUME Inv, NEW w, Read(w)
  PROVE  /\ ip \in 1 .. Len(prog) /\ Token = prog[ip] /\ Token \in Tokens /\ Token \in w
         /\ \A n \in {1, 2} : Took(n) =>
              /\ prog' = prog /\ wp' = wp /\ status' = status /\ ip' \in Nat \ {0}
<1>1. ip <= Len(prog) /\ Token \in w
  BY DEF Read
<1>2. ip \in 1 .. Len(prog)
  BY <1>1, InvFacts
<1>3. Token = prog[ip] /\ Token \in Tokens
  BY <1>2, InvFacts DEF Token
<1>4. ASSUME NEW n \in {1, 2}, Took(n)
      PROVE  prog' = prog /\ wp' = wp /\ status' = status /\ ip' \in Nat \ {0}
  BY <1>4, InvFacts DEF Took
<1> QED
  BY <1>1, <1>2, <1>3, <1>4

\* What a compiling word appends.
LEMMA CompiledFacts ==
  ASSUME Inv, ip \in 1 .. Len(prog)
  PROVE  /\ Here \in Nat \ {0} /\ Here = Len(mem) + 1
         /\ \A w \in {"docol", "EXIT", "?FALSE", "?TRUE"} : Alone(Prim(w), Len(prog))
         /\ \A w \in {"JUMP", "?JUMP"} :
              Prim(w) \in Cells /\ Prim(w).tok \in 1 .. Len(prog) /\ Prim(w).op # "call"
         /\ \A a \in Int : Alone(Operand(a), Len(prog))
<1>1. ASSUME NEW w \in {"docol", "EXIT", "?FALSE", "?TRUE", "JUMP", "?JUMP"}
      PROVE  /\ Prim(w) \in Cells /\ Prim(w).tok \in 1 .. Len(prog) /\ Prim(w).op = w
  BY InvFacts DEF Prim, Cells, Kinds
<1>2. \A a \in Int : Alone(Operand(a), Len(prog))
  BY InvFacts DEF Operand, Cells, Kinds, Alone, Paired
<1>3. Here \in Nat \ {0} /\ Here = Len(mem) + 1
  BY InvFacts DEF Here
<1> QED
  BY <1>1, <1>2, <1>3 DEF Alone, Paired

LEMMA GrownFacts ==
  ASSUME Inv, NEW m, Sound(m, Len(prog)), NEW k \in Nat, Len(m) = Len(mem) + k, mem' = m
  PROVE  Sound(mem', Len(prog)) /\ Len(mem) <= Len(mem')
<1>1. Len(mem') = Len(mem) + k /\ Len(mem) \in Nat
  BY InvFacts
<1> QED
  BY <1>1

\* A word that only compiles and moves marks keeps the invariant.
LEMMA CompilesKeeps ==
  ASSUME Inv, NEW w, Read(w), Took(1), Sound(mem', Len(prog)), Len(mem) <= Len(mem'),
         words' = words, iscomp' \in BOOLEAN,
         rstk' \in Seq(Int), Len(rstk') <= RStkCells, pstk' = pstk
  PROVE  Inv'
<1>1. prog' = prog /\ wp' = wp /\ status' = status /\ ip' \in Nat \ {0}
  BY ReadFacts
<1>2. Headed(words', Len(mem'))
  <2> DEFINE k == Len(mem')
             m == mem'
  <2>1. m \in Seq(Cells)
    BY DEF Sound
  <2>2. k \in Nat /\ Len(mem) <= k
    BY <2>1
  <2> HIDE DEF k, m
  <2>3. Headed(words, k)
    BY <2>2, InvFacts, HeadedGrows
  <2> QED
    BY <2>3 DEF k
<1> QED
  BY <1>1, <1>2, InvFacts, StatusFacts, Concludes

LEMMA ColonKeeps ==
  ASSUME Inv, Colon
  PROVE  Inv'
<1>0. Read({":"})
  BY DEF Colon
<1>1. CASE ip = Len(prog)
  BY <1>1, StopKeeps DEF Colon, Reasons
<1>2. CASE ip # Len(prog)
  <2> DEFINE r == [name |-> prog[ip + 1], cfa |-> Here, hidden |-> TRUE, immediate |-> FALSE]
             c == Prim("docol")
  <2>1. /\ Took(2) /\ words' = Append(words, r) /\ mem' = Append(mem, c)
        /\ iscomp' = TRUE /\ rstk' = rstk /\ pstk' = pstk
    BY <1>2 DEF Colon
  <2>2. prog' = prog /\ wp' = wp /\ status' = status /\ ip' \in Nat \ {0}
    BY <1>0, <2>1, ReadFacts
  <2>3. ip \in 1 .. Len(prog) /\ ip + 1 \in 1 .. Len(prog)
    BY <1>0, <1>2, ReadFacts, InvFacts
  <2>4. r \in Headers /\ r.cfa = Len(mem) + 1
    <3>1. prog[ip + 1] \in Tokens /\ Here \in Nat /\ Here = Len(mem) + 1
      BY <2>3, InvFacts, CompiledFacts
    <3> QED
      BY <3>1 DEF Headers
  <2>5. Alone(c, Len(prog))
    BY <2>3, CompiledFacts
  <2> HIDE DEF c, r
  <2>6. Sound(Append(mem, c), Len(prog)) /\ Len(Append(mem, c)) = Len(mem) + 1
    BY <2>5, InvFacts, OneSound DEF Alone
  <2>7. Headed(words', Len(mem'))
    <3> DEFINE k == Len(mem) + 1
    <3>1. k \in Nat /\ Len(mem) <= k /\ r.cfa \in 1 .. k
      BY <2>4, InvFacts
    <3>2. Len(mem') = k
      BY <2>1, <2>6
    <3> HIDE DEF k
    <3>3. Headed(Append(words, r), k)
      BY <2>4, <3>1, InvFacts, HeadedAppend
    <3> QED
      BY <2>1, <3>2, <3>3
  <2> QED
    BY <2>1, <2>2, <2>6, <2>7, InvFacts, StatusFacts, Concludes
<1> QED
  BY <1>1, <1>2

LEMMA SemicolonKeeps ==
  ASSUME Inv, Semicolon
  PROVE  Inv'
<1>0. Read({";"})
  BY DEF Semicolon
<1>1. CASE words = <<>>
  BY <1>1, StopKeeps DEF Semicolon, Reasons
<1>2. CASE words # <<>>
  <2> DEFINE c == Prim("EXIT")
             j == Len(words)
  <2>1. /\ Took(1) /\ mem' = Append(mem, c) /\ words' = [words EXCEPT ![j]["hidden"] = FALSE]
        /\ iscomp' = FALSE /\ rstk' = rstk /\ pstk' = pstk
    BY <1>2 DEF Semicolon, OnLatest
  <2>2. prog' = prog /\ wp' = wp /\ status' = status /\ ip' \in Nat \ {0}
    BY <1>0, <2>1, ReadFacts
  <2>3. Alone(c, Len(prog))
    BY <1>0, ReadFacts, CompiledFacts
  <2>4. j \in 1 .. Len(words)
    BY <1>2, InvFacts
  <2> HIDE DEF c, j
  <2>5. Sound(Append(mem, c), Len(prog)) /\ Len(Append(mem, c)) = Len(mem) + 1
    BY <2>3, InvFacts, OneSound DEF Alone
  <2>6. Headed(words', Len(mem'))
    <3> DEFINE k == Len(mem) + 1
    <3>1. k \in Nat /\ Len(mem) <= k
      BY InvFacts
    <3>2. Len(mem') = k
      BY <2>1, <2>5
    <3> HIDE DEF k
    <3>3. Headed(words, k)
      BY <3>1, InvFacts, HeadedGrows
    <3>4. Headed([words EXCEPT ![j]["hidden"] = FALSE], k)
      BY <2>4, <3>1, <3>3, HeadedMarked
    <3> QED
      BY <2>1, <3>2, <3>4
  <2> QED
    BY <2>1, <2>2, <2>5, <2>6, InvFacts, StatusFacts, Concludes
<1> QED
  BY <1>1, <1>2

LEMMA MarkKeeps ==
  ASSUME Inv, Mark
  PROVE  Inv'
<1>0. Read({"IMMEDIATE", "HIDE", "UNHIDE"})
  BY DEF Mark
<1>1. CASE words = <<>>
  BY <1>1, StopKeeps DEF Mark, Reasons
<1>2. CASE words # <<>>
  <2> DEFINE field == IF Token = "IMMEDIATE" THEN "immediate" ELSE "hidden"
             value == Token # "UNHIDE"
             j == Len(words)
  <2>1. /\ Took(1) /\ words' = [words EXCEPT ![j][field] = value]
        /\ mem' = mem /\ iscomp' = iscomp /\ rstk' = rstk /\ pstk' = pstk
    BY <1>2 DEF Mark, OnLatest
  <2>2. prog' = prog /\ wp' = wp /\ status' = status /\ ip' \in Nat \ {0}
    BY <1>0, <2>1, ReadFacts
  <2>3. j \in 1 .. Len(words) /\ field \in {"hidden", "immediate"} /\ value \in BOOLEAN
    BY <1>2, InvFacts
  <2> HIDE DEF j, field, value
  <2>4. Headed([words EXCEPT ![j][field] = value], Len(mem))
    BY <2>3, InvFacts, HeadedMarked
  <2> QED
    BY <2>1, <2>2, <2>4, InvFacts, StatusFacts, Concludes
<1> QED
  BY <1>1, <1>2

LEMMA BracketKeeps ==
  ASSUME Inv, Bracket
  PROVE  Inv'
<1>1. /\ Read({"[", "]"}) /\ Took(1) /\ mem' = mem /\ words' = words /\ rstk' = rstk
      /\ pstk' = pstk /\ iscomp' \in BOOLEAN
  BY DEF Bracket
<1> QED
  BY <1>1, InvFacts, CompilesKeeps

\* IF, UNLESS and WHILE compile a test and leave a mark.
LEMMA TestKeeps ==
  ASSUME Inv, NEW w, Read(w), RoomOnReturn, Took(1), NEW op \in {"?FALSE", "?TRUE"},
         mem' = mem \o <<Prim(op), Prim("?JUMP"), Operand(0)>>,
         rstk' = <<Here + 2>> \o rstk, words' = words, iscomp' = iscomp, pstk' = pstk
  PROVE  Inv'
<1> DEFINE c == Prim(op)
           d == Prim("?JUMP")
           e == Operand(0)
           mark == Here + 2
<1>1. ip \in 1 .. Len(prog)
  BY ReadFacts
<1>2. /\ Alone(c, Len(prog)) /\ Alone(e, Len(prog)) /\ d \in Cells
      /\ d.tok \in 1 .. Len(prog) /\ d.op # "call"
  BY <1>1, CompiledFacts
<1>3. mark \in Int /\ rstk' = <<mark>> \o rstk /\ mem' = mem \o <<c, d, e>>
  BY <1>1, CompiledFacts
<1> HIDE DEF c, d, e, mark
<1>4. Sound(mem \o <<c, d, e>>, Len(prog)) /\ Len(mem \o <<c, d, e>>) = Len(mem) + 3
  <2>1. Len(prog) \in Nat /\ Sound(mem, Len(prog))
    BY InvFacts
  <2> QED
    BY <1>2, <2>1, ThreeSound
<1>5. Sound(mem', Len(prog)) /\ Len(mem) <= Len(mem')
  BY <1>3, <1>4, GrownFacts
<1>6. rstk' \in Seq(Int) /\ Len(rstk') = Len(rstk) + 1
  BY <1>3, InvFacts, PushFacts
<1>7. Len(rstk') <= RStkCells
  BY <1>6, InvFacts DEF RoomOnReturn
<1> QED
  BY <1>5, <1>6, <1>7, InvFacts, CompilesKeeps

LEMMA IfKeeps ==
  ASSUME Inv, If
  PROVE  Inv'
<1>1. CASE ~RoomOnReturn
  BY <1>1, StopKeeps DEF If, Reasons
<1>2. CASE RoomOnReturn
  <2> DEFINE op == IF Token = "IF" THEN "?FALSE" ELSE "?TRUE"
  <2>1. /\ Read({"IF", "UNLESS"}) /\ Took(1)
        /\ mem' = mem \o <<Prim(op), Prim("?JUMP"), Operand(0)>>
        /\ rstk' = <<Here + 2>> \o rstk /\ words' = words /\ iscomp' = iscomp /\ pstk' = pstk
    BY <1>2 DEF If
  <2>2. op \in {"?FALSE", "?TRUE"}
    OBVIOUS
  <2> HIDE DEF op
  <2> QED
    BY <1>2, <2>1, <2>2, TestKeeps
<1> QED
  BY <1>1, <1>2

LEMMA WhileKeeps ==
  ASSUME Inv, While
  PROVE  Inv'
<1>1. CASE ~RoomOnReturn
  BY <1>1, StopKeeps DEF While, Reasons
<1>2. CASE RoomOnReturn
  <2>1. /\ Read({"WHILE"}) /\ Took(1)
        /\ mem' = mem \o <<Prim("?FALSE"), Prim("?JUMP"), Operand(0)>>
        /\ rstk' = <<Here + 2>> \o rstk /\ words' = words /\ iscomp' = iscomp /\ pstk' = pstk
    BY <1>2 DEF While
  <2> QED
    BY <1>2, <2>1, TestKeeps
<1> QED
  BY <1>1, <1>2

LEMMA BeginKeeps ==
  ASSUME Inv, Begin
  PROVE  Inv'
<1>1. CASE ~RoomOnReturn
  BY <1>1, StopKeeps DEF Begin, Reasons
<1>2. CASE RoomOnReturn
  <2>1. /\ Read({"BEGIN"}) /\ Took(1) /\ mem' = mem /\ rstk' = <<Here>> \o rstk
        /\ words' = words /\ iscomp' = iscomp /\ pstk' = pstk
    BY <1>2 DEF Begin
  <2>2. rstk' \in Seq(Int) /\ Len(rstk') = Len(rstk) + 1
    <3>1. Here \in Int
      BY <2>1, ReadFacts, CompiledFacts
    <3> QED
      BY <2>1, <3>1, InvFacts, PushFacts
  <2>3. Len(rstk') <= RStkCells
    BY <1>2, <2>2, InvFacts DEF RoomOnReturn
  <2> QED
    BY <2>1, <2>2, <2>3, InvFacts, CompilesKeeps
<1> QED
  BY <1>1, <1>2

\* A jump over the address behind it.
LEMMA JumpSound ==
  ASSUME Inv, ip \in 1 .. Len(prog), NEW op \in {"JUMP", "?JUMP"}, NEW a \in Int
  PROVE  /\ Sound(mem \o <<Prim(op), Operand(a)>>, Len(prog))
         /\ Len(mem \o <<Prim(op), Operand(a)>>) = Len(mem) + 2
<1> DEFINE c == Prim(op)
           d == Operand(a)
<1>1. /\ Alone(d, Len(prog)) /\ c \in Cells /\ c.tok \in 1 .. Len(prog) /\ c.op # "call"
      /\ Len(prog) \in Nat /\ Sound(mem, Len(prog))
  BY InvFacts, CompiledFacts
<1> HIDE DEF c, d
<1>2. Sound(mem \o <<c, d>>, Len(prog)) /\ Len(mem \o <<c, d>>) = Len(mem) + 2
  BY <1>1, TwoSound
<1> QED
  BY <1>2 DEF c, d

LEMMA ElseKeeps ==
  ASSUME Inv, Else
  PROVE  Inv'
<1>1. CASE rstk = <<>>
  BY <1>1, StopKeeps DEF Else, Reasons
<1>2. CASE rstk # <<>> /\ ~Writable(Head(rstk))
  BY <1>2, StopKeeps DEF Else, Reasons
<1>3. CASE rstk # <<>> /\ Writable(Head(rstk))
  <2> DEFINE m == mem \o <<Prim("JUMP"), Operand(0)>>
             a == Head(rstk)
             v == Here + 2
             mark == Here + 1
  <2>1. /\ Read({"ELSE"}) /\ Took(1) /\ mem' = Patch(m, a, v) /\ rstk' = <<mark>> \o Tail(rstk)
        /\ words' = words /\ iscomp' = iscomp /\ pstk' = pstk
    BY <1>3 DEF Else
  <2>2. ip \in 1 .. Len(prog)
    BY <2>1, ReadFacts
  <2>3. Sound(m, Len(prog)) /\ Len(m) = Len(mem) + 2
    BY <2>2, JumpSound
  <2>4. v \in Int /\ mark \in Int
    BY <2>2, CompiledFacts
  <2> HIDE DEF m, a, v, mark
  <2>5. Sound(Patch(m, a, v), Len(prog)) /\ Len(Patch(m, a, v)) = Len(m)
    BY <2>3, <2>4, PatchSound
  <2>6. Sound(mem', Len(prog)) /\ Len(mem) <= Len(mem')
    BY <2>1, <2>3, <2>5, InvFacts
  <2>7. rstk' \in Seq(Int) /\ Len(rstk') <= RStkCells
    <3>1. Tail(rstk) \in Seq(Int) /\ Len(Tail(rstk)) = Len(rstk) - 1
      BY <1>3, InvFacts, PopFacts
    <3>2. rstk' \in Seq(Int) /\ Len(rstk') = Len(Tail(rstk)) + 1
      BY <2>1, <2>4, <3>1, PushFacts
    <3> QED
      BY <3>1, <3>2, InvFacts
  <2> QED
    BY <2>1, <2>6, <2>7, InvFacts, CompilesKeeps
<1> QED
  BY <1>1, <1>2, <1>3

LEMMA ThenKeeps ==
  ASSUME Inv, Then
  PROVE  Inv'
<1>1. CASE rstk = <<>>
  BY <1>1, StopKeeps DEF Then, Reasons
<1>2. CASE rstk # <<>> /\ ~Writable(Head(rstk))
  BY <1>2, StopKeeps DEF Then, Reasons
<1>3. CASE rstk # <<>> /\ Writable(Head(rstk))
  <2> DEFINE a == Head(rstk)
             v == Here
  <2>1. /\ Read({"THEN"}) /\ Took(1) /\ mem' = Patch(mem, a, v) /\ rstk' = Tail(rstk)
        /\ words' = words /\ iscomp' = iscomp /\ pstk' = pstk
    BY <1>3 DEF Then
  <2>2. v \in Int
    BY <2>1, ReadFacts, CompiledFacts
  <2> HIDE DEF a, v
  <2>3. Sound(mem', Len(prog)) /\ Len(mem) <= Len(mem')
    <3>1. Sound(Patch(mem, a, v), Len(prog)) /\ Len(Patch(mem, a, v)) = Len(mem)
      BY <2>2, InvFacts, PatchSound
    <3> QED
      BY <2>1, <3>1, InvFacts
  <2>4. rstk' \in Seq(Int) /\ Len(rstk') = Len(rstk) - 1
    BY <1>3, <2>1, InvFacts, PopFacts
  <2>5. Len(rstk') <= RStkCells
    BY <2>4, InvFacts
  <2> QED
    BY <2>1, <2>3, <2>4, <2>5, InvFacts, CompilesKeeps
<1> QED
  BY <1>1, <1>2, <1>3

LEMMA LoopKeeps ==
  ASSUME Inv, Loop
  PROVE  Inv'
<1>1. CASE rstk = <<>>
  BY <1>1, StopKeeps DEF Loop, Reasons
<1>2. CASE rstk # <<>>
  <2> DEFINE a == Head(rstk)
  <2>1. /\ Read({"AGAIN", "UNTIL"}) /\ Took(1) /\ rstk' = Tail(rstk)
        /\ mem' = mem \o (IF Token = "AGAIN" THEN <<Prim("JUMP")>>
                           ELSE <<Prim("?FALSE"), Prim("?JUMP")>>) \o <<Operand(a)>>
        /\ words' = words /\ iscomp' = iscomp /\ pstk' = pstk
    BY <1>2 DEF Loop
  <2>2. /\ ip \in 1 .. Len(prog)
        /\ a \in Int /\ rstk' \in Seq(Int) /\ Len(rstk') = Len(rstk) - 1
    BY <1>2, <2>1, ReadFacts, InvFacts, PopFacts
  <2> HIDE DEF a
  <2>3. Sound(mem', Len(prog)) /\ Len(mem) <= Len(mem')
    <3> DEFINE t == Prim("?FALSE")
               j == Prim("JUMP")
               q == Prim("?JUMP")
               d == Operand(a)
    <3>1. /\ Alone(t, Len(prog)) /\ Alone(d, Len(prog)) /\ j \in Cells
          /\ q \in Cells /\ q.tok \in 1 .. Len(prog) /\ q.op # "call"
          /\ Len(prog) \in Nat /\ Sound(mem, Len(prog)) /\ mem \in Seq(Cells)
      BY <2>2, InvFacts, CompiledFacts
    <3>2. Sound(mem \o <<j, d>>, Len(prog)) /\ Len(mem \o <<j, d>>) = Len(mem) + 2
      BY <2>2, JumpSound
    <3>3. mem' = mem \o (IF Token = "AGAIN" THEN <<j>> ELSE <<t, q>>) \o <<d>>
      BY <2>1
    <3> HIDE DEF t, j, q, d
    <3>4. t \in Cells /\ d \in Cells
      BY <3>1 DEF Alone
    <3>5. CASE Token = "AGAIN"
      <4>1. mem \o <<j>> \o <<d>> = mem \o <<j, d>>
        BY <3>1, <3>4
      <4> QED
        BY <3>2, <3>3, <3>5, <4>1, GrownFacts
    <3>6. CASE Token # "AGAIN"
      <4>1. mem \o <<t, q>> \o <<d>> = mem \o <<t, q, d>>
        BY <3>1, <3>4
      <4>2. Sound(mem \o <<t, q, d>>, Len(prog)) /\ Len(mem \o <<t, q, d>>) = Len(mem) + 3
        BY <3>1, ThreeSound
      <4> QED
        BY <3>3, <3>6, <4>1, <4>2, GrownFacts
    <3> QED
      BY <3>5, <3>6
  <2>4. Len(rstk') <= RStkCells
    BY <2>2, InvFacts
  <2> QED
    BY <2>1, <2>2, <2>3, <2>4, InvFacts, CompilesKeeps
<1> QED
  BY <1>1, <1>2

LEMMA RepeatKeeps ==
  ASSUME Inv, Repeat
  PROVE  Inv'
<1> DEFINE bad == Len(rstk) = 1 \/ ~Writable(Head(rstk))
<1>1. CASE rstk = <<>>
  BY <1>1, StopKeeps DEF Repeat, Reasons
<1>2. CASE rstk # <<>> /\ bad
  BY <1>2, StopKeeps DEF Repeat, Reasons
<1>3. CASE rstk # <<>> /\ ~bad
  <2> DEFINE b == rstk[2]
             m == mem \o <<Prim("JUMP"), Operand(b)>>
             a == rstk[1]
             v == Here + 2
  <2>1. /\ Read({"REPEAT"}) /\ Took(1) /\ mem' = Patch(m, a, v) /\ rstk' = Tail(Tail(rstk))
        /\ words' = words /\ iscomp' = iscomp /\ pstk' = pstk
    BY <1>3 DEF Repeat
  <2>2. ip \in 1 .. Len(prog)
    BY <2>1, ReadFacts
  <2>3. b \in Int /\ rstk' \in Seq(Int) /\ Len(rstk') <= RStkCells
    <3> DEFINE s == Tail(rstk)
    <3> DEFINE k == Len(rstk)
    <3>0. k \in Nat \ {0} /\ k # 1
      BY <1>3, InvFacts, PopFacts
    <3> HIDE DEF k
    <3>1. k \in Nat \ {0, 1} /\ 2 \in 1 .. k
      BY <3>0
    <3> USE DEF k
    <3>2. b \in Int
      BY <3>1, InvFacts
    <3>3. s \in Seq(Int) /\ Len(s) = Len(rstk) - 1 /\ rstk' = Tail(s)
      BY <1>3, <2>1, InvFacts, PopFacts
    <3> HIDE DEF s
    <3>4. s # <<>>
      BY <3>1, <3>3
    <3>5. rstk' \in Seq(Int) /\ Len(rstk') = Len(s) - 1
      BY <3>3, <3>4, PopFacts
    <3> QED
      BY <3>1, <3>2, <3>3, <3>5, InvFacts
  <2>4. Sound(m, Len(prog)) /\ Len(m) = Len(mem) + 2
    BY <2>2, <2>3, JumpSound
  <2>5. v \in Int
    BY <2>2, CompiledFacts
  <2> HIDE DEF m, a, v
  <2>6. Sound(Patch(m, a, v), Len(prog)) /\ Len(Patch(m, a, v)) = Len(m)
    BY <2>4, <2>5, PatchSound
  <2>7. Sound(mem', Len(prog)) /\ Len(mem) <= Len(mem')
    BY <2>1, <2>4, <2>6, InvFacts
  <2> QED
    BY <2>1, <2>3, <2>7, InvFacts, CompilesKeeps
<1> QED
  BY <1>1, <1>2, <1>3

LEMMA WordKeeps ==
  ASSUME Inv, Word
  PROVE  Inv'
<1> DEFINE known == Token \in Primitives \/ Find(Token) # 0
           compiled == iscomp /\ (Token \in Primitives \/ ~words[Find(Token)].immediate)
<1>1. /\ Read(Names \union Primitives) /\ ip \in 1 .. Len(prog) /\ Token \in Tokens
      /\ Token \in Names \union Primitives /\ ip + 1 \in Nat \ {0} /\ ip <= ip + 1
      /\ Interp \in Int
  BY ReadFacts, InvFacts DEF Word, Interp
<1>2. CASE ~known
  BY <1>2, StopKeeps DEF Word, Reasons
<1>3. CASE known /\ compiled
  <2> DEFINE t == Token
  <2>1. /\ Took(1) /\ mem' = Append(mem, CodeFor(t)) /\ words' = words /\ iscomp' = iscomp
        /\ rstk' = rstk /\ pstk' = pstk
    BY <1>3 DEF Word
  <2>2. t \in Tokens /\ (t \in Names => Find(t) # 0)
    BY <1>1, <1>3, TextAssumption
  <2> HIDE DEF t
  <2>3. Sound(Append(mem, CodeFor(t)), Len(prog)) /\ Len(Append(mem, CodeFor(t))) = Len(mem) + 1
    BY <1>1, <2>2, CodeSound
  <2>4. Sound(mem', Len(prog)) /\ Len(mem) <= Len(mem')
    BY <2>1, <2>3, GrownFacts
  <2> QED
    BY <1>1, <2>1, <2>4, InvFacts, CompilesKeeps
<1>4. CASE ~compiled /\ Token \in Primitives
  <2>1. System(Token, ip + 1, Interp)
    BY <1>4 DEF Word
  <2> QED
    BY <1>1, <1>4, <2>1, SystemKeeps
<1>5. CASE ~compiled /\ known /\ Token \notin Primitives
  <2> DEFINE cfa == words[Find(Token)].cfa
  <2>1. Invoke(cfa, ip + 1, Interp)
    BY <1>5 DEF Word
  <2>2. cfa \in 1 .. Len(mem)
    <3>1. Find(Token) \in 1 .. Len(words)
      BY <1>5, InvFacts, FindFacts
    <3> QED
      BY <3>1, InvFacts
  <2> HIDE DEF cfa
  <2> QED
    BY <1>1, <2>1, <2>2, InvokeKeeps
<1> QED
  BY <1>2, <1>3, <1>4, <1>5

-----------------------------------------------------------------------------
(* Compiled code. *)

\* A cell with code is in memory, except for the two return addresses.
LEMMA AtFacts ==
  ASSUME Inv, NEW ops, At(ops)
  PROVE  /\ CodeAt(wp) \in ops /\ wp + 1 \in Int /\ wp + 2 \in Int /\ ip <= ip
         /\ ops \intersect {"EXIT", "QUIT", "garbage"} = {} =>
              wp \in 1 .. Len(mem) /\ mem[wp].op \in ops
<1>1. CodeAt(wp) \in ops
  BY DEF At
<1>2. ASSUME wp \notin DOMAIN mem PROVE CodeAt(wp) \in {"EXIT", "QUIT", "garbage"}
  BY <1>2 DEF CodeAt
<1>3. ASSUME wp \in DOMAIN mem PROVE CodeAt(wp) = mem[wp].op /\ wp \in 1 .. Len(mem)
  BY <1>3, InvFacts DEF CodeAt, OuterExit, QuitAddr
<1> QED
  BY <1>1, <1>2, <1>3, InvFacts

LEMMA RunSystemKeeps ==
  ASSUME Inv, RunSystem
  PROVE  Inv'
<1> DEFINE w == mem[wp].op
<1>1. At(Primitives) /\ System(w, ip, wp + 1)
  BY DEF RunSystem
<1>2. w \in Primitives /\ wp + 1 \in Int /\ ip <= ip
  <2>1. Primitives \intersect {"EXIT", "QUIT", "garbage"} = {}
    BY DEF Primitives
  <2> QED
    BY <1>1, <2>1, AtFacts
<1> HIDE DEF w
<1> QED
  BY <1>1, <1>2, InvFacts, SystemKeeps

LEMMA RunCallKeeps ==
  ASSUME Inv, RunCall
  PROVE  Inv'
<1> DEFINE cfa == mem[wp].arg
<1>1. At({"call"}) /\ Invoke(cfa, ip, wp + 1)
  BY DEF RunCall
<1>2. wp \in 1 .. Len(mem) /\ mem[wp].op = "call" /\ wp + 1 \in Int
  <2>1. {"call"} \intersect {"EXIT", "QUIT", "garbage"} = {}
    OBVIOUS
  <2> QED
    BY <1>1, <2>1, AtFacts
<1>3. cfa \in 1 .. Len(mem)
  BY <1>2, CellFacts
<1> HIDE DEF cfa
<1> QED
  BY <1>1, <1>2, <1>3, InvFacts, InvokeKeeps

LEMMA RunExitKeeps ==
  ASSUME Inv, RunExit
  PROVE  Inv'
<1>1. CASE rstk = <<>>
  BY <1>1, StopKeeps DEF RunExit, Reasons
<1>2. CASE rstk # <<>>
  <2>1. /\ prog' = prog /\ ip' = ip /\ mem' = mem /\ words' = words /\ iscomp' = iscomp
        /\ wp' = Head(rstk) /\ rstk' = Tail(rstk) /\ pstk' = pstk /\ status' = status
    BY <1>2 DEF RunExit
  <2>2. wp' \in Int /\ rstk' \in Seq(Int) /\ Len(rstk') = Len(rstk) - 1
    BY <1>2, <2>1, InvFacts, PopFacts
  <2>3. Len(rstk') <= RStkCells
    BY <2>2, InvFacts
  <2> QED
    BY <2>1, <2>2, <2>3, InvFacts, StatusFacts, Concludes
<1> QED
  BY <1>1, <1>2

LEMMA RunTestKeeps ==
  ASSUME Inv, RunTest
  PROVE  Inv'
<1>1. CASE pstk = <<>>
  BY <1>1, StopKeeps DEF RunTest, Reasons
<1>2. CASE pstk # <<>>
  <2> DEFINE v == IF (mem[wp].op = "?TRUE") = (Head(pstk) # 0) THEN -1 ELSE 0
  <2>1. /\ prog' = prog /\ ip' = ip /\ mem' = mem /\ words' = words /\ iscomp' = iscomp
        /\ wp' = wp + 1 /\ rstk' = rstk /\ pstk' = <<v>> \o Tail(pstk) /\ status' = status
    BY <1>2 DEF RunTest, Goto
  <2>2. v \in Int /\ wp' \in Int
    BY <2>1, InvFacts
  <2> HIDE DEF v
  <2>3. pstk' \in Seq(Int) /\ Len(pstk') <= PStkCells
    <3>1. Tail(pstk) \in Seq(Int) /\ Len(Tail(pstk)) = Len(pstk) - 1
      BY <1>2, InvFacts, PopFacts
    <3>2. pstk' \in Seq(Int) /\ Len(pstk') = Len(Tail(pstk)) + 1
      BY <2>1, <2>2, <3>1, PushFacts
    <3> QED
      BY <3>1, <3>2, InvFacts
  <2> QED
    BY <2>1, <2>2, <2>3, InvFacts, StatusFacts, Concludes
<1> QED
  BY <1>1, <1>2

LEMMA RunJumpKeeps ==
  ASSUME Inv, RunJump
  PROVE  Inv'
<1> DEFINE short == mem[wp].op = "?JUMP" /\ pstk = <<>>
<1>0. wp \in 1 .. Len(mem) /\ mem[wp].op \in {"JUMP", "?JUMP"}
  <2>1. At({"JUMP", "?JUMP"})
    BY DEF RunJump
  <2>2. {"JUMP", "?JUMP"} \intersect {"EXIT", "QUIT", "garbage"} = {}
    OBVIOUS
  <2> QED
    BY <2>1, <2>2, AtFacts
<1>1. CASE short
  BY <1>1, StopKeeps DEF RunJump, Reasons
<1>2. CASE ~short
  <2>1. /\ prog' = prog /\ ip' = ip /\ mem' = mem /\ words' = words /\ iscomp' = iscomp
        /\ wp' = Target /\ rstk' = rstk /\ status' = status
        /\ pstk' = IF mem[wp].op = "JUMP" THEN pstk ELSE Tail(pstk)
    BY <1>2 DEF RunJump, Goto
  <2>2. Target \in Int
    <3>1. mem[wp + 1].arg \in Int /\ wp + 2 \in Int
      BY <1>0, CellFacts, InvFacts DEF Paired
    <3> QED
      BY <3>1 DEF Target
  <2>3. pstk' \in Seq(Int) /\ Len(pstk') <= PStkCells
    <3>1. CASE mem[wp].op = "JUMP"
      BY <2>1, <3>1, InvFacts
    <3>2. CASE mem[wp].op # "JUMP"
      <4>1. pstk # <<>>
        BY <1>0, <1>2, <3>2
      <4>2. pstk' \in Seq(Int) /\ Len(pstk') = Len(pstk) - 1
        BY <2>1, <3>2, <4>1, InvFacts, PopFacts
      <4> QED
        BY <4>2, InvFacts
    <3> QED
      BY <3>1, <3>2
  <2> QED
    BY <2>1, <2>2, <2>3, InvFacts, StatusFacts, Concludes
<1> QED
  BY <1>1, <1>2

-----------------------------------------------------------------------------
(* The invariant. *)

LEMMA InitInv ==
  Init => Inv
<1> SUFFICES ASSUME Init PROVE Inv
  OBVIOUS
<1>1. /\ prog \in Programs /\ ip = 1 /\ mem = <<>> /\ words = <<>> /\ iscomp = FALSE
      /\ wp = Interp /\ rstk = Frame /\ pstk = <<>> /\ status = "run"
  BY DEF Init
<1>2. Sound(mem, Len(prog)) /\ Headed(words, Len(mem))
  BY <1>1 DEF Sound, Headed
<1>3. rstk \in Seq(Int) /\ Len(rstk) = 2 /\ wp \in Int
  BY <1>1 DEF Frame, OuterExit, QuitAddr, Interp
<1>4. pstk \in Seq(Int) /\ Len(pstk) = 0
  BY <1>1
<1>5. Len(rstk) <= RStkCells /\ Len(pstk) <= PStkCells
  BY <1>3, <1>4, SizeAssumption
<1>6. ip \in Nat \ {0} /\ iscomp \in BOOLEAN
  <2>1. ip \in Nat \ {0}
    BY <1>1
  <2>2. iscomp \in BOOLEAN
    BY <1>1, Zenon
  <2> QED
    BY <2>1, <2>2
<1>7. status \in {"run"} \union Reasons
  BY <1>1
<1>8. Registers
  BY <1>3, <1>4, <1>5, <1>6, <1>7 DEF Registers, Reasons
<1> QED
  BY <1>1, <1>2, <1>8, Zenon DEF Inv

LEMMA NextInv ==
  Inv /\ [Next]_vars => Inv'
<1> SUFFICES ASSUME Inv, [Next]_vars PROVE Inv'
  OBVIOUS
<1>1. CASE Colon
  BY <1>1, ColonKeeps
<1>2. CASE Semicolon
  BY <1>2, SemicolonKeeps
<1>3. CASE Mark
  BY <1>3, MarkKeeps
<1>4. CASE Bracket
  BY <1>4, BracketKeeps
<1>5. CASE Word
  BY <1>5, WordKeeps
<1>6. CASE EndOfText
  BY <1>6, StopKeeps DEF EndOfText, Reasons
<1>7. CASE If
  BY <1>7, IfKeeps
<1>8. CASE Else
  BY <1>8, ElseKeeps
<1>9. CASE Then
  BY <1>9, ThenKeeps
<1>10. CASE Begin
  BY <1>10, BeginKeeps
<1>11. CASE Loop
  BY <1>11, LoopKeeps
<1>12. CASE While
  BY <1>12, WhileKeeps
<1>13. CASE Repeat
  BY <1>13, RepeatKeeps
<1>14. CASE RunSystem
  BY <1>14, RunSystemKeeps
<1>15. CASE RunCall
  BY <1>15, RunCallKeeps
<1>16. CASE RunExit
  BY <1>16, RunExitKeeps
<1>17. CASE RunTest
  BY <1>17, RunTestKeeps
<1>18. CASE RunJump
  BY <1>18, RunJumpKeeps
<1>19. CASE RunQuit
  BY <1>19, StopKeeps DEF RunQuit, Reasons
<1>20. CASE RunGarbage
  BY <1>20, StopKeeps DEF RunGarbage, Reasons
<1>21. CASE UNCHANGED vars
  <2>1. /\ prog' = prog /\ ip' = ip /\ mem' = mem /\ words' = words /\ iscomp' = iscomp
        /\ wp' = wp /\ rstk' = rstk /\ pstk' = pstk /\ status' = status
    BY <1>21 DEF vars
  <2> QED
    BY <2>1, InvFacts, StatusFacts, Concludes
<1> QED
  BY <1>1, <1>2, <1>3, <1>4, <1>5, <1>6, <1>7, <1>8, <1>9, <1>10, <1>11, <1>12, <1>13,
     <1>14, <1>15, <1>16, <1>17, <1>18, <1>19, <1>20, <1>21 DEF Next

LEMMA InvTypeOK ==
  Inv => TypeOK
<1> SUFFICES ASSUME Inv PROVE TypeOK
  OBVIOUS
<1>1. \A a \in DOMAIN mem :
        /\ mem[a].tok \in DOMAIN prog
        /\ mem[a].op = "call" => mem[a].arg \in DOMAIN mem
        /\ mem[a].op \in Paired => a + 1 \in DOMAIN mem
  BY InvFacts DEF Sound
<1>2. \A k \in DOMAIN words : words[k].cfa \in DOMAIN mem
  BY InvFacts
<1> QED
  BY <1>1, <1>2, InvFacts, StatusFacts DEF TypeOK, Reasons

(***************************************************************************)
(* For every set of texts and every size of the two stacks: the stacks     *)
(* stay within their sizes, every header has its codeword, a compiled call *)
(* is one of a cell, and behind a jump or the codeword of a created word   *)
(* stands the cell it uses (fvm_asm.nasm, NEXT and the compiling words).   *)
(* This holds also for texts whose marks do not match, which patch cells   *)
(* they should not: a patch turns a cell into an operand and makes no new  *)
(* code.                                                                   *)
(***************************************************************************)
THEOREM TypeCorrect == Spec => []TypeOK
<1>1. Spec => []Inv
  BY InitInv, NextInv, PTL DEF Spec
<1> QED
  BY <1>1, InvTypeOK, PTL
-----------------------------------------------------------------------------
(* The text: which structures are open at a token (SourceForth).           *)

\* Tokens counted on, one more, and in two parts.
LEMMA CountFacts ==
  ASSUME NEW S, NEW g \in Int, NEW h \in Int, g <= h + 1
  PROVE  /\ Source!Count(S, g, h) \in Nat
         /\ Source!Count(S, g, h + 1) =
              Source!Count(S, g, h) + (IF Source!Is(h + 1, S) THEN 1 ELSE 0)
         /\ g = h + 1 => Source!Count(S, g, h) = 0
<1> DEFINE A == {j \in g .. h : Source!Is(j, S)}
           B == {j \in g .. h + 1 : Source!Is(j, S)}
<1>1. IsFiniteSet(A)
  BY FS_Interval, FS_Subset
<1>2. B = IF Source!Is(h + 1, S) THEN A \union {h + 1} ELSE A
  <2>1. g .. h + 1 = (g .. h) \union {h + 1}
    OBVIOUS
  <2>2. CASE Source!Is(h + 1, S)
    BY <2>1, <2>2
  <2>3. CASE ~Source!Is(h + 1, S)
    BY <2>1, <2>3
  <2> QED
    BY <2>2, <2>3
<1>3. h + 1 \notin A /\ (g = h + 1 => A = {})
  OBVIOUS
<1>4. Source!Count(S, g, h) = Cardinality(A) /\ Source!Count(S, g, h + 1) = Cardinality(B)
  BY DEF Source!Count, Source!Cardinality, Cardinality
<1> HIDE DEF A, B
<1>5. Cardinality(A) \in Nat /\ (A = {} => Cardinality(A) = 0)
  <2>1. Cardinality(A) \in Nat
    BY <1>1, FS_CardinalityType
  <2>2. Cardinality({}) = 0
    BY FS_EmptySet
  <2> QED
    BY <2>1, <2>2
<1>6. Cardinality(A \union {h + 1}) = Cardinality(A) + 1
  BY <1>1, <1>3, FS_AddElement
<1> QED
  BY <1>2, <1>3, <1>4, <1>5, <1>6

LEMMA CountParts ==
  ASSUME NEW S, NEW g \in Int, NEW m \in Int, NEW h \in Int, g <= m, m <= h + 1
  PROVE  Source!Count(S, g, h) = Source!Count(S, g, m - 1) + Source!Count(S, m, h)
<1> DEFINE A == {j \in g .. h : Source!Is(j, S)}
           B == {j \in g .. m - 1 : Source!Is(j, S)}
           C == {j \in m .. h : Source!Is(j, S)}
<1>1. IsFiniteSet(B) /\ IsFiniteSet(C)
  <2>1. B \in SUBSET (g .. m - 1) /\ C \in SUBSET (m .. h)
    OBVIOUS
  <2>2. IsFiniteSet(g .. m - 1) /\ IsFiniteSet(m .. h)
    BY FS_Interval
  <2> HIDE DEF B, C
  <2> QED
    BY <2>1, <2>2, FS_Subset
<1>2. A = B \union C /\ B \intersect C = {}
  <2>1. g .. h = (g .. m - 1) \union (m .. h) /\ (g .. m - 1) \intersect (m .. h) = {}
    OBVIOUS
  <2> QED
    BY <2>1
<1>3. /\ Source!Count(S, g, h) = Cardinality(A) /\ Source!Count(S, g, m - 1) = Cardinality(B)
      /\ Source!Count(S, m, h) = Cardinality(C)
  BY DEF Source!Count, Source!Cardinality, Cardinality
<1> HIDE DEF A, B, C
<1>4. Cardinality(A) = Cardinality(B) + Cardinality(C) - Cardinality({})
  <2>1. Cardinality(B \union C) = Cardinality(B) + Cardinality(C) - Cardinality(B \intersect C)
    BY <1>1, FS_Union
  <2> QED
    BY <1>2, <2>1
<1>5. Cardinality({}) = 0 /\ Cardinality(B) \in Nat /\ Cardinality(C) \in Nat
  BY <1>1, FS_EmptySet, FS_CardinalityType
<1> QED
  BY <1>3, <1>4, <1>5

\* The structures open behind h of those that begin at g.
Depth(g, h) == Source!Count(Source!Openers, g, h) - Source!Count(Source!Closers, g, h)

\* An opening token goes one level down, a closing one up.
LEMMA DepthFacts ==
  ASSUME NEW g \in Int, NEW h \in Int, g <= h + 1
  PROVE  /\ Depth(g, h) \in Int
         /\ Source!Is(h + 1, Source!Openers) => Depth(g, h + 1) = Depth(g, h) + 1
         /\ Source!Is(h + 1, Source!Closers) => Depth(g, h + 1) = Depth(g, h) - 1
         /\ ~Source!Is(h + 1, Source!Openers) /\ ~Source!Is(h + 1, Source!Closers) =>
              Depth(g, h + 1) = Depth(g, h)
         /\ g = h + 1 => Depth(g, h) = 0
<1> DEFINE o == Source!Count(Source!Openers, g, h)
           c == Source!Count(Source!Closers, g, h)
           p == Source!Count(Source!Openers, g, h + 1)
           d == Source!Count(Source!Closers, g, h + 1)
<1>1. ~(Source!Is(h + 1, Source!Openers) /\ Source!Is(h + 1, Source!Closers))
  BY DEF Source!Is, Source!Openers, Source!Closers
<1>2. o \in Nat /\ p = o + (IF Source!Is(h + 1, Source!Openers) THEN 1 ELSE 0)
      /\ (g = h + 1 => o = 0)
  BY CountFacts
<1>3. c \in Nat /\ d = c + (IF Source!Is(h + 1, Source!Closers) THEN 1 ELSE 0)
      /\ (g = h + 1 => c = 0)
  BY CountFacts
<1>4. Depth(g, h) = o - c /\ Depth(g, h + 1) = p - d
  BY DEF Depth
<1> HIDE DEF o, c, p, d
<1> QED
  BY <1>1, <1>2, <1>3, <1>4

\* The levels of two stretches of text add up.
LEMMA DepthParts ==
  ASSUME NEW g \in Int, NEW m \in Int, NEW h \in Int, g <= m, m <= h + 1
  PROVE  /\ Depth(g, m - 1) \in Int /\ Depth(m, h) \in Int
         /\ Depth(g, h) = Depth(g, m - 1) + Depth(m, h)
<1>1. Depth(g, m - 1) \in Int /\ Depth(m, h) \in Int
  <2> DEFINE k == m - 1
  <2>1. k \in Int /\ g <= k + 1
    OBVIOUS
  <2> HIDE DEF k
  <2>2. Depth(g, k) \in Int /\ Depth(m, h) \in Int
    BY <2>1, DepthFacts
  <2> QED
    BY <2>2 DEF k
<1>2. /\ Source!Count(Source!Openers, g, h) =
           Source!Count(Source!Openers, g, m - 1) + Source!Count(Source!Openers, m, h)
      /\ Source!Count(Source!Closers, g, h) =
           Source!Count(Source!Closers, g, m - 1) + Source!Count(Source!Closers, m, h)
  BY CountParts
<1>3. /\ Source!Count(Source!Openers, g, m - 1) \in Nat /\ Source!Count(Source!Openers, m, h) \in Nat
      /\ Source!Count(Source!Closers, g, m - 1) \in Nat /\ Source!Count(Source!Closers, m, h) \in Nat
  <2> DEFINE k == m - 1
  <2>1. k \in Int /\ g <= k + 1
    OBVIOUS
  <2> HIDE DEF k
  <2>2. \A S : Source!Count(S, g, k) \in Nat /\ Source!Count(S, m, h) \in Nat
    BY <2>1, CountFacts
  <2> QED
    BY <2>2 DEF k
<1> QED
  BY <1>1, <1>2, <1>3 DEF Depth

\* A structure is open as long as nothing has closed its level.
LEMMA OpenAtIs ==
  ASSUME NEW j
  PROVE  Source!OpenAt(j) = {i \in 1 .. j - 1 : /\ Source!Is(i, Source!Openers)
                                                /\ \A h \in i .. j - 1 : Depth(i, h) > 0}
<1>1. ASSUME NEW i \in 1 .. j - 1, NEW h \in i .. j - 1
      PROVE  Source!Count(Source!Openers, i, h) > Source!Count(Source!Closers, i, h)
               <=> Depth(i, h) > 0
  <2>1. i \in Int /\ h \in Int /\ i <= h + 1
    OBVIOUS
  <2>2. \A S : Source!Count(S, i, h) \in Nat
    BY <2>1, CountFacts
  <2> QED
    BY <2>2 DEF Depth
<1> QED
  BY <1>1 DEF Source!OpenAt

\* The greatest element of a set of tokens.
LEMMA MaxFacts ==
  ASSUME NEW n \in Nat, NEW T, T \subseteq 1 .. n, T # {}
  PROVE  Source!Max(T) \in T /\ \A y \in T : y <= Source!Max(T)
<1>1. \E x \in T : \A y \in T : x >= y
  BY GreatestExists
<1>2. Source!Max(T) = CHOOSE x \in T : \A y \in T : x >= y
  BY DEF Source!Max
<1>3. Source!Max(T) \in T /\ \A y \in T : Source!Max(T) >= y
  BY <1>1, <1>2, Zenon
<1> DEFINE m == Source!Max(T)
<1>4. m \in T /\ \A y \in T : m >= y
  BY <1>3
<1> HIDE DEF m
<1>5. ASSUME NEW y \in T PROVE y <= m
  <2>1. m \in 1 .. n /\ y \in 1 .. n /\ m >= y
    BY <1>4
  <2> QED
    BY <2>1
<1>6. m \in T /\ \A y \in T : y <= m
  BY <1>4, <1>5
<1> QED
  BY <1>6 DEF m

\* The least element of a set of numbers.
LEMMA LeastExists ==
  ASSUME NEW T, T \subseteq Nat, T # {}
  PROVE  \E x \in T : \A y \in T : x <= y
<1>1. PICK x \in T : \A y \in T : ~ (<<y, x>> \in OpToRel(<, Nat))
  BY WFMin, NatLessThanWellFounded, Zenon
<1>2. \A y \in T : ~ (y < x)
  BY <1>1, Zenon DEF OpToRel
<1>3. ASSUME NEW y \in T PROVE x <= y
  <2>1. x \in Nat /\ y \in Nat /\ ~(y < x)
    BY <1>2
  <2> QED
    BY <2>1
<1> QED
  BY <1>3

LEMMA MinFacts ==
  ASSUME NEW T, T \subseteq Nat, T # {}
  PROVE  Source!Min(T) \in T /\ \A y \in T : Source!Min(T) <= y
<1>1. \E x \in T : \A y \in T : x <= y
  BY LeastExists
<1>2. Source!Min(T) = CHOOSE x \in T : \A y \in T : x <= y
  BY DEF Source!Min
<1> QED
  BY <1>1, <1>2, Zenon

\* A token that is no structure leaves them open as they are.
LEMMA OpenAtOther ==
  ASSUME NEW i \in Nat \ {0}, ~Source!Is(i, Source!Openers), ~Source!Is(i, Source!Closers)
  PROVE  Source!OpenAt(i + 1) = Source!OpenAt(i)
<1> DEFINE A == Source!OpenAt(i)
           B == Source!OpenAt(i + 1)
<1>1. A = {g \in 1 .. i - 1 : /\ Source!Is(g, Source!Openers)
                              /\ \A h \in g .. i - 1 : Depth(g, h) > 0}
  BY OpenAtIs
<1>2. B = {g \in 1 .. (i + 1) - 1 : /\ Source!Is(g, Source!Openers)
                                    /\ \A h \in g .. (i + 1) - 1 : Depth(g, h) > 0}
  BY OpenAtIs
<1> HIDE DEF A, B
<1>3. (i + 1) - 1 = i
  OBVIOUS
<1>4. ASSUME NEW g \in 1 .. i - 1 PROVE Depth(g, i) = Depth(g, i - 1) /\ i - 1 \in g .. i - 1
  <2> DEFINE k == i - 1
  <2>1. k \in Int /\ g \in Int /\ g <= k + 1 /\ k + 1 = i
    OBVIOUS
  <2> HIDE DEF k
  <2>2. Depth(g, k + 1) = Depth(g, k)
    BY <2>1, DepthFacts
  <2> QED
    BY <2>1, <2>2 DEF k
<1>5. ASSUME NEW g \in A PROVE g \in B
  <2>1. g \in 1 .. i - 1 /\ Source!Is(g, Source!Openers) /\ \A h \in g .. i - 1 : Depth(g, h) > 0
    BY <1>1
  <2>2. ASSUME NEW h \in g .. i PROVE Depth(g, h) > 0
    <3>1. h = i \/ h \in g .. i - 1
      BY <2>1
    <3> QED
      BY <1>4, <2>1, <3>1
  <2>3. g \in 1 .. i
    BY <2>1
  <2> QED
    BY <1>2, <1>3, <2>1, <2>2, <2>3
<1>6. ASSUME NEW g \in B PROVE g \in A
  <2>1. g \in 1 .. i /\ Source!Is(g, Source!Openers) /\ \A h \in g .. i : Depth(g, h) > 0
    BY <1>2, <1>3
  <2>2. g \in 1 .. i - 1 /\ g .. i - 1 \subseteq g .. i
    BY <2>1
  <2> QED
    BY <1>1, <2>1, <2>2
<1> QED
  BY <1>5, <1>6 DEF A, B

\* A token that opens a structure adds it.
LEMMA OpenAtOpener ==
  ASSUME NEW i \in Nat \ {0}, Source!Is(i, Source!Openers)
  PROVE  Source!OpenAt(i + 1) = Source!OpenAt(i) \union {i}
<1> DEFINE A == Source!OpenAt(i)
           B == Source!OpenAt(i + 1)
<1>1. A = {g \in 1 .. i - 1 : /\ Source!Is(g, Source!Openers)
                              /\ \A h \in g .. i - 1 : Depth(g, h) > 0}
  BY OpenAtIs
<1>2. B = {g \in 1 .. (i + 1) - 1 : /\ Source!Is(g, Source!Openers)
                                    /\ \A h \in g .. (i + 1) - 1 : Depth(g, h) > 0}
  BY OpenAtIs
<1> HIDE DEF A, B
<1>3. (i + 1) - 1 = i
  OBVIOUS
<1>4. ASSUME NEW g \in 1 .. i
      PROVE  /\ Depth(g, i - 1) \in Int /\ Depth(g, i) = Depth(g, i - 1) + 1
             /\ g = i => Depth(g, i - 1) = 0
             /\ g # i => i - 1 \in g .. i - 1
  <2> DEFINE k == i - 1
  <2>1. k \in Int /\ g \in Int /\ g <= k + 1 /\ k + 1 = i
    OBVIOUS
  <2> HIDE DEF k
  <2>2. Depth(g, k) \in Int /\ Depth(g, k + 1) = Depth(g, k) + 1 /\ (g = k + 1 => Depth(g, k) = 0)
    BY <2>1, DepthFacts
  <2>3. g # i => k \in g .. k
    BY <2>1
  <2> QED
    BY <2>1, <2>2, <2>3 DEF k
<1>5. ASSUME NEW g \in A \union {i} PROVE g \in B
  <2>1. g \in 1 .. i /\ Source!Is(g, Source!Openers)
    BY <1>1
  <2>2. g # i => \A h \in g .. i - 1 : Depth(g, h) > 0
    BY <1>1
  <2>3. Depth(g, i) > 0
    BY <1>4, <2>1, <2>2
  <2>4. ASSUME NEW h \in g .. i PROVE Depth(g, h) > 0
    <3>1. h = i \/ (h \in g .. i - 1 /\ g # i)
      BY <2>1
    <3> QED
      BY <2>2, <2>3, <3>1
  <2> QED
    BY <1>2, <1>3, <2>1, <2>4
<1>6. ASSUME NEW g \in B, g # i PROVE g \in A
  <2>1. g \in 1 .. i /\ Source!Is(g, Source!Openers) /\ \A h \in g .. i : Depth(g, h) > 0
    BY <1>2, <1>3
  <2>2. g \in 1 .. i - 1 /\ g .. i - 1 \subseteq g .. i
    BY <1>6, <2>1
  <2> QED
    BY <1>1, <2>1, <2>2
<1> QED
  BY <1>5, <1>6 DEF A, B

\* What is known of an open structure.
LEMMA OpenAtFacts ==
  ASSUME NEW i \in Nat \ {0}, NEW g \in Source!OpenAt(i)
  PROVE  /\ g \in 1 .. i - 1 /\ Source!Is(g, Source!Openers)
         /\ Depth(g, i - 1) \in Nat \ {0} /\ Depth(g, g) = 1
         /\ \A h \in g .. i - 1 : Depth(g, h) \in Nat \ {0}
<1>1. g \in 1 .. i - 1 /\ Source!Is(g, Source!Openers) /\ \A h \in g .. i - 1 : Depth(g, h) > 0
  BY OpenAtIs
<1>2. \A h \in g .. i - 1 : Depth(g, h) \in Int
  <2>1. ASSUME NEW h \in g .. i - 1 PROVE Depth(g, h) \in Int
    <3>1. h \in Int /\ g \in Int /\ g <= h + 1
      BY <1>1
    <3> QED
      BY <3>1, DepthFacts
  <2> QED
    BY <2>1
<1>3. \A h \in g .. i - 1 : Depth(g, h) \in Nat \ {0}
  BY <1>1, <1>2
<1>4. Depth(g, g) = 1
  <2> DEFINE k == g - 1
  <2>1. k \in Int /\ g \in Int /\ g <= k + 1 /\ g = k + 1
    BY <1>1
  <2> HIDE DEF k
  <2>2. Depth(g, k + 1) = Depth(g, k) + 1 /\ Depth(g, k) = 0
    BY <1>1, <2>1, DepthFacts
  <2> QED
    BY <2>1, <2>2
<1>5. i - 1 \in g .. i - 1
  BY <1>1
<1> QED
  BY <1>1, <1>3, <1>4, <1>5

\* The innermost open structure has nothing open inside.
LEMMA InnermostDepth ==
  ASSUME NEW i \in Nat \ {0}, NEW m \in Source!OpenAt(i), \A g \in Source!OpenAt(i) : g <= m
  PROVE  Depth(m, i - 1) = 1
<1> SUFFICES ASSUME Depth(m, i - 1) # 1 PROVE FALSE
  OBVIOUS
<1> DEFINE T == {h \in m .. i - 1 : Depth(m, h) = 1}
           n == i - 1
<1>1. /\ m \in 1 .. n /\ Source!Is(m, Source!Openers) /\ Depth(m, m) = 1
      /\ \A h \in m .. n : Depth(m, h) \in Nat \ {0}
  BY OpenAtFacts
<1>2. n \in Nat /\ T \subseteq 1 .. n /\ m \in T
  BY <1>1
<1>3. PICK x \in T : \A y \in T : x >= y
  <2>1. T # {}
    BY <1>2
  <2> HIDE DEF T, n
  <2> QED
    BY <1>2, <2>1, GreatestExists
<1>4. x \in m .. n /\ Depth(m, x) = 1 /\ x # n
  OBVIOUS
<1> DEFINE g == x + 1
<1>5. g \in m .. n /\ m \in Int /\ x \in Int /\ m <= x + 1 /\ g \in Int /\ g - 1 = x /\ m <= g
  BY <1>1, <1>2, <1>4
<1>6. ASSUME NEW h \in g .. n PROVE Depth(m, h) \in Nat \ {0, 1}
  <2>1. h \in m .. n /\ ~(x >= h)
    BY <1>4, <1>5
  <2>2. Depth(m, h) \in Nat \ {0} /\ h \notin T
    BY <1>1, <1>3, <2>1
  <2> QED
    BY <2>1, <2>2
<1>7. Source!Is(g, Source!Openers)
  <2>1. Depth(m, g) \in Nat \ {0, 1}
    BY <1>5, <1>6
  <2>2. /\ Source!Is(x + 1, Source!Closers) => Depth(m, x + 1) = Depth(m, x) - 1
        /\ ~Source!Is(x + 1, Source!Openers) /\ ~Source!Is(x + 1, Source!Closers) =>
             Depth(m, x + 1) = Depth(m, x)
    BY <1>5, DepthFacts
  <2> QED
    BY <1>4, <2>1, <2>2
<1>8. ASSUME NEW h \in g .. n PROVE Depth(g, h) > 0
  <2>1. h \in Int /\ g <= h + 1
    BY <1>5
  <2> HIDE DEF g
  <2>2. Depth(g, h) \in Int /\ Depth(m, h) = Depth(m, g - 1) + Depth(g, h)
    BY <1>5, <2>1, DepthParts
  <2> QED
    BY <1>4, <1>5, <1>6, <2>2
<1>9. g \in Source!OpenAt(i)
  <2>1. g \in 1 .. i - 1
    BY <1>1, <1>5
  <2> HIDE DEF g
  <2>2. \A h \in g .. i - 1 : Depth(g, h) > 0
    BY <1>8
  <2> QED
    BY <1>7, <2>1, <2>2, OpenAtIs
<1> QED
  BY <1>1, <1>4, <1>5, <1>9

\* A closing token closes the innermost structure.
LEMMA OpenAtCloser ==
  ASSUME NEW i \in Nat \ {0}, Source!Is(i, Source!Closers), Source!OpenAt(i) # {},
         NEW m, m = Source!OpenerOf(i)
  PROVE  /\ m \in Source!OpenAt(i) /\ m \in 1 .. i - 1 /\ \A g \in Source!OpenAt(i) : g <= m
         /\ Source!OpenAt(i + 1) = Source!OpenAt(i) \ {m}
         /\ Depth(m, i) = 0 /\ \A h \in m .. i - 1 : Depth(m, h) \in Nat \ {0}
<1> DEFINE A == Source!OpenAt(i)
           B == Source!OpenAt(i + 1)
<1>1. A = {g \in 1 .. i - 1 : /\ Source!Is(g, Source!Openers)
                              /\ \A h \in g .. i - 1 : Depth(g, h) > 0}
  BY OpenAtIs
<1>2. B = {g \in 1 .. (i + 1) - 1 : /\ Source!Is(g, Source!Openers)
                                    /\ \A h \in g .. (i + 1) - 1 : Depth(g, h) > 0}
  BY OpenAtIs
<1>3. (i + 1) - 1 = i /\ i - 1 \in Nat /\ A # {}
  OBVIOUS
<1>4. m = Source!Max(A)
  BY DEF Source!OpenerOf
<1> HIDE DEF A
<1>5. m \in A /\ \A g \in A : g <= m
  <2> DEFINE n == i - 1
  <2>1. n \in Nat /\ A \subseteq 1 .. n
    BY <1>1, <1>3
  <2> HIDE DEF n
  <2> QED
    BY <1>3, <1>4, <2>1, MaxFacts
<1> USE DEF A
<1>6. /\ m \in 1 .. i - 1 /\ \A h \in m .. i - 1 : Depth(m, h) \in Nat \ {0}
  BY <1>5, OpenAtFacts
<1>7. Depth(m, i - 1) = 1
  BY <1>5, InnermostDepth
<1>8. ASSUME NEW g \in 1 .. i - 1
      PROVE  Depth(g, i - 1) \in Int /\ Depth(g, i) = Depth(g, i - 1) - 1
  <2> DEFINE k == i - 1
  <2>1. k \in Int /\ g \in Int /\ g <= k + 1 /\ k + 1 = i
    OBVIOUS
  <2> HIDE DEF k
  <2>2. Depth(g, k) \in Int /\ Depth(g, k + 1) = Depth(g, k) - 1
    BY <2>1, DepthFacts
  <2> QED
    BY <2>1, <2>2 DEF k
<1>9. Depth(m, i) = 0
  BY <1>6, <1>7, <1>8
<1>10. ASSUME NEW g \in A, g # m PROVE g \in B
  <2>1. g \in 1 .. i - 1 /\ Source!Is(g, Source!Openers) /\ \A h \in g .. i - 1 : Depth(g, h) \in Nat \ {0}
    BY OpenAtFacts
  <2>2. g < m
    BY <1>5, <1>6, <1>10, <2>1
  <2>3. Depth(g, i - 1) = Depth(g, m - 1) + Depth(m, i - 1)
    <3> DEFINE n == i - 1
    <3>1. g \in Int /\ m \in Int /\ n \in Int /\ g <= m /\ m <= n + 1
      BY <1>6, <2>1, <2>2
    <3> HIDE DEF n
    <3>2. Depth(g, n) = Depth(g, m - 1) + Depth(m, n)
      BY <3>1, DepthParts
    <3> QED
      BY <3>2 DEF n
  <2>4. Depth(g, m - 1) \in Nat \ {0}
    <3>1. m - 1 \in g .. i - 1
      BY <1>6, <2>1, <2>2
    <3> QED
      BY <2>1, <3>1
  <2>5. Depth(g, i) > 0
    BY <1>7, <1>8, <2>1, <2>3, <2>4
  <2>6. ASSUME NEW h \in g .. i PROVE Depth(g, h) > 0
    <3>1. h = i \/ h \in g .. i - 1
      BY <2>1
    <3> QED
      BY <2>1, <2>5, <3>1
  <2>7. g \in 1 .. i
    BY <2>1
  <2> QED
    BY <1>2, <1>3, <2>1, <2>6, <2>7
<1>11. ASSUME NEW g \in B PROVE g \in A /\ g # m
  <2>1. g \in 1 .. i /\ Source!Is(g, Source!Openers) /\ \A h \in g .. i : Depth(g, h) > 0
    BY <1>2, <1>3
  <2>2. g # i
    BY <2>1 DEF Source!Is, Source!Openers, Source!Closers
  <2>3. g \in 1 .. i - 1 /\ g .. i - 1 \subseteq g .. i /\ i \in g .. i
    BY <2>1, <2>2
  <2>4. g # m
    BY <1>9, <2>1, <2>3
  <2> QED
    BY <1>1, <2>1, <2>3, <2>4
<1>12. B = A \ {m}
  BY <1>10, <1>11
<1> QED
  BY <1>5, <1>6, <1>9, <1>12
-----------------------------------------------------------------------------
(* Well-formed texts. *)

\* What a well-formed text says about the structures; the words known are left out.
WellBuilt ==
  /\ \A k \in Source!Pos : Source!IsDef(k) =>
       Source!Ends(k) # {} /\ Source!Balanced(k, Source!Min(Source!Ends(k)))
  /\ \A i \in Source!Pos :
       /\ Source!Is(i, Source!Structure \union {";"}) => Source!Compiling(i)
       /\ ~Source!Is(i, {"[COMPILE]"})
       /\ Source!Is(i, {"["}) => Source!Compiling(i)
       /\ Source!Is(i, {"]"}) =>
            \E j \in 1 .. i - 1 : Source!Is(j, {"["}) /\ Source!Count({";", "]"}, j, i) = 1
       /\ Source!Is(i, {"DOES>"}) => Source!Compiling(i)

LEMMA WellFormedIsBuilt == Source!WellFormed => WellBuilt
BY DEF Source!WellFormed, WellBuilt

LEMMA PosFacts ==
  ASSUME prog \in Programs
  PROVE  /\ Source!Pos = 1 .. Len(prog) /\ Len(prog) \in Nat
         /\ \A i \in Nat \ {0} : i <= Len(prog) => i \in Source!Pos
         /\ \A i, S : Source!Is(i, S) <=> i \in 1 .. Len(prog) /\ prog[i] \in S
BY ProgFacts DEF Source!Pos, Source!Is

Switching == {":", ";", "[", "]"}

\* The last switch before a token decides.
LEMMA CompilingIs ==
  ASSUME NEW i \in Nat \ {0}, prog \in Programs
  PROVE  Source!Compiling(i) <=>
           \E m \in 1 .. i - 1 : /\ Source!Is(m, {":", "]"})
                                 /\ \A j \in m + 1 .. i - 1 : ~Source!Is(j, Switching)
<1> DEFINE T == {j \in 1 .. i - 1 : Source!Is(j, Switching)}
           n == i - 1
<1>1. n \in Nat /\ T \subseteq 1 .. n
  OBVIOUS
<1>2. Source!Compiling(i) <=> T # {} /\ prog[Source!Max(T)] \in {":", "]"}
  BY DEF Source!Compiling, Switching
<1>3. ASSUME T # {}, prog[Source!Max(T)] \in {":", "]"}
      PROVE  \E m \in 1 .. i - 1 : /\ Source!Is(m, {":", "]"})
                                   /\ \A j \in m + 1 .. i - 1 : ~Source!Is(j, Switching)
  <2> DEFINE m == Source!Max(T)
  <2>1. m \in T /\ \A y \in T : y <= m
    <3> HIDE DEF T, n
    <3> QED
      BY <1>1, <1>3, MaxFacts
  <2>2. prog[m] \in {":", "]"}
    BY <1>3
  <2> HIDE DEF m
  <2>3. m \in 1 .. i - 1 /\ Source!Is(m, {":", "]"})
    BY <2>1, <2>2, PosFacts
  <2>4. ASSUME NEW j \in m + 1 .. i - 1 PROVE ~Source!Is(j, Switching)
    <3>1. j \in 1 .. i - 1 /\ ~(j <= m)
      BY <2>3
    <3> QED
      BY <2>1, <3>1
  <2> QED
    BY <2>3, <2>4
<1>4. ASSUME NEW m \in 1 .. i - 1, Source!Is(m, {":", "]"}),
             \A j \in m + 1 .. i - 1 : ~Source!Is(j, Switching)
      PROVE  T # {} /\ prog[Source!Max(T)] \in {":", "]"}
  <2>1. m \in T /\ prog[m] \in {":", "]"}
    BY <1>4 DEF Switching, Source!Is
  <2> DEFINE x == Source!Max(T)
  <2>2. x \in T /\ \A y \in T : y <= x
    <3>1. T # {}
      BY <2>1
    <3> HIDE DEF T, n
    <3> QED
      BY <1>1, <3>1, MaxFacts
  <2> HIDE DEF x
  <2>3. x \in 1 .. i - 1 /\ Source!Is(x, Switching) /\ m <= x
    BY <2>1, <2>2
  <2>4. x = m
    <3>1. x \notin m + 1 .. i - 1
      BY <1>4, <2>3
    <3> QED
      BY <2>3, <3>1
  <2> QED
    BY <2>1, <2>4 DEF x
<1> QED
  BY <1>2, <1>3, <1>4

Enclosed(p) ==
  \E k \in 1 .. p - 1 :
    Source!Is(k, {":"}) /\ \A j \in k + 1 .. p - 1 : ~Source!Is(j, {";"})

\* What is compiled stands in a definition.
LEMMA InDefinition ==
  ASSUME WellBuilt, prog \in Programs, NEW i \in Nat \ {0}, Source!Compiling(i)
  PROVE  Enclosed(i)
<1> DEFINE T == {p \in Nat \ {0} : Source!Compiling(p) /\ ~Enclosed(p)}
<1> SUFFICES ASSUME T # {} PROVE FALSE
  OBVIOUS
<1>1. PICK p \in T : \A q \in T : p <= q
  <2>1. T \subseteq Nat
    OBVIOUS
  <2> HIDE DEF T
  <2> QED
    BY <2>1, LeastExists
<1>2. p \in Nat \ {0} /\ Source!Compiling(p) /\ ~Enclosed(p)
  OBVIOUS
<1>3. PICK m \in 1 .. p - 1 : /\ Source!Is(m, {":", "]"})
                              /\ \A j \in m + 1 .. p - 1 : ~Source!Is(j, Switching)
  BY <1>2, CompilingIs
<1>4. \A j \in m + 1 .. p - 1 : ~Source!Is(j, {";"})
  BY <1>3 DEF Switching, Source!Is
<1>5. ~Source!Is(m, {":"})
  BY <1>2, <1>3, <1>4 DEF Enclosed
<1>6. Source!Is(m, {"]"}) /\ m \in Source!Pos
  BY <1>3, <1>5 DEF Source!Is
<1>7. PICK j \in 1 .. m - 1 : Source!Is(j, {"["}) /\ Source!Count({";", "]"}, j, m) = 1
  BY <1>6 DEF WellBuilt
<1>8. j \in Source!Pos /\ Source!Compiling(j) /\ j \in Nat \ {0} /\ j < p
  <2>1. j \in Source!Pos
    BY <1>7 DEF Source!Is
  <2>2. Source!Compiling(j)
    BY <1>7, <2>1 DEF WellBuilt
  <2>3. p \in Nat /\ m \in 1 .. p - 1 /\ j \in 1 .. m - 1
    BY <1>2, <1>3, <1>7
  <2>4. j \in Nat \ {0} /\ j < p
    BY <2>3
  <2> QED
    BY <2>1, <2>2, <2>4
<1>9. Enclosed(j)
  <2>1. ~(p <= j)
    BY <1>2, <1>8
  <2>2. j \notin T
    BY <1>1, <2>1
  <2> QED
    BY <1>8, <2>2
<1>10. PICK k \in 1 .. j - 1 : Source!Is(k, {":"}) /\ \A h \in k + 1 .. j - 1 : ~Source!Is(h, {";"})
  BY <1>9 DEF Enclosed
<1>0. p \in Nat /\ m \in 1 .. p - 1 /\ j \in 1 .. m - 1 /\ k \in 1 .. j - 1
  BY <1>2
<1> HIDE DEF T
<1>11. \A h \in j .. m : ~Source!Is(h, {";"})
  <2> DEFINE A == {h \in j .. m : Source!Is(h, {";", "]"})}
  <2>1. IsFiniteSet(A) /\ Cardinality(A) = 1
    <3>1. Source!Count({";", "]"}, j, m) = Cardinality(A)
      BY DEF Source!Count, Source!Cardinality, Cardinality
    <3>2. IsFiniteSet(j .. m) /\ A \in SUBSET (j .. m)
      <4>1. j \in Int /\ m \in Int
        BY <1>0
      <4>2. IsFiniteSet(j .. m)
        BY <4>1, FS_Interval
      <4> QED
        BY <4>2
    <3> HIDE DEF A
    <3> QED
      BY <1>7, <3>1, <3>2, FS_Subset
  <2>2. PICK a : A = {a}
    <3> HIDE DEF A
    <3> QED
      BY <2>1, FS_Singleton
  <2>3. m \in A
    <3>1. m \in j .. m
      BY <1>0
    <3>2. Source!Is(m, {";", "]"})
      BY <1>6 DEF Source!Is
    <3> QED
      BY <3>1, <3>2
  <2>4. ASSUME NEW h \in j .. m, Source!Is(h, {";"}) PROVE FALSE
    <3>1. h \in A /\ h # m
      BY <1>6, <2>4 DEF Source!Is
    <3> HIDE DEF A
    <3> QED
      BY <2>2, <2>3, <3>1
  <2> QED
    BY <2>4
<1>12. k \in 1 .. p - 1 /\ \A h \in k + 1 .. p - 1 : ~Source!Is(h, {";"})
  <2>1. k \in 1 .. p - 1
    BY <1>0
  <2>2. ASSUME NEW h \in k + 1 .. p - 1 PROVE ~Source!Is(h, {";"})
    <3>1. h \in k + 1 .. j - 1 \/ h \in j .. m \/ h \in m + 1 .. p - 1
      BY <1>0
    <3> QED
      BY <1>4, <1>10, <1>11, <3>1
  <2> QED
    BY <2>1, <2>2
<1> QED
  BY <1>2, <1>10, <1>12 DEF Enclosed

\* A token of a structure stands in a definition whose structures are balanced.
LEMMA StructureFacts ==
  ASSUME WellBuilt, prog \in Programs, NEW i \in Source!Pos, Source!Is(i, Source!Structure)
  PROVE  \E k \in 1 .. i - 1 : \E e \in Source!Pos :
           k < i /\ i < e /\ k \in Nat /\ e \in Nat /\ Source!Balanced(k, e)
<1>0. i \in Nat \ {0} /\ i \in 1 .. Len(prog) /\ Len(prog) \in Nat
  BY PosFacts
<1>1. Enclosed(i)
  <2>1. Source!Compiling(i)
    <3>1. Source!Is(i, Source!Structure \union {";"})
      BY DEF Source!Is
    <3> QED
      BY <3>1 DEF WellBuilt
  <2> QED
    BY <1>0, <2>1, InDefinition
<1>2. PICK k \in 1 .. i - 1 : Source!Is(k, {":"}) /\ \A j \in k + 1 .. i - 1 : ~Source!Is(j, {";"})
  BY <1>1 DEF Enclosed
<1>3. k \in Nat \ {0} /\ k < i
  BY <1>0
<1>4. k \in Source!Pos /\ Source!IsDef(k)
  <2>1. k \in 1 .. Len(prog) /\ k + 1 \in 1 .. Len(prog)
    BY <1>0, <1>3
  <2> QED
    BY <1>2, <2>1, PosFacts DEF Source!IsDef
<1> DEFINE E == Source!Ends(k)
           e == Source!Min(E)
<1>5. E # {} /\ Source!Balanced(k, e)
  BY <1>4 DEF WellBuilt
<1>6. E = {j \in Source!Pos : j > k /\ prog[j] = ";"}
  BY DEF Source!Ends
<1> HIDE DEF E
<1>7. E \subseteq Nat
  <2>1. Source!Pos = 1 .. Len(prog) /\ Len(prog) \in Nat
    BY PosFacts
  <2>2. Source!Pos \subseteq Nat
    BY <2>1
  <2> QED
    BY <1>6, <2>2
<1>8. e \in E
  BY <1>5, <1>7, MinFacts
<1> HIDE DEF e
<1>9. e \in Source!Pos /\ e > k /\ prog[e] = ";" /\ e \in Nat
  BY <1>6, <1>7, <1>8
<1>10. ~(e \in k + 1 .. i - 1)
  BY <1>2, <1>9 DEF Source!Is
<1>11. e # i
  BY <1>9 DEF Source!Is, Source!Structure, Source!Openers, Source!Closers
<1>12. i < e
  <2>1. i \in Nat /\ k \in Nat /\ e \in Nat /\ e > k /\ e # i
    BY <1>0, <1>3, <1>9, <1>11
  <2> QED
    BY <1>10, <2>1
<1> QED
  BY <1>3, <1>5, <1>9, <1>12

\* A token that continues or closes a structure has one.
LEMMA OpenerFacts ==
  ASSUME WellBuilt, prog \in Programs, NEW i \in Source!Pos,
         Source!Is(i, Source!Closers \union {"ELSE", "WHILE"})
  PROVE  /\ i \in Nat \ {0} /\ Source!OpenAt(i) # {}
         /\ Source!OpenerOf(i) \in Source!OpenAt(i) /\ Source!OpenerOf(i) \in 1 .. i - 1
         /\ \A g \in Source!OpenAt(i) : g <= Source!OpenerOf(i)
         /\ \E k, e \in Nat : /\ k < Source!OpenerOf(i) /\ i < e /\ e \in Source!Pos
                              /\ Source!Balanced(k, e)
<1>0. i \in Nat \ {0}
  BY PosFacts
<1>1. Source!Is(i, Source!Structure)
  BY DEF Source!Is, Source!Structure
<1>2. PICK k \in 1 .. i - 1 : \E e \in Source!Pos :
         k < i /\ i < e /\ k \in Nat /\ e \in Nat /\ Source!Balanced(k, e)
  BY <1>1, StructureFacts
<1>3. PICK e \in Source!Pos : k < i /\ i < e /\ k \in Nat /\ e \in Nat /\ Source!Balanced(k, e)
  BY <1>2
<1> DEFINE A == Source!OpenAt(i)
           m == Source!OpenerOf(i)
<1>4. A \ (1 .. k) # {}
  <2>1. i \in k .. e
    BY <1>0, <1>3
  <2> QED
    BY <1>3, <2>1 DEF Source!Balanced
<1>5. m = Source!Max(A)
  BY DEF Source!OpenerOf
<1>6. A \subseteq 1 .. i - 1
  BY OpenAtIs
<1> HIDE DEF A, m
<1>7. m \in A /\ \A y \in A : y <= m
  <2> DEFINE n == i - 1
  <2>1. n \in Nat /\ A \subseteq 1 .. n /\ A # {}
    BY <1>0, <1>4, <1>6
  <2> HIDE DEF n
  <2> QED
    BY <1>5, <2>1, MaxFacts
<1>8. m \in 1 .. i - 1 /\ k < m
  <2>1. PICK y \in A : y \notin 1 .. k
    BY <1>4
  <2>2. y \in 1 .. i - 1 /\ m \in 1 .. i - 1 /\ y <= m
    BY <1>6, <1>7, <2>1
  <2> QED
    BY <1>0, <1>3, <2>1, <2>2
<1> QED
  BY <1>0, <1>3, <1>4, <1>7, <1>8 DEF A, m

\* The token that closes the innermost structure is the one the text gives it.
LEMMA CloserFits ==
  ASSUME WellBuilt, prog \in Programs, NEW i \in Source!Pos, Source!Is(i, Source!Closers),
         NEW m, m = Source!OpenerOf(i)
  PROVE  /\ Source!CloserOf(m) = i
         /\ prog[i] # "REPEAT" => \A j \in Source!Middles(m) : prog[j] # "WHILE"
         /\ prog[i] = "REPEAT" => \E w : Source!Middles(m) = {w} /\ prog[w] = "WHILE"
<1>1. Source!Is(i, Source!Closers \union {"ELSE", "WHILE"})
  BY DEF Source!Is
<1>2. /\ i \in Nat \ {0} /\ Source!OpenAt(i) # {} /\ m \in Source!OpenAt(i) /\ m \in 1 .. i - 1
  BY <1>1, OpenerFacts
<1>3. PICK k, e \in Nat : k < m /\ i < e /\ e \in Source!Pos /\ Source!Balanced(k, e)
  BY <1>1, OpenerFacts
<1>4. Depth(m, i) = 0 /\ \A h \in m .. i - 1 : Depth(m, h) \in Nat \ {0}
  BY <1>2, OpenAtCloser
<1>5. Source!CloserOf(m) = i
  <2> DEFINE C == {j \in Source!Pos : /\ j > m /\ prog[j] \in Source!Closers
                                      /\ Source!Count(Source!Openers, m, j) =
                                           Source!Count(Source!Closers, m, j)}
  <2>1. ASSUME NEW j \in Source!Pos, j > m
        PROVE  Source!Count(Source!Openers, m, j) = Source!Count(Source!Closers, m, j)
                 <=> Depth(m, j) = 0
    <3>1. m \in Int /\ j \in Int /\ m <= j + 1
      BY <1>2, <2>1, PosFacts
    <3>2. \A S : Source!Count(S, m, j) \in Nat
      BY <3>1, CountFacts
    <3> QED
      BY <3>2 DEF Depth
  <2>2. i \in C
    <3>1. i > m /\ prog[i] \in Source!Closers
      BY <1>2 DEF Source!Is
    <3> QED
      BY <1>4, <2>1, <3>1
  <2>3. ASSUME NEW j \in C PROVE ~(j < i)
    <3>1. j \in Source!Pos /\ j > m /\ Depth(m, j) = 0 /\ j \in Nat
      BY <2>1, PosFacts
    <3>2. j < i => j \in m .. i - 1
      BY <1>2, <3>1
    <3> QED
      BY <1>4, <3>1, <3>2
  <2>4. C \subseteq Nat
    BY PosFacts
  <2>5. Source!CloserOf(m) = Source!Min(C)
    BY DEF Source!CloserOf
  <2> HIDE DEF C
  <2> DEFINE x == Source!Min(C)
  <2>6. x \in C /\ \A y \in C : x <= y
    BY <2>2, <2>4, MinFacts
  <2> HIDE DEF x
  <2>7. x \in Nat /\ i \in Nat /\ x <= i /\ ~(x < i)
    BY <1>2, <2>2, <2>3, <2>4, <2>6
  <2> QED
    BY <2>5, <2>7 DEF x
<1>6. m \in k .. e /\ Source!Is(m, Source!Openers)
  <2>1. m \in k .. e
    BY <1>2, <1>3
  <2> QED
    BY <1>2, <2>1, OpenAtFacts
<1> DEFINE mids == {prog[j] : j \in Source!Middles(m)}
<1>7. CASE prog[m] # "BEGIN"
  <2>1. Source!Is(Source!CloserOf(m), {"THEN"}) /\ mids \subseteq {"ELSE"}
    BY <1>3, <1>6, <1>7 DEF Source!Balanced
  <2>2. prog[i] = "THEN"
    BY <1>5, <2>1 DEF Source!Is
  <2> QED
    BY <1>5, <2>1, <2>2
<1>8. CASE prog[m] = "BEGIN" /\ mids = {}
  <2>1. Source!Is(Source!CloserOf(m), {"AGAIN", "UNTIL"})
    BY <1>3, <1>6, <1>8 DEF Source!Balanced
  <2>2. prog[i] \in {"AGAIN", "UNTIL"}
    BY <1>5, <2>1 DEF Source!Is
  <2> QED
    BY <1>5, <1>8, <2>2
<1>9. CASE prog[m] = "BEGIN" /\ mids # {}
  <2>1. /\ Source!Is(Source!CloserOf(m), {"REPEAT"}) /\ mids = {"WHILE"}
        /\ Source!Cardinality(Source!Middles(m)) = 1
    BY <1>3, <1>6, <1>9 DEF Source!Balanced
  <2>2. prog[i] = "REPEAT"
    BY <1>5, <2>1 DEF Source!Is
  <2> DEFINE M == Source!Middles(m)
  <2>3. IsFiniteSet(M) /\ Cardinality(M) = 1
    <3>1. M \in SUBSET (m + 1 .. i) /\ m + 1 \in Int /\ i \in Int
      BY <1>2, <1>5 DEF Source!Middles
    <3>2. Cardinality(M) = 1
      BY <2>1 DEF Source!Cardinality, Cardinality
    <3> HIDE DEF M
    <3>3. IsFiniteSet(m + 1 .. i)
      BY <3>1, FS_Interval
    <3> QED
      BY <3>1, <3>2, <3>3, FS_Subset
  <2>4. \A j \in M : prog[j] = "WHILE"
    BY <2>1
  <2> HIDE DEF M
  <2>5. PICK w : M = {w}
    BY <2>3, FS_Singleton
  <2> QED
    BY <1>5, <2>2, <2>4, <2>5 DEF M
<1> QED
  BY <1>7, <1>8, <1>9

-----------------------------------------------------------------------------
(* The number of marks. *)

\* The marks are counted by a number.
LEMMA OpenSets ==
  ASSUME NEW i \in Nat \ {0}
  PROVE  /\ IsFiniteSet(Source!OpenAt(i)) /\ IsFiniteSet(Source!Whiles(i))
         /\ Source!Open(i) = Cardinality(Source!OpenAt(i)) + Cardinality(Source!Whiles(i))
         /\ Cardinality(Source!OpenAt(i)) \in Nat /\ Cardinality(Source!Whiles(i)) \in Nat
<1> DEFINE A == Source!OpenAt(i)
           W == Source!Whiles(i)
<1>1. A \in SUBSET (1 .. i - 1) /\ W \in SUBSET (1 .. i - 1)
  BY OpenAtIs DEF Source!Whiles
<1>2. IsFiniteSet(1 .. i - 1)
  BY FS_Interval
<1>3. Source!Open(i) = Cardinality(A) + Cardinality(W)
  BY DEF Source!Open, Source!Cardinality, Cardinality
<1> HIDE DEF A, W
<1>4. IsFiniteSet(A) /\ IsFiniteSet(W)
  BY <1>1, <1>2, FS_Subset
<1>5. Cardinality(A) \in Nat /\ Cardinality(W) \in Nat
  BY <1>4, FS_CardinalityType
<1> QED
  BY <1>3, <1>4, <1>5 DEF A, W

\* A structure that is open at a WHILE began before it.
LEMMA WhileFacts ==
  ASSUME WellBuilt, prog \in Programs, NEW j, Source!Is(j, {"WHILE"})
  PROVE  /\ j \in Nat \ {0} /\ Source!OpenerOf(j) \in Source!OpenAt(j)
         /\ Source!OpenerOf(j) \in 1 .. j - 1
<1>1. j \in Source!Pos /\ Source!Is(j, Source!Closers \union {"ELSE", "WHILE"})
  BY DEF Source!Is
<1> QED
  BY <1>1, OpenerFacts

\* An opening token adds a mark.
LEMMA OpenAdds ==
  ASSUME WellBuilt, prog \in Programs, NEW i \in Source!Pos, Source!Is(i, Source!Openers)
  PROVE  Source!Open(i + 1) = Source!Open(i) + 1
<1>0. i \in Nat \ {0} /\ i + 1 \in Nat \ {0}
  BY PosFacts
<1> DEFINE A == Source!OpenAt(i)
           B == Source!OpenAt(i + 1)
           W == Source!Whiles(i)
           V == Source!Whiles(i + 1)
<1>1. B = A \union {i} /\ A \subseteq 1 .. i - 1
  BY <1>0, OpenAtOpener, OpenAtIs
<1>2. ~Source!Is(i, {"WHILE"})
  BY DEF Source!Is, Source!Openers
<1>3. V = W
  <2>1. V = {j \in 1 .. (i + 1) - 1 : Source!Is(j, {"WHILE"}) /\ Source!OpenerOf(j) \in B}
    BY DEF Source!Whiles
  <2>2. W = {j \in 1 .. i - 1 : Source!Is(j, {"WHILE"}) /\ Source!OpenerOf(j) \in A}
    BY DEF Source!Whiles
  <2> HIDE DEF A, B, W, V
  <2>3. ASSUME NEW j \in V PROVE j \in W
    <3>1. j \in 1 .. i /\ Source!Is(j, {"WHILE"}) /\ Source!OpenerOf(j) \in A \union {i}
      BY <1>0, <1>1, <2>1
    <3>2. j # i /\ Source!OpenerOf(j) \in 1 .. j - 1
      BY <1>2, <3>1, WhileFacts
    <3>3. j \in 1 .. i - 1 /\ Source!OpenerOf(j) # i
      BY <1>0, <3>1, <3>2
    <3> QED
      BY <2>2, <3>1, <3>3
  <2>4. ASSUME NEW j \in W PROVE j \in V
    <3>1. j \in 1 .. i - 1 /\ Source!Is(j, {"WHILE"}) /\ Source!OpenerOf(j) \in B
      BY <1>1, <2>2
    <3>2. j \in 1 .. (i + 1) - 1
      BY <1>0, <3>1
    <3> QED
      BY <2>1, <3>1, <3>2
  <2> QED
    BY <2>3, <2>4
<1>4. i \notin A
  BY <1>0, <1>1
<1>5. /\ IsFiniteSet(A) /\ Source!Open(i) = Cardinality(A) + Cardinality(W)
      /\ Cardinality(A) \in Nat /\ Cardinality(W) \in Nat
  BY <1>0, OpenSets
<1>6. Source!Open(i + 1) = Cardinality(B) + Cardinality(V)
  BY <1>0, OpenSets
<1> HIDE DEF A, B, W, V
<1>7. Cardinality(A \union {i}) = Cardinality(A) + 1
  BY <1>4, <1>5, FS_AddElement
<1> QED
  BY <1>1, <1>3, <1>5, <1>6, <1>7

\* Any other token but a closing one leaves the marks.
LEMMA OpenStays ==
  ASSUME NEW i \in Nat \ {0}, ~Source!Is(i, Source!Openers), ~Source!Is(i, Source!Closers),
         ~Source!Is(i, {"WHILE"})
  PROVE  Source!Open(i + 1) = Source!Open(i)
<1> DEFINE A == Source!OpenAt(i)
           B == Source!OpenAt(i + 1)
           W == Source!Whiles(i)
           V == Source!Whiles(i + 1)
<1>1. B = A
  BY OpenAtOther
<1>2. V = W
  <2>1. V = {j \in 1 .. (i + 1) - 1 : Source!Is(j, {"WHILE"}) /\ Source!OpenerOf(j) \in B}
    BY DEF Source!Whiles
  <2>2. W = {j \in 1 .. i - 1 : Source!Is(j, {"WHILE"}) /\ Source!OpenerOf(j) \in A}
    BY DEF Source!Whiles
  <2> HIDE DEF A, B, W, V
  <2>3. ASSUME NEW j \in 1 .. (i + 1) - 1, Source!Is(j, {"WHILE"}) PROVE j \in 1 .. i - 1
    BY <2>3
  <2>4. 1 .. i - 1 \subseteq 1 .. (i + 1) - 1
    OBVIOUS
  <2> QED
    BY <1>1, <2>1, <2>2, <2>3, <2>4
<1>3. /\ Source!Open(i) = Cardinality(A) + Cardinality(W)
      /\ Source!Open(i + 1) = Cardinality(B) + Cardinality(V)
  BY OpenSets
<1> QED
  BY <1>1, <1>2, <1>3

\* WHILE adds its own mark.
LEMMA OpenAddsWhile ==
  ASSUME WellBuilt, prog \in Programs, NEW i \in Source!Pos, Source!Is(i, {"WHILE"})
  PROVE  Source!Open(i + 1) = Source!Open(i) + 1
<1>0. i \in Nat \ {0} /\ i + 1 \in Nat \ {0}
  BY PosFacts
<1> DEFINE A == Source!OpenAt(i)
           B == Source!OpenAt(i + 1)
           W == Source!Whiles(i)
           V == Source!Whiles(i + 1)
<1>1. B = A
  <2>1. ~Source!Is(i, Source!Openers) /\ ~Source!Is(i, Source!Closers)
    BY DEF Source!Is, Source!Openers, Source!Closers
  <2> QED
    BY <1>0, <2>1, OpenAtOther
<1>2. Source!OpenerOf(i) \in A
  BY WhileFacts
<1>3. V = W \union {i} /\ i \notin W
  <2>1. V = {j \in 1 .. (i + 1) - 1 : Source!Is(j, {"WHILE"}) /\ Source!OpenerOf(j) \in B}
    BY DEF Source!Whiles
  <2>2. W = {j \in 1 .. i - 1 : Source!Is(j, {"WHILE"}) /\ Source!OpenerOf(j) \in A}
    BY DEF Source!Whiles
  <2> HIDE DEF A, B, W, V
  <2>3. 1 .. (i + 1) - 1 = (1 .. i - 1) \union {i} /\ i \notin 1 .. i - 1
    BY <1>0
  <2> QED
    BY <1>1, <1>2, <2>1, <2>2, <2>3
<1>4. /\ IsFiniteSet(W) /\ Source!Open(i) = Cardinality(A) + Cardinality(W)
      /\ Cardinality(A) \in Nat /\ Cardinality(W) \in Nat
  BY <1>0, OpenSets
<1>5. Source!Open(i + 1) = Cardinality(B) + Cardinality(V)
  BY <1>0, OpenSets
<1> HIDE DEF A, B, W, V
<1>6. Cardinality(W \union {i}) = Cardinality(W) + 1
  BY <1>3, <1>4, FS_AddElement
<1> QED
  BY <1>1, <1>3, <1>4, <1>5, <1>6

\* A closing token takes the mark of its structure, and REPEAT that of the WHILE as well.
LEMMA OpenTakes ==
  ASSUME WellBuilt, prog \in Programs, NEW i \in Source!Pos, Source!Is(i, Source!Closers)
  PROVE  Source!Open(i) = Source!Open(i + 1) + (IF prog[i] = "REPEAT" THEN 2 ELSE 1)
<1>0. i \in Nat \ {0} /\ i + 1 \in Nat \ {0}
  BY PosFacts
<1> DEFINE A == Source!OpenAt(i)
           B == Source!OpenAt(i + 1)
           W == Source!Whiles(i)
           V == Source!Whiles(i + 1)
           m == Source!OpenerOf(i)
           M == {j \in 1 .. i - 1 : Source!Is(j, {"WHILE"}) /\ Source!OpenerOf(j) = m}
<1>1. A # {} /\ m \in A /\ m \in 1 .. i - 1
  <2>1. Source!Is(i, Source!Closers \union {"ELSE", "WHILE"})
    BY DEF Source!Is
  <2> QED
    BY <2>1, OpenerFacts
<1>2. B = A \ {m}
  BY <1>0, <1>1, OpenAtCloser
<1>3. M \subseteq W /\ V = W \ M
  <2>1. V = {j \in 1 .. (i + 1) - 1 : Source!Is(j, {"WHILE"}) /\ Source!OpenerOf(j) \in B}
    BY DEF Source!Whiles
  <2>2. W = {j \in 1 .. i - 1 : Source!Is(j, {"WHILE"}) /\ Source!OpenerOf(j) \in A}
    BY DEF Source!Whiles
  <2>3. ~Source!Is(i, {"WHILE"})
    BY DEF Source!Is, Source!Closers
  <2>4. 1 .. (i + 1) - 1 = (1 .. i - 1) \union {i}
    BY <1>0
  <2> HIDE DEF A, B, W, V, m
  <2> QED
    BY <1>1, <1>2, <2>1, <2>2, <2>3, <2>4
<1>4. M = {j \in Source!Middles(m) : prog[j] = "WHILE"}
  <2>1. Source!CloserOf(m) = i
    BY CloserFits
  <2>2. Source!Middles(m) = {j \in m + 1 .. i : Source!Is(j, {"ELSE", "WHILE"}) /\ Source!OpenerOf(j) = m}
    BY <2>1 DEF Source!Middles
  <2>3. ASSUME NEW j \in M PROVE j \in Source!Middles(m) /\ prog[j] = "WHILE"
    <3>1. j \in 1 .. i - 1 /\ Source!Is(j, {"WHILE"}) /\ Source!OpenerOf(j) = m
      OBVIOUS
    <3>2. Source!OpenerOf(j) \in 1 .. j - 1
      BY <3>1, WhileFacts
    <3>3. j \in m + 1 .. i
      <4>1. m \in 1 .. j - 1 /\ j \in 1 .. i - 1
        BY <3>1, <3>2
      <4> HIDE DEF m
      <4> QED
        BY <1>0, <4>1
    <3>4. Source!Is(j, {"ELSE", "WHILE"}) /\ prog[j] = "WHILE"
      BY <3>1 DEF Source!Is
    <3> QED
      BY <2>2, <3>1, <3>3, <3>4
  <2>4. ASSUME NEW j \in Source!Middles(m), prog[j] = "WHILE" PROVE j \in M
    <3>1. j \in m + 1 .. i /\ Source!Is(j, {"WHILE"}) /\ Source!OpenerOf(j) = m
      BY <2>2, <2>4 DEF Source!Is
    <3>2. j # i
      BY <2>4 DEF Source!Is, Source!Closers
    <3>3. j \in 1 .. i - 1
      <4>1. m \in 1 .. i - 1 /\ j \in m + 1 .. i
        BY <1>1, <3>1
      <4> HIDE DEF m
      <4> QED
        BY <1>0, <3>2, <4>1
    <3> QED
      BY <3>1, <3>3
  <2> QED
    BY <2>3, <2>4
<1>5. /\ prog[i] # "REPEAT" => M = {}
      /\ prog[i] = "REPEAT" => \E w : M = {w}
  <2>1. /\ prog[i] # "REPEAT" => \A j \in Source!Middles(m) : prog[j] # "WHILE"
        /\ prog[i] = "REPEAT" => \E w : Source!Middles(m) = {w} /\ prog[w] = "WHILE"
    BY CloserFits
  <2> HIDE DEF m, M
  <2> QED
    BY <1>4, <2>1
<1>6. /\ IsFiniteSet(A) /\ IsFiniteSet(W) /\ Source!Open(i) = Cardinality(A) + Cardinality(W)
      /\ Cardinality(A) \in Nat /\ Cardinality(W) \in Nat
  BY <1>0, OpenSets
<1>7. /\ Source!Open(i + 1) = Cardinality(B) + Cardinality(V)
      /\ Cardinality(B) \in Nat /\ Cardinality(V) \in Nat
  BY <1>0, OpenSets
<1> HIDE DEF A, B, W, V, M, m
<1>8. Cardinality(B) = Cardinality(A) - 1
  BY <1>1, <1>2, <1>6, FS_RemoveElement
<1>9. CASE prog[i] # "REPEAT"
  <2>1. V = W
    BY <1>3, <1>5, <1>9
  <2> QED
    BY <1>6, <1>7, <1>8, <1>9, <2>1
<1>10. CASE prog[i] = "REPEAT"
  <2>1. PICK w : M = {w}
    BY <1>5, <1>10
  <2>2. w \in W /\ V = W \ {w}
    BY <1>3, <2>1
  <2>3. Cardinality(V) = Cardinality(W) - 1
    BY <1>6, <2>2, FS_RemoveElement
  <2> QED
    BY <1>6, <1>7, <1>8, <1>10, <2>3
<1> QED
  BY <1>9, <1>10

\* ELSE exchanges the mark of its structure.
LEMMA OpenElse ==
  ASSUME WellBuilt, prog \in Programs, NEW i \in Source!Pos, Source!Is(i, {"ELSE"})
  PROVE  Source!Open(i + 1) = Source!Open(i) /\ Source!Open(i) \in Nat \ {0}
<1>1. i \in Nat \ {0}
  BY PosFacts
<1>2. ~Source!Is(i, Source!Openers) /\ ~Source!Is(i, Source!Closers) /\ ~Source!Is(i, {"WHILE"})
  BY DEF Source!Is, Source!Openers, Source!Closers
<1>3. Source!OpenAt(i) # {}
  <2>1. Source!Is(i, Source!Closers \union {"ELSE", "WHILE"})
    BY DEF Source!Is
  <2> QED
    BY <2>1, OpenerFacts
<1>4. Source!Open(i) \in Nat \ {0}
  <2> DEFINE A == Source!OpenAt(i)
             W == Source!Whiles(i)
  <2>1. /\ IsFiniteSet(A) /\ Source!Open(i) = Cardinality(A) + Cardinality(W)
        /\ Cardinality(A) \in Nat /\ Cardinality(W) \in Nat
    BY <1>1, OpenSets
  <2> HIDE DEF A, W
  <2>2. Cardinality(A) # 0
    BY <1>3, <2>1, FS_EmptySet DEF A
  <2> QED
    BY <2>1, <2>2
<1> QED
  BY <1>1, <1>2, <1>4, OpenStays

\* Nothing is open at the beginning.
LEMMA OpenStart == Source!Open(1) = 0
<1>1. Source!OpenAt(1) = {} /\ Source!Whiles(1) = {}
  BY OpenAtIs DEF Source!Whiles
<1>2. Source!Open(1) = Cardinality({}) + Cardinality({})
  <2> DEFINE p == 1
  <2>1. p \in Nat \ {0} /\ p = 1
    OBVIOUS
  <2> HIDE DEF p
  <2>2. Source!Open(p) = Cardinality(Source!OpenAt(p)) + Cardinality(Source!Whiles(p))
    BY <2>1, OpenSets
  <2> QED
    BY <1>1, <2>1, <2>2
<1> QED
  BY <1>2, FS_EmptySet

\* Which words are compiled changes at the switches.
LEMMA CompilingSteps ==
  ASSUME prog \in Programs, NEW i \in Nat \ {0}
  PROVE  /\ Source!Is(i, {":", "]"}) => Source!Compiling(i + 1)
         /\ Source!Is(i, {";", "["}) => ~Source!Compiling(i + 1)
         /\ ~Source!Is(i, Switching) => (Source!Compiling(i + 1) <=> Source!Compiling(i))
         /\ ~Source!Compiling(1)
<1> DEFINE Decides(m, p) == m \in 1 .. p - 1 /\ Source!Is(m, {":", "]"})
                           /\ \A j \in m + 1 .. p - 1 : ~Source!Is(j, Switching)
<1>1. /\ Source!Compiling(i) <=> \E m : Decides(m, i)
      /\ Source!Compiling(i + 1) <=> \E m : Decides(m, i + 1)
      /\ Source!Compiling(1) <=> \E m : Decides(m, 1)
  <2>1. \A p \in Nat \ {0} : Source!Compiling(p) <=> \E m : Decides(m, p)
    BY CompilingIs
  <2> QED
    BY <2>1
<1>2. Source!Is(i, {":", "]"}) => Decides(i, i + 1)
  OBVIOUS
<1>3. ASSUME Source!Is(i, {";", "["}), NEW m, Decides(m, i + 1) PROVE FALSE
  <2>1. Source!Is(i, Switching) /\ ~Source!Is(i, {":", "]"})
    BY <1>3 DEF Source!Is, Switching
  <2>0. (i + 1) - 1 = i
    OBVIOUS
  <2>3. m \in 1 .. i /\ Source!Is(m, {":", "]"}) /\ \A j \in m + 1 .. i : ~Source!Is(j, Switching)
    BY <1>3, <2>0
  <2>2. m # i /\ i \notin m + 1 .. i
    BY <2>1, <2>3
  <2> QED
    BY <2>2, <2>3
<1>4. ASSUME ~Source!Is(i, Switching), NEW m PROVE Decides(m, i + 1) <=> Decides(m, i)
  <2>1. ~Source!Is(i, {":", "]"})
    BY <1>4 DEF Source!Is, Switching
  <2>2. ASSUME Decides(m, i + 1) PROVE Decides(m, i)
    <3>1. m \in 1 .. i - 1
      BY <2>1, <2>2
    <3>2. m + 1 .. i - 1 \subseteq m + 1 .. (i + 1) - 1
      BY <3>1
    <3> QED
      BY <2>2, <3>1, <3>2
  <2>3. ASSUME Decides(m, i) PROVE Decides(m, i + 1)
    <3>0. m \in 1 .. i - 1
      BY <2>3
    <3>1. m \in 1 .. (i + 1) - 1
      BY <3>0
    <3>2. \A j \in m + 1 .. (i + 1) - 1 : j = i \/ j \in m + 1 .. i - 1
      BY <3>0
    <3> QED
      BY <1>4, <2>3, <3>1, <3>2
  <2> QED
    BY <2>2, <2>3
<1>5. \A m : ~Decides(m, 1)
  OBVIOUS
<1> HIDE DEF Decides
<1> QED
  BY <1>1, <1>2, <1>3, <1>4, <1>5

-----------------------------------------------------------------------------
(* The marks: the invariant. *)

\* What the text says does not change in a step.
LEMMA OpenKept ==
  ASSUME prog' = prog, NEW i
  PROVE  (Source!Open(i))' = Source!Open(i)
BY DEF Source!Open, Source!OpenAt, Source!Whiles, Source!OpenerOf, Source!Is, Source!Count, Source!Pos

LEMMA CompilingKept ==
  ASSUME prog' = prog, NEW i
  PROVE  (Source!Compiling(i))' <=> Source!Compiling(i)
BY DEF Source!Compiling, Source!Is, Source!Pos

LEMMA BuiltKept ==
  ASSUME prog' = prog
  PROVE  WellBuilt' <=> WellBuilt
BY DEF WellBuilt, Source!Compiling, Source!Is, Source!Pos, Source!IsDef, Source!Ends,
  Source!Balanced, Source!OpenAt, Source!OpenerOf, Source!CloserOf, Source!Middles, Source!Count

\* The return stack s below the interpreter's word: the two addresses of the interpreter
\* and o marks, addresses of cells up to h.  Positions are counted from the bottom.
Marked(s, o, h) ==
  /\ s \in Seq(Int) /\ Len(s) >= o + 2
  /\ s[Len(s) - 0] = QuitAddr /\ s[Len(s) - 1] = OuterExit
  /\ \A j \in 2 .. o + 1 : s[Len(s) - j] \in 1 .. h

\* While a word runs the address of the interpreter lies on the marks, and those of
\* compiled code above.
Running(s, o) ==
  /\ Len(s) >= o + 3 /\ s[Len(s) - (o + 2)] = Interp
  /\ \A j \in o + 3 .. Len(s) - 1 : s[Len(s) - j] > 0

\* Code has addresses that are not those of the interpreter.
Tidy(c) == c.arg >= 0 /\ c.op # "[COMPILE]"
Clean(m) == \A a \in 1 .. Len(m) : Tidy(m[a])

Shape ==
  /\ iscomp <=> Source!Compiling(ip)
  /\ Marked(rstk, Source!Open(ip), Here)
  /\ wp = Interp => Len(rstk) = Source!Open(ip) + 2
  /\ wp # Interp => wp >= 0 /\ Running(rstk, Source!Open(ip))
  /\ Clean(mem)

Marks == WellBuilt => Shape

\* What has to hold behind a step, in terms of the text before it.
LEMMA ShapeFollows ==
  ASSUME prog' = prog,
         iscomp' <=> Source!Compiling(ip'),
         Marked(rstk', Source!Open(ip'), Len(mem') + 1),
         wp' = Interp => Len(rstk') = Source!Open(ip') + 2,
         wp' # Interp => wp' >= 0 /\ Running(rstk', Source!Open(ip')),
         Clean(mem')
  PROVE  Shape'
<1>1. \A i : (Source!Open(i))' = Source!Open(i)
  BY OpenKept
<1>2. \A i : (Source!Compiling(i))' <=> Source!Compiling(i)
  BY CompilingKept
<1> QED
  BY <1>1, <1>2 DEF Shape, Here

\* The types before and after a step.
Typed ==
  /\ iscomp \in BOOLEAN /\ ip \in Nat \ {0} /\ wp \in Int
  /\ rstk \in Seq(Int) /\ Len(rstk) \in Nat
  /\ mem \in Seq(Cells) /\ Len(mem) \in Nat

LEMMA Types == Inv => Typed
BY InvFacts DEF Typed

LEMMA TypesNext == Inv' => Typed'
BY Types, PTL

LEMMA OpenIsNat ==
  ASSUME NEW i \in Nat \ {0}
  PROVE  Source!Open(i) \in Nat
BY OpenSets

-----------------------------------------------------------------------------
(* The two stacks of addresses. *)

\* Positions counted from the bottom stay, when something is pushed or popped.
LEMMA PushIndex ==
  ASSUME NEW s \in Seq(Int), NEW v \in Int, NEW t, t = <<v>> \o s
  PROVE  /\ t \in Seq(Int) /\ Len(t) = Len(s) + 1 /\ t[Len(t) - Len(s)] = v
         /\ \A j \in 0 .. Len(s) - 1 : t[Len(t) - j] = s[Len(s) - j]
<1>1. t \in Seq(Int) /\ Len(t) = Len(s) + 1 /\ Len(s) \in Nat /\ t[1] = v
  OBVIOUS
<1>2. \A k \in 1 .. Len(s) : t[k + 1] = s[k]
  OBVIOUS
<1>3. ASSUME NEW j \in 0 .. Len(s) - 1 PROVE t[Len(t) - j] = s[Len(s) - j]
  <2> DEFINE k == Len(s) - j
  <2>1. k \in 1 .. Len(s) /\ Len(t) - j = k + 1
    BY <1>1
  <2> HIDE DEF k
  <2>2. t[k + 1] = s[k]
    BY <1>2, <2>1
  <2> QED
    BY <2>1, <2>2 DEF k
<1>4. Len(t) - Len(s) = 1
  BY <1>1
<1> QED
  BY <1>1, <1>3, <1>4

LEMMA PopIndex ==
  ASSUME NEW s \in Seq(Int), s # <<>>, NEW t, t = Tail(s)
  PROVE  /\ t \in Seq(Int) /\ Len(t) = Len(s) - 1 /\ Len(s) \in Nat \ {0}
         /\ Head(s) = s[Len(s) - Len(t)] /\ Head(s) \in Int
         /\ \A j \in 0 .. Len(t) - 1 : t[Len(t) - j] = s[Len(s) - j]
<1>1. t \in Seq(Int) /\ Len(t) = Len(s) - 1 /\ Len(s) \in Nat \ {0} /\ Head(s) = s[1] /\ Head(s) \in Int
  OBVIOUS
<1>2. \A k \in 1 .. Len(t) : t[k] = s[k + 1]
  OBVIOUS
<1>3. ASSUME NEW j \in 0 .. Len(t) - 1 PROVE t[Len(t) - j] = s[Len(s) - j]
  <2> DEFINE k == Len(t) - j
  <2>1. k \in 1 .. Len(t) /\ Len(s) - j = k + 1
    BY <1>1
  <2> HIDE DEF k
  <2>2. t[k] = s[k + 1]
    BY <1>2, <2>1
  <2> QED
    BY <2>1, <2>2 DEF k
<1>4. Len(s) - Len(t) = 1
  BY <1>1
<1> QED
  BY <1>1, <1>3, <1>4

\* A stack with the same bottom holds the same marks.
LEMMA MarkedSame ==
  ASSUME NEW s, NEW o \in Nat, NEW h \in Nat, Marked(s, o, h),
         NEW t \in Seq(Int), NEW p \in Nat, p <= o, Len(t) >= p + 2, NEW k \in Nat, h <= k,
         \A j \in 0 .. p + 1 : t[Len(t) - j] = s[Len(s) - j]
  PROVE  Marked(t, p, k)
<1>1. t[Len(t) - 0] = QuitAddr /\ t[Len(t) - 1] = OuterExit
  <2>1. 0 \in 0 .. p + 1 /\ 1 \in 0 .. p + 1
    OBVIOUS
  <2> QED
    BY <2>1 DEF Marked
<1>2. ASSUME NEW j \in 2 .. p + 1 PROVE t[Len(t) - j] \in 1 .. k
  <2>1. j \in 0 .. p + 1 /\ j \in 2 .. o + 1
    OBVIOUS
  <2>2. s[Len(s) - j] \in 1 .. h
    BY <2>1 DEF Marked
  <2>3. t[Len(t) - j] = s[Len(s) - j]
    BY <2>1
  <2> QED
    BY <2>2, <2>3
<1> QED
  BY <1>1, <1>2 DEF Marked

LEMMA MarkPushed ==
  ASSUME NEW s \in Seq(Int), NEW o \in Nat, NEW h \in Nat, Marked(s, o, h), Len(s) <= o + 2,
         NEW k \in Nat, h <= k, NEW v \in Int, v \in 1 .. k, NEW t, t = <<v>> \o s
  PROVE  Marked(t, o + 1, k) /\ Len(t) = (o + 1) + 2
<1>1. s \in Seq(Int) /\ Len(s) \in Nat /\ Len(s) >= o + 2
  BY DEF Marked
<1>2. /\ t \in Seq(Int) /\ Len(t) = Len(s) + 1 /\ t[Len(t) - Len(s)] = v
      /\ \A j \in 0 .. Len(s) - 1 : t[Len(t) - j] = s[Len(s) - j]
  BY <1>1, PushIndex
<1>3. Len(s) = o + 2 /\ Len(s) - 1 = o + 1
  BY <1>1
<1>4. Marked(t, o, k)
  <2>1. Len(t) >= o + 2 /\ o <= o
    BY <1>2, <1>3
  <2>2. \A j \in 0 .. o + 1 : t[Len(t) - j] = s[Len(s) - j]
    BY <1>2, <1>3
  <2> QED
    BY <1>2, <2>1, <2>2, MarkedSame
<1>5. t[Len(t) - (o + 2)] \in 1 .. k
  BY <1>2, <1>3
<1> DEFINE p == o + 1
<1>6. p \in Nat /\ p + 1 = o + 2 /\ Len(t) = p + 2
  BY <1>2, <1>3
<1> HIDE DEF p
<1>7. ASSUME NEW j \in 2 .. p + 1 PROVE t[Len(t) - j] \in 1 .. k
  <2>1. j = o + 2 \/ j \in 2 .. o + 1
    BY <1>6
  <2> QED
    BY <1>4, <1>5, <2>1 DEF Marked
<1>8. t[Len(t) - 0] = QuitAddr /\ t[Len(t) - 1] = OuterExit
  BY <1>4 DEF Marked
<1>9. t \in Seq(Int) /\ Len(t) >= p + 2
  BY <1>2, <1>6
<1>10. Marked(t, p, k)
  BY <1>7, <1>8, <1>9 DEF Marked
<1> QED
  BY <1>6, <1>10 DEF p

LEMMA MarkPopped ==
  ASSUME NEW s \in Seq(Int), NEW o \in Nat \ {0}, NEW h \in Nat, Marked(s, o, h), Len(s) = o + 2,
         NEW k \in Nat, h <= k, NEW t, t = Tail(s)
  PROVE  Head(s) \in 1 .. h /\ Marked(t, o - 1, k) /\ Len(t) = (o - 1) + 2
<1>1. s \in Seq(Int) /\ s # <<>>
  BY DEF Marked
<1>2. /\ t \in Seq(Int) /\ Len(t) = Len(s) - 1 /\ Head(s) = s[Len(s) - Len(t)]
      /\ \A j \in 0 .. Len(t) - 1 : t[Len(t) - j] = s[Len(s) - j]
  BY <1>1, PopIndex
<1>3. Len(t) = o + 1 /\ Len(t) = (o - 1) + 2
  BY <1>2
<1>4. Head(s) \in 1 .. h
  <2>1. o + 1 \in 2 .. o + 1
    OBVIOUS
  <2>2. s[Len(s) - (o + 1)] \in 1 .. h
    BY <2>1 DEF Marked
  <2> QED
    BY <1>2, <1>3, <2>2
<1>5. Marked(t, o - 1, k)
  <2> DEFINE p == o - 1
  <2>1. p \in Nat /\ p <= o /\ Len(t) >= p + 2 /\ p + 1 = Len(t) - 1
    BY <1>3
  <2> HIDE DEF p
  <2>2. \A j \in 0 .. p + 1 : t[Len(t) - j] = s[Len(s) - j]
    BY <1>2, <2>1
  <2>3. Marked(t, p, k)
    BY <1>2, <2>1, <2>2, MarkedSame
  <2> QED
    BY <2>3 DEF p
<1> QED
  BY <1>3, <1>4, <1>5

\* A word is called, by the interpreter or by a word.
LEMMA CallPushed ==
  ASSUME NEW s \in Seq(Int), NEW o \in Nat, NEW h \in Nat, Marked(s, o, h), NEW v \in Int, NEW t, t = <<v>> \o s,
         \/ Len(s) = o + 2 /\ v = Interp
         \/ Running(s, o) /\ v > 0
  PROVE  Marked(t, o, h) /\ Running(t, o)
<1>1. s \in Seq(Int) /\ Len(s) \in Nat /\ Len(s) >= o + 2
  BY DEF Marked
<1>2. /\ t \in Seq(Int) /\ Len(t) = Len(s) + 1 /\ t[Len(t) - Len(s)] = v
      /\ \A j \in 0 .. Len(s) - 1 : t[Len(t) - j] = s[Len(s) - j]
  BY <1>1, PushIndex
<1>3. Marked(t, o, h)
  <2>1. \A j \in 0 .. o + 1 : j \in 0 .. Len(s) - 1
    BY <1>1
  <2>2. Len(t) >= o + 2 /\ o <= o /\ h <= h
    BY <1>1, <1>2
  <2> QED
    BY <1>2, <2>1, <2>2, MarkedSame
<1>4. CASE Len(s) = o + 2 /\ v = Interp
  <2>1. Len(t) = o + 3 /\ t[Len(t) - (o + 2)] = Interp
    BY <1>2, <1>4
  <2>2. o + 3 .. Len(t) - 1 = {}
    BY <2>1
  <2> QED
    BY <1>3, <2>1, <2>2 DEF Running
<1>5. CASE Running(s, o) /\ v > 0
  <2>1. /\ Len(s) >= o + 3 /\ s[Len(s) - (o + 2)] = Interp
        /\ \A j \in o + 3 .. Len(s) - 1 : s[Len(s) - j] > 0
    BY <1>5 DEF Running
  <2>2. o + 2 \in 0 .. Len(s) - 1 /\ Len(t) >= o + 3
    BY <1>1, <1>2, <2>1
  <2>3. t[Len(t) - (o + 2)] = Interp
    BY <1>2, <2>1, <2>2
  <2>4. ASSUME NEW j \in o + 3 .. Len(t) - 1 PROVE t[Len(t) - j] > 0
    <3>1. CASE j = Len(s)
      BY <1>2, <1>5, <3>1
    <3>2. CASE j # Len(s)
      <4>1. j \in o + 3 .. Len(s) - 1 /\ j \in 0 .. Len(s) - 1
        BY <1>1, <1>2, <3>2
      <4> QED
        BY <1>2, <2>1, <4>1
    <3> QED
      BY <3>1, <3>2
  <2> QED
    BY <1>3, <2>2, <2>3, <2>4 DEF Running
<1> QED
  BY <1>4, <1>5

\* A word returns, to another one or to the interpreter.
LEMMA CallPopped ==
  ASSUME NEW s \in Seq(Int), NEW o \in Nat, NEW h \in Nat, Marked(s, o, h), Running(s, o), NEW t, t = Tail(s)
  PROVE  /\ Marked(t, o, h)
         /\ \/ Head(s) = Interp /\ Len(t) = o + 2
            \/ Head(s) > 0 /\ Head(s) \in Int /\ Running(t, o)
<1>1. s \in Seq(Int) /\ Len(s) \in Nat /\ Len(s) >= o + 3 /\ s # <<>>
  BY DEF Marked, Running
<1>2. /\ t \in Seq(Int) /\ Len(t) = Len(s) - 1 /\ Head(s) = s[Len(s) - Len(t)] /\ Head(s) \in Int
      /\ \A j \in 0 .. Len(t) - 1 : t[Len(t) - j] = s[Len(s) - j]
  BY <1>1, PopIndex
<1>3. Marked(t, o, h)
  <2>1. \A j \in 0 .. o + 1 : j \in 0 .. Len(t) - 1
    BY <1>1, <1>2
  <2>2. Len(t) >= o + 2 /\ o <= o /\ h <= h
    BY <1>1, <1>2
  <2> QED
    BY <1>2, <2>1, <2>2, MarkedSame
<1>4. /\ s[Len(s) - (o + 2)] = Interp
      /\ \A j \in o + 3 .. Len(s) - 1 : s[Len(s) - j] > 0
  BY DEF Running
<1>5. CASE Len(s) = o + 3
  <2>1. Len(t) = o + 2
    BY <1>2, <1>5
  <2> QED
    BY <1>2, <1>3, <1>4, <2>1
<1>6. CASE Len(s) # o + 3
  <2> DEFINE n == Len(s)
  <2>1. n \in Nat /\ n >= o + 3 /\ n # o + 3 /\ Len(t) = n - 1
    BY <1>1, <1>2, <1>6
  <2> HIDE DEF n
  <2>2. n - 1 >= o + 3 /\ n - 1 \in o + 3 .. n - 1 /\ o + 2 \in 0 .. (n - 1) - 1
    BY <2>1
  <2>3. Len(t) >= o + 3 /\ Len(t) \in o + 3 .. Len(s) - 1 /\ o + 2 \in 0 .. Len(t) - 1
    BY <2>1, <2>2 DEF n
  <2>4. Head(s) > 0
    BY <1>2, <1>4, <2>3
  <2>5. t[Len(t) - (o + 2)] = Interp
    BY <1>2, <1>4, <2>3
  <2>6. ASSUME NEW j \in o + 3 .. Len(t) - 1 PROVE t[Len(t) - j] > 0
    <3>1. j \in o + 3 .. Len(s) - 1 /\ j \in 0 .. Len(t) - 1
      BY <1>1, <1>2
    <3> QED
      BY <1>2, <1>4, <3>1
  <2> QED
    BY <1>2, <1>3, <2>3, <2>4, <2>5, <2>6 DEF Running
<1> QED
  BY <1>5, <1>6

-----------------------------------------------------------------------------
(* The cells. *)

\* The cells that are compiled are tidy, but for one of [COMPILE].
LEMMA TidyCells ==
  /\ \A w \in (Tokens \union Kinds) \ {"[COMPILE]"} : Tidy(Prim(w))
  /\ \A a \in Int : a >= 0 => Tidy(Operand(a)) /\ Tidy(Call(a))
BY DEF Tidy, Prim, Operand, Call

\* Tidy cells are appended to a clean memory.
LEMMA CleanAppend ==
  ASSUME NEW m \in Seq(Cells), Clean(m), NEW t \in Seq(Cells), \A b \in 1 .. Len(t) : Tidy(t[b])
  PROVE  /\ m \o t \in Seq(Cells) /\ Len(m \o t) = Len(m) + Len(t)
         /\ Clean(m \o t)
<1> DEFINE r == m \o t
<1>1. /\ r \in Seq(Cells) /\ Len(r) = Len(m) + Len(t) /\ Len(m) \in Nat /\ Len(t) \in Nat
      /\ \A a \in 1 .. Len(m) : r[a] = m[a]
      /\ \A b \in 1 .. Len(t) : r[Len(m) + b] = t[b]
  OBVIOUS
<1> HIDE DEF r
<1>2. ASSUME NEW a \in 1 .. Len(r) PROVE Tidy(r[a])
  <2>1. CASE a \in 1 .. Len(m)
    BY <1>1, <2>1 DEF Clean
  <2>2. CASE a \notin 1 .. Len(m)
    <3> DEFINE b == a - Len(m)
    <3>1. b \in 1 .. Len(t) /\ Len(m) + b = a
      BY <1>1, <2>2
    <3> HIDE DEF b
    <3>2. r[a] = t[b]
      BY <1>1, <3>1
    <3> QED
      BY <3>1, <3>2
  <2> QED
    BY <2>1, <2>2
<1> QED
  BY <1>1, <1>2 DEF Clean, r

LEMMA CleanOne ==
  ASSUME NEW m \in Seq(Cells), Clean(m), NEW c \in Cells, Tidy(c)
  PROVE  Clean(Append(m, c))
<1> DEFINE t == <<c>>
<1>1. t \in Seq(Cells) /\ Len(t) = 1 /\ t[1] = c /\ Append(m, c) = m \o t
  OBVIOUS
<1> HIDE DEF t
<1>2. \A b \in 1 .. Len(t) : Tidy(t[b])
  BY <1>1
<1> QED
  BY <1>1, <1>2, CleanAppend

LEMMA CleanTwo ==
  ASSUME NEW m \in Seq(Cells), Clean(m), NEW c \in Cells, Tidy(c), NEW d \in Cells, Tidy(d)
  PROVE  Clean(m \o <<c, d>>)
<1> DEFINE t == <<c, d>>
<1>1. t \in Seq(Cells) /\ Len(t) = 2 /\ t[1] = c /\ t[2] = d
  OBVIOUS
<1> HIDE DEF t
<1>2. \A b \in 1 .. Len(t) : b = 1 \/ b = 2
  BY <1>1
<1>3. \A b \in 1 .. Len(t) : Tidy(t[b])
  BY <1>1, <1>2
<1>4. Clean(m \o t)
  BY <1>1, <1>3, CleanAppend
<1> QED
  BY <1>4 DEF t

LEMMA CleanThree ==
  ASSUME NEW m \in Seq(Cells), Clean(m), NEW c \in Cells, Tidy(c), NEW d \in Cells, Tidy(d),
         NEW e \in Cells, Tidy(e)
  PROVE  Clean(m \o <<c, d, e>>)
<1> DEFINE t == <<c, d, e>>
<1>1. t \in Seq(Cells) /\ Len(t) = 3 /\ t[1] = c /\ t[2] = d /\ t[3] = e
  OBVIOUS
<1> HIDE DEF t
<1>2. \A b \in 1 .. Len(t) : b = 1 \/ b = 2 \/ b = 3
  BY <1>1
<1>3. \A b \in 1 .. Len(t) : Tidy(t[b])
  BY <1>1, <1>2
<1>4. Clean(m \o t)
  BY <1>1, <1>3, CleanAppend
<1> QED
  BY <1>4 DEF t

\* A patch with an address leaves it clean.
LEMMA CleanPatch ==
  ASSUME NEW m \in Seq(Cells), Clean(m), NEW a, NEW v \in Int, v >= 0
  PROVE  Clean(Patch(m, a, v))
<1>1. CASE a \notin DOMAIN m
  BY <1>1 DEF Patch
<1>2. CASE a \in DOMAIN m
  <2> DEFINE c == [m[a] EXCEPT !.op = "operand", !.arg = v]
             r == Patch(m, a, v)
  <2>1. m[a] \in Cells
    BY <1>2
  <2>2. c \in Cells /\ c.op = "operand" /\ c.arg = v
    BY <2>1 DEF Cells, Kinds
  <2>3. r = [m EXCEPT ![a] = c]
    BY <1>2 DEF Patch
  <2> HIDE DEF c, r
  <2>4. /\ Len(r) = Len(m) /\ r[a] = c
        /\ \A b \in 1 .. Len(m) : b # a => r[b] = m[b]
    BY <1>2, <2>2, <2>3
  <2>5. ASSUME NEW b \in 1 .. Len(r) PROVE Tidy(r[b])
    <3>1. CASE b = a
      BY <2>2, <2>4, <3>1 DEF Tidy
    <3>2. CASE b # a
      BY <2>4, <3>2 DEF Clean
    <3> QED
      BY <3>1, <3>2
  <2> QED
    BY <2>5 DEF Clean, r
<1> QED
  BY <1>1, <1>2

-----------------------------------------------------------------------------
(* The tokens that open and close nothing. *)

\* Names, primitives and flags change neither the structures nor the mode.
LEMMA OtherToken ==
  ASSUME prog \in Programs, NEW i \in 1 .. Len(prog),
         prog[i] \in Names \union Primitives \union {"IMMEDIATE", "HIDE", "UNHIDE"}
  PROVE  /\ i \in Nat \ {0} /\ i + 1 \in Nat \ {0}
         /\ Source!Open(i + 1) = Source!Open(i)
         /\ Source!Compiling(i + 1) <=> Source!Compiling(i)
<1>0. i \in Nat \ {0} /\ i + 1 \in Nat \ {0}
  BY ProgFacts
<1>1. prog[i] \notin Compilers \ {"IMMEDIATE", "HIDE", "UNHIDE"}
  BY TextAssumption DEF Primitives, Compilers
<1>2. /\ ~Source!Is(i, Source!Openers) /\ ~Source!Is(i, Source!Closers)
      /\ ~Source!Is(i, {"WHILE"}) /\ ~Source!Is(i, Switching)
  BY <1>1 DEF Source!Is, Source!Openers, Source!Closers, Switching, Compilers
<1> QED
  BY <1>0, <1>2, OpenStays, CompilingSteps

\* The switches change the mode only.
LEMMA SwitchToken ==
  ASSUME prog \in Programs, NEW i \in 1 .. Len(prog), prog[i] \in Switching
  PROVE  /\ i \in Nat \ {0} /\ i + 1 \in Nat \ {0}
         /\ Source!Open(i + 1) = Source!Open(i)
         /\ Source!Compiling(i + 1) <=> prog[i] \in {":", "]"}
<1>0. i \in Nat \ {0} /\ i + 1 \in Nat \ {0} /\ i \in Source!Pos
  BY ProgFacts, PosFacts
<1>2. /\ ~Source!Is(i, Source!Openers) /\ ~Source!Is(i, Source!Closers)
      /\ ~Source!Is(i, {"WHILE"})
  BY DEF Source!Is, Source!Openers, Source!Closers, Switching
<1>3. CASE prog[i] \in {":", "]"}
  <2>1. Source!Is(i, {":", "]"})
    BY <1>0, <1>3 DEF Source!Is
  <2> QED
    BY <1>0, <1>2, <1>3, <2>1, OpenStays, CompilingSteps
<1>4. CASE prog[i] \in {";", "["}
  <2>1. Source!Is(i, {";", "["})
    BY <1>0, <1>4 DEF Source!Is
  <2>2. prog[i] \notin {":", "]"}
    BY <1>4
  <2> QED
    BY <1>0, <1>2, <2>1, <2>2, OpenStays, CompilingSteps
<1> QED
  BY <1>3, <1>4 DEF Switching

\* The structures leave compile mode as it is.
LEMMA StructureToken ==
  ASSUME prog \in Programs, NEW i \in 1 .. Len(prog), prog[i] \in Source!Structure
  PROVE  /\ i \in Nat \ {0} /\ i + 1 \in Nat \ {0} /\ i \in Source!Pos
         /\ Source!Compiling(i + 1) <=> Source!Compiling(i)
<1>0. i \in Nat \ {0} /\ i + 1 \in Nat \ {0} /\ i \in Source!Pos
  BY ProgFacts, PosFacts
<1>2. ~Source!Is(i, Switching)
  BY DEF Source!Is, Source!Structure, Source!Openers, Source!Closers, Switching
<1> QED
  BY <1>0, <1>2, CompilingSteps

-----------------------------------------------------------------------------
(* Compiling and the marks. *)

\* A machine that stops stays as it is.
LEMMA StopShape ==
  ASSUME Inv, Shape, NEW why, Stop(why)
  PROVE  Shape'
<1>1. /\ prog' = prog /\ ip' = ip /\ mem' = mem /\ iscomp' = iscomp
      /\ wp' = wp /\ rstk' = rstk
  BY DEF Stop
<1>2. Len(mem') + 1 = Here
  BY <1>1 DEF Here
<1> QED
  BY <1>1, <1>2, ShapeFollows DEF Shape

\* More cells, the same marks.
LEMMA MarkedGrows ==
  ASSUME NEW s, NEW o \in Nat, NEW h \in Nat, Marked(s, o, h), NEW k \in Nat, h <= k
  PROVE  Marked(s, o, k)
BY DEF Marked

\* The return stack stays, the structures too.
LEMMA SteadyShape ==
  ASSUME Inv, Inv', Shape, prog' = prog, iscomp' = iscomp, rstk' = rstk,
         Source!Open(ip') = Source!Open(ip), Source!Compiling(ip') <=> Source!Compiling(ip),
         Len(mem) <= Len(mem'), Clean(mem'),
         \/ wp = Interp /\ wp' = Interp
         \/ wp # Interp /\ wp' # Interp /\ wp' >= 0
  PROVE  Shape'
<1>1. /\ Len(mem) \in Nat /\ ip \in Nat \ {0}
  BY Types DEF Typed
<1>2. Len(mem') \in Nat
  BY TypesNext DEF Typed
<1>3. Source!Open(ip) \in Nat
  BY <1>1, OpenIsNat
<1>4. Here \in Nat /\ Here <= Len(mem') + 1 /\ Len(mem') + 1 \in Nat
  BY <1>1, <1>2 DEF Here
<1>5. Marked(rstk, Source!Open(ip), Len(mem') + 1)
  BY <1>3, <1>4, MarkedGrows DEF Shape
<1>6. Marked(rstk', Source!Open(ip'), Len(mem') + 1)
  BY <1>5
<1>7. iscomp' <=> Source!Compiling(ip')
  BY DEF Shape
<1>8. wp' = Interp => Len(rstk') = Source!Open(ip') + 2
  BY DEF Shape
<1>9. wp' # Interp => wp' >= 0 /\ Running(rstk', Source!Open(ip'))
  BY DEF Shape
<1> QED
  BY <1>6, <1>7, <1>8, <1>9, ShapeFollows

\* The interpreter took a token and compiled.
LEMMA CompileShape ==
  ASSUME Inv, Shape, NEW w, Read(w), Took(1),
         iscomp' <=> Source!Compiling(ip + 1),
         Marked(rstk', Source!Open(ip + 1), Len(mem') + 1),
         Len(rstk') = Source!Open(ip + 1) + 2, Clean(mem')
  PROVE  Shape'
<1>1. prog' = prog /\ wp' = wp /\ ip' = ip + 1 /\ wp = Interp
  BY DEF Took, Read
<1> QED
  BY <1>1, ShapeFollows

\* What the interpreter finds when it reads.
LEMMA ReadShape ==
  ASSUME Inv, Shape, NEW w, Read(w)
  PROVE  /\ ip \in 1 .. Len(prog) /\ prog[ip] \in w /\ prog \in Programs /\ wp = Interp
         /\ Source!Open(ip) \in Nat /\ Here \in Nat \ {0} /\ Here = Len(mem) + 1
         /\ mem \in Seq(Cells) /\ Len(mem) \in Nat /\ rstk \in Seq(Int) /\ Len(rstk) \in Nat
         /\ Marked(rstk, Source!Open(ip), Here) /\ Len(rstk) = Source!Open(ip) + 2
         /\ Clean(mem) /\ (iscomp <=> Source!Compiling(ip)) /\ iscomp \in BOOLEAN
<1>1. ip \in 1 .. Len(prog) /\ prog[ip] \in w /\ wp = Interp
  BY ReadFacts DEF Read, Token
<1>2. ip \in Nat \ {0} /\ mem \in Seq(Cells) /\ Len(mem) \in Nat /\ prog \in Programs
      /\ rstk \in Seq(Int) /\ Len(rstk) \in Nat
  BY InvFacts
<1>3. Source!Open(ip) \in Nat
  BY <1>2, OpenIsNat
<1>4. iscomp \in BOOLEAN
  BY InvFacts
<1> QED
  BY <1>1, <1>2, <1>3, <1>4 DEF Shape, Here

\* The marks stay when a word that compiles does not touch them.
LEMMA MarksStay ==
  ASSUME Inv, Inv', Shape, NEW w, Read(w), rstk' = rstk, NEW o, o = Source!Open(ip),
         Len(mem) <= Len(mem')
  PROVE  Marked(rstk', o, Len(mem') + 1) /\ Len(rstk') = o + 2
<1>1. Source!Open(ip) \in Nat /\ Here \in Nat \ {0} /\ Here = Len(mem) + 1 /\ Len(mem) \in Nat
      /\ Marked(rstk, Source!Open(ip), Here) /\ Len(rstk) = Source!Open(ip) + 2
  BY ReadShape
<1>2. Len(mem') \in Nat
  BY TypesNext DEF Typed
<1>3. Here <= Len(mem') + 1 /\ Len(mem') + 1 \in Nat
  BY <1>1, <1>2
<1> QED
  BY <1>1, <1>3, MarkedGrows

LEMMA ColonShape ==
  ASSUME Inv, Inv', WellBuilt, Shape, Colon
  PROVE  Shape'
<1>0. Read({":"})
  BY DEF Colon
<1>1. CASE ip = Len(prog)
  BY <1>1, StopShape DEF Colon
<1>2. CASE ip # Len(prog)
  <2> DEFINE i == ip + 1
  <2>1. /\ prog[i] \in Names /\ prog' = prog /\ wp' = wp /\ ip' = ip + 2
        /\ mem' = Append(mem, Prim("docol")) /\ iscomp' = TRUE /\ rstk' = rstk
    BY <1>2 DEF Colon, Took
  <2>2. /\ ip \in 1 .. Len(prog) /\ prog[ip] = ":" /\ prog \in Programs /\ wp = Interp
        /\ mem \in Seq(Cells) /\ Clean(mem) /\ Len(mem) \in Nat /\ Len(prog) \in Nat
    BY <1>0, ReadShape, InvFacts
  <2>3. i \in 1 .. Len(prog) /\ ip' = i + 1
    BY <1>2, <2>1, <2>2
  <2>4. Source!Open(i) = Source!Open(ip) /\ Source!Compiling(i)
    BY <2>2, SwitchToken DEF Switching
  <2> HIDE DEF i
  <2>5. Source!Open(i + 1) = Source!Open(i) /\ (Source!Compiling(i + 1) <=> Source!Compiling(i))
    BY <2>1, <2>2, <2>3, OtherToken
  <2>6. Clean(mem') /\ Len(mem') = Len(mem) + 1
    <3>1. Prim("docol") \in Cells
      BY <2>2, CompiledFacts DEF Alone
    <3>2. Tidy(Prim("docol"))
      BY TidyCells DEF Kinds
    <3> QED
      BY <2>1, <2>2, <3>1, <3>2, CleanOne
  <2>7. Marked(rstk', Source!Open(ip), Len(mem') + 1) /\ Len(rstk') = Source!Open(ip) + 2
    BY <1>0, <2>1, <2>2, <2>6, MarksStay
  <2> QED
    BY <2>1, <2>2, <2>3, <2>4, <2>5, <2>6, <2>7, ShapeFollows
<1> QED
  BY <1>1, <1>2

LEMMA SemicolonShape ==
  ASSUME Inv, Inv', WellBuilt, Shape, Semicolon
  PROVE  Shape'
<1>0. PICK w : Read(w) /\ w \subseteq Switching \ {":", "]"}
  BY Zenon DEF Semicolon, Switching
<1>1. CASE words = <<>>
  BY <1>1, StopShape DEF Semicolon
<1>2. CASE words # <<>>
  <2>1. Took(1) /\ mem' = Append(mem, Prim("EXIT")) /\ iscomp' = FALSE /\ rstk' = rstk
    BY <1>2 DEF Semicolon
  <2>2. /\ ip \in 1 .. Len(prog) /\ prog[ip] \in Switching \ {":", "]"} /\ prog \in Programs
        /\ mem \in Seq(Cells) /\ Clean(mem) /\ Len(mem) \in Nat
    BY <1>0, ReadShape
  <2>3. Source!Open(ip + 1) = Source!Open(ip) /\ ~Source!Compiling(ip + 1)
    BY <2>2, SwitchToken
  <2>4. Clean(mem') /\ Len(mem') = Len(mem) + 1
    <3>1. Prim("EXIT") \in Cells
      BY <2>2, CompiledFacts DEF Alone
    <3>2. Tidy(Prim("EXIT"))
      BY TidyCells DEF Kinds
    <3> QED
      BY <2>1, <2>2, <3>1, <3>2, CleanOne
  <2>5. Marked(rstk', Source!Open(ip), Len(mem') + 1) /\ Len(rstk') = Source!Open(ip) + 2
    BY <1>0, <2>1, <2>2, <2>4, MarksStay
  <2> QED
    BY <1>0, <2>1, <2>3, <2>4, <2>5, CompileShape
<1> QED
  BY <1>1, <1>2

LEMMA MarkShape ==
  ASSUME Inv, Inv', WellBuilt, Shape, Mark
  PROVE  Shape'
<1>0. Read({"IMMEDIATE", "HIDE", "UNHIDE"})
  BY DEF Mark
<1>1. CASE words = <<>>
  BY <1>1, StopShape DEF Mark
<1>2. CASE words # <<>>
  <2>1. Took(1) /\ mem' = mem /\ iscomp' = iscomp /\ rstk' = rstk
    BY <1>2 DEF Mark
  <2>2. /\ ip \in 1 .. Len(prog) /\ prog[ip] \in {"IMMEDIATE", "HIDE", "UNHIDE"}
        /\ prog \in Programs /\ Clean(mem) /\ Len(mem) \in Nat /\ (iscomp <=> Source!Compiling(ip))
    BY <1>0, ReadShape
  <2>3. /\ Source!Open(ip + 1) = Source!Open(ip)
        /\ Source!Compiling(ip + 1) <=> Source!Compiling(ip)
    BY <2>2, OtherToken
  <2>4. Marked(rstk', Source!Open(ip), Len(mem') + 1) /\ Len(rstk') = Source!Open(ip) + 2
    BY <1>0, <2>1, <2>2, MarksStay
  <2> QED
    BY <1>0, <2>1, <2>2, <2>3, <2>4, CompileShape
<1> QED
  BY <1>1, <1>2

LEMMA BracketShape ==
  ASSUME Inv, Inv', WellBuilt, Shape, Bracket
  PROVE  Shape'
<1>1. /\ Read({"[", "]"}) /\ Took(1) /\ mem' = mem /\ rstk' = rstk
      /\ iscomp' = (prog[ip] = "]")
  BY DEF Bracket, Token
<1>2. /\ ip \in 1 .. Len(prog) /\ prog[ip] \in {"[", "]"}
      /\ prog \in Programs /\ Clean(mem) /\ Len(mem) \in Nat
  BY <1>1, ReadShape
<1>3. /\ Source!Open(ip + 1) = Source!Open(ip)
      /\ Source!Compiling(ip + 1) <=> prog[ip] = "]"
  BY <1>2, SwitchToken DEF Switching
<1>4. Marked(rstk', Source!Open(ip), Len(mem') + 1) /\ Len(rstk') = Source!Open(ip) + 2
  BY <1>1, <1>2, MarksStay
<1>5. iscomp' <=> Source!Compiling(ip + 1)
  BY <1>1, <1>3
<1> QED
  BY <1>1, <1>2, <1>3, <1>4, <1>5, CompileShape

\* The words of a structure stand in compile mode and leave it so.
LEMMA StructureShape ==
  ASSUME Inv, WellBuilt, Shape, NEW w, Read(w), w \subseteq Source!Structure, iscomp' = iscomp
  PROVE  /\ ip \in Source!Pos /\ prog[ip] \in w /\ prog \in Programs
         /\ iscomp' <=> Source!Compiling(ip + 1)
         /\ \A S : prog[ip] \in S => Source!Is(ip, S)
<1>1. /\ ip \in 1 .. Len(prog) /\ prog[ip] \in w /\ prog \in Programs
      /\ (iscomp <=> Source!Compiling(ip)) /\ iscomp \in BOOLEAN
  BY ReadShape
<1>2. ip \in Source!Pos /\ (Source!Compiling(ip + 1) <=> Source!Compiling(ip))
  BY <1>1, StructureToken
<1>3. \A S : prog[ip] \in S => Source!Is(ip, S)
  BY <1>2 DEF Source!Is
<1> QED
  BY <1>1, <1>2, <1>3

\* A mark goes on the return stack.
LEMMA MarkGoesOn ==
  ASSUME NEW o \in Nat, rstk \in Seq(Int), Marked(rstk, o, Here), Here \in Nat,
         Len(rstk) <= o + 2, NEW k \in Nat, Here <= k, NEW v \in Int, v \in 1 .. k,
         rstk' = <<v>> \o rstk
  PROVE  Marked(rstk', o + 1, k) /\ Len(rstk') = (o + 1) + 2
BY MarkPushed

\* A structure, or a second part of one, opens: its mark goes on the return stack.
LEMMA OpensShape ==
  ASSUME Inv, Inv', Shape, NEW w, Read(w), Took(1), iscomp' <=> Source!Compiling(ip + 1),
         Source!Open(ip + 1) = Source!Open(ip) + 1,
         NEW v \in Int, v \in 1 .. Len(mem') + 1, rstk' = <<v>> \o rstk,
         Len(mem) <= Len(mem'), Clean(mem')
  PROVE  Shape'
<1>1. Source!Open(ip) \in Nat /\ Here \in Nat /\ Here = Len(mem) + 1 /\ Len(mem) \in Nat
      /\ Marked(rstk, Source!Open(ip), Here) /\ Len(rstk) <= Source!Open(ip) + 2
      /\ rstk \in Seq(Int)
  BY ReadShape
<1>2. Len(mem') \in Nat
  BY TypesNext DEF Typed
<1> DEFINE o == Source!Open(ip)
           k == Len(mem') + 1
<1>3. k \in Nat /\ Here <= k /\ v \in 1 .. k
  BY <1>1, <1>2
<1>4. o \in Nat /\ Marked(rstk, o, Here) /\ Len(rstk) <= o + 2
  BY <1>1
<1> HIDE DEF o, k
<1>5. Marked(rstk', o + 1, k) /\ Len(rstk') = (o + 1) + 2
  BY <1>1, <1>3, <1>4, MarkGoesOn
<1>6. Marked(rstk', Source!Open(ip + 1), Len(mem') + 1) /\ Len(rstk') = Source!Open(ip + 1) + 2
  BY <1>5 DEF o, k
<1> QED
  BY <1>6, CompileShape

\* A test and a jump with an operand to patch.
LEMMA TestShape ==
  ASSUME Inv, Inv', Shape, NEW w, Read(w), Took(1), iscomp' <=> Source!Compiling(ip + 1),
         Source!Open(ip + 1) = Source!Open(ip) + 1,
         NEW op \in {"?FALSE", "?TRUE"},
         mem' = mem \o <<Prim(op), Prim("?JUMP"), Operand(0)>>, rstk' = <<Here + 2>> \o rstk
  PROVE  Shape'
<1>1. /\ ip \in 1 .. Len(prog) /\ mem \in Seq(Cells) /\ Clean(mem) /\ Len(mem) \in Nat
      /\ Here = Len(mem) + 1 /\ Here \in Nat \ {0}
  BY ReadShape
<1>2. /\ Prim(op) \in Cells /\ Prim("?JUMP") \in Cells /\ Operand(0) \in Cells
  BY <1>1, CompiledFacts DEF Alone
<1>3. /\ Tidy(Prim(op)) /\ Tidy(Prim("?JUMP")) /\ Tidy(Operand(0))
  BY TidyCells DEF Kinds
<1>4. Clean(mem')
  BY <1>1, <1>2, <1>3, CleanThree
<1>5. Len(mem') = Len(mem) + 3
  BY <1>1, <1>2
<1> DEFINE v == Here + 2
<1>6. v \in Int /\ v \in 1 .. Len(mem') + 1 /\ Len(mem) <= Len(mem')
  BY <1>1, <1>5
<1>7. rstk' = <<v>> \o rstk
  OBVIOUS
<1> HIDE DEF v
<1> QED
  BY <1>4, <1>6, <1>7, OpensShape

LEMMA IfShape ==
  ASSUME Inv, Inv', WellBuilt, Shape, If
  PROVE  Shape'
<1>0. Read({"IF", "UNLESS"})
  BY DEF If
<1>1. CASE ~RoomOnReturn
  BY <1>1, StopShape DEF If
<1>2. CASE RoomOnReturn
  <2> DEFINE op == IF Token = "IF" THEN "?FALSE" ELSE "?TRUE"
  <2>1. /\ Took(1) /\ mem' = mem \o <<Prim(op), Prim("?JUMP"), Operand(0)>>
        /\ rstk' = <<Here + 2>> \o rstk /\ iscomp' = iscomp
    BY <1>2 DEF If
  <2>2. op \in {"?FALSE", "?TRUE"}
    OBVIOUS
  <2> HIDE DEF op
  <2>3. /\ ip \in Source!Pos /\ prog \in Programs /\ (iscomp' <=> Source!Compiling(ip + 1))
        /\ Source!Is(ip, Source!Openers)
    BY <1>0, <2>1, StructureShape DEF Source!Structure, Source!Openers
  <2>4. Source!Open(ip + 1) = Source!Open(ip) + 1
    BY <2>3, OpenAdds
  <2> QED
    BY <1>0, <2>1, <2>2, <2>3, <2>4, TestShape
<1> QED
  BY <1>1, <1>2

LEMMA WhileShape ==
  ASSUME Inv, Inv', WellBuilt, Shape, While
  PROVE  Shape'
<1>0. Read({"WHILE"})
  BY DEF While
<1>1. CASE ~RoomOnReturn
  BY <1>1, StopShape DEF While
<1>2. CASE RoomOnReturn
  <2>1. /\ Took(1) /\ mem' = mem \o <<Prim("?FALSE"), Prim("?JUMP"), Operand(0)>>
        /\ rstk' = <<Here + 2>> \o rstk /\ iscomp' = iscomp
    BY <1>2 DEF While
  <2>3. /\ ip \in Source!Pos /\ prog \in Programs /\ (iscomp' <=> Source!Compiling(ip + 1))
        /\ Source!Is(ip, {"WHILE"})
    BY <1>0, <2>1, StructureShape DEF Source!Structure
  <2>4. Source!Open(ip + 1) = Source!Open(ip) + 1
    BY <2>3, OpenAddsWhile
  <2> QED
    BY <1>0, <2>1, <2>3, <2>4, TestShape
<1> QED
  BY <1>1, <1>2

LEMMA BeginShape ==
  ASSUME Inv, Inv', WellBuilt, Shape, Begin
  PROVE  Shape'
<1>0. Read({"BEGIN"})
  BY DEF Begin
<1>1. CASE ~RoomOnReturn
  BY <1>1, StopShape DEF Begin
<1>2. CASE RoomOnReturn
  <2>1. Took(1) /\ mem' = mem /\ rstk' = <<Here>> \o rstk /\ iscomp' = iscomp
    BY <1>2 DEF Begin
  <2>2. Here \in Int /\ Here \in 1 .. Len(mem') + 1 /\ Len(mem) <= Len(mem') /\ Clean(mem')
    BY <1>0, <2>1, ReadShape
  <2>3. /\ ip \in Source!Pos /\ prog \in Programs /\ (iscomp' <=> Source!Compiling(ip + 1))
        /\ Source!Is(ip, Source!Openers)
    BY <1>0, <2>1, StructureShape DEF Source!Structure, Source!Openers
  <2>4. Source!Open(ip + 1) = Source!Open(ip) + 1
    BY <2>3, OpenAdds
  <2> QED
    BY <1>0, <2>1, <2>2, <2>3, <2>4, OpensShape
<1> QED
  BY <1>1, <1>2

\* A mark comes off, and is the address of a cell.
LEMMA MarkComesOff ==
  ASSUME NEW o \in Nat \ {0}, rstk \in Seq(Int), Marked(rstk, o, Here), Here \in Nat,
         Len(rstk) = o + 2, NEW k \in Nat, Here <= k
  PROVE  /\ rstk # <<>> /\ Head(rstk) \in 1 .. Here /\ Head(rstk) \in Int
         /\ Tail(rstk) \in Seq(Int)
         /\ Marked(Tail(rstk), o - 1, k) /\ Len(Tail(rstk)) = (o - 1) + 2
<1>1. rstk # <<>>
  OBVIOUS
<1>2. /\ Head(rstk) \in 1 .. Here /\ Marked(Tail(rstk), o - 1, k)
      /\ Len(Tail(rstk)) = (o - 1) + 2
  BY MarkPopped
<1>3. Head(rstk) \in Int /\ Tail(rstk) \in Seq(Int)
  BY <1>1
<1> QED
  BY <1>1, <1>2, <1>3

\* What the closing words find.
LEMMA CloseFacts ==
  ASSUME Inv, Inv', Shape, NEW w, Read(w), Source!Open(ip) # 0, Len(mem) <= Len(mem')
  PROVE  /\ rstk # <<>> /\ Head(rstk) \in 1 .. Here /\ Head(rstk) \in Int
         /\ Head(rstk) >= 0 /\ Here \in Nat /\ Here = Len(mem) + 1 /\ Len(mem) \in Nat
         /\ Tail(rstk) \in Seq(Int) /\ Len(mem') + 1 \in Nat
         /\ Marked(Tail(rstk), Source!Open(ip) - 1, Len(mem') + 1)
         /\ Len(Tail(rstk)) = (Source!Open(ip) - 1) + 2
<1> DEFINE o == Source!Open(ip)
           k == Len(mem') + 1
<1>1. /\ o \in Nat \ {0} /\ rstk \in Seq(Int) /\ Marked(rstk, o, Here) /\ Here \in Nat
      /\ Len(rstk) = o + 2 /\ Here = Len(mem) + 1 /\ Len(mem) \in Nat
  BY ReadShape
<1>2. Len(mem') \in Nat
  BY TypesNext DEF Typed
<1>3. k \in Nat /\ Here <= k
  BY <1>1, <1>2
<1> HIDE DEF o, k
<1>4. /\ rstk # <<>> /\ Head(rstk) \in 1 .. Here /\ Head(rstk) \in Int
      /\ Tail(rstk) \in Seq(Int)
      /\ Marked(Tail(rstk), o - 1, k) /\ Len(Tail(rstk)) = (o - 1) + 2
  BY <1>1, <1>3, MarkComesOff
<1>5. Head(rstk) >= 0
  BY <1>4, <1>1
<1> QED
  BY <1>1, <1>3, <1>4, <1>5 DEF o, k

LEMMA MarkAddress ==
  ASSUME Inv, Shape, NEW w, Read(w), Source!Open(ip) # 0
  PROVE  rstk # <<>> /\ Head(rstk) \in Int /\ Head(rstk) >= 0
<1> DEFINE o == Source!Open(ip)
<1>1. /\ o \in Nat \ {0} /\ rstk \in Seq(Int) /\ Marked(rstk, o, Here) /\ Here \in Nat
      /\ Len(rstk) = o + 2 /\ Here <= Here
  BY ReadShape
<1> HIDE DEF o
<1>2. rstk # <<>> /\ Head(rstk) \in 1 .. Here /\ Head(rstk) \in Int
  BY <1>1, MarkComesOff
<1> QED
  BY <1>1, <1>2

\* A jump is compiled.
LEMMA CleanJump ==
  ASSUME Inv, Clean(mem), ip \in 1 .. Len(prog), NEW op \in {"JUMP", "?JUMP"}, NEW a \in Int, a >= 0
  PROVE  /\ mem \o <<Prim(op), Operand(a)>> \in Seq(Cells)
         /\ Len(mem \o <<Prim(op), Operand(a)>>) = Len(mem) + 2
         /\ Clean(mem \o <<Prim(op), Operand(a)>>)
<1>1. Prim(op) \in Cells /\ Operand(a) \in Cells /\ mem \in Seq(Cells)
  BY CompiledFacts, InvFacts DEF Alone
<1>2. Tidy(Prim(op)) /\ Tidy(Operand(a))
  BY TidyCells DEF Kinds
<1>3. Clean(mem \o <<Prim(op), Operand(a)>>)
  BY <1>1, <1>2, CleanTwo
<1>4. /\ mem \o <<Prim(op), Operand(a)>> \in Seq(Cells)
      /\ Len(mem \o <<Prim(op), Operand(a)>>) = Len(mem) + 2
  BY <1>1
<1> QED
  BY <1>3, <1>4

LEMMA PatchLen ==
  ASSUME NEW m \in Seq(Cells), NEW a, NEW v
  PROVE  Len(Patch(m, a, v)) = Len(m)
<1>1. CASE a \notin DOMAIN m
  BY <1>1 DEF Patch
<1>2. CASE a \in DOMAIN m
  BY <1>2 DEF Patch
<1> QED
  BY <1>1, <1>2

\* THEN, AGAIN and UNTIL take a mark.
LEMMA ThenShape ==
  ASSUME Inv, Inv', WellBuilt, Shape, Then
  PROVE  Shape'
<1>0. Read({"THEN"})
  BY DEF Then
<1>1. CASE rstk = <<>>
  BY <1>1, StopShape DEF Then
<1>2. CASE rstk # <<>> /\ ~Writable(Head(rstk))
  BY <1>2, StopShape DEF Then
<1>3. CASE rstk # <<>> /\ Writable(Head(rstk))
  <2>1. Took(1) /\ mem' = Patch(mem, Head(rstk), Here) /\ rstk' = Tail(rstk) /\ iscomp' = iscomp
    BY <1>3 DEF Then
  <2>2. /\ ip \in Source!Pos /\ prog[ip] = "THEN" /\ prog \in Programs
        /\ (iscomp' <=> Source!Compiling(ip + 1)) /\ Source!Is(ip, Source!Closers)
    BY <1>0, <2>1, StructureShape DEF Source!Structure, Source!Closers
  <2>3. ip \in Nat \ {0} /\ Source!Open(ip) \in Nat /\ Source!Open(ip + 1) \in Nat
    BY InvFacts, OpenIsNat
  <2>4. Source!Open(ip) = Source!Open(ip + 1) + 1
    BY <2>2, OpenTakes
  <2>5. Source!Open(ip) # 0 /\ Source!Open(ip) - 1 = Source!Open(ip + 1)
    BY <2>3, <2>4
  <2>6. mem \in Seq(Cells) /\ Clean(mem) /\ Here \in Int /\ Here >= 0 /\ Len(mem) \in Nat
    BY <1>0, ReadShape
  <2>7. Clean(mem') /\ Len(mem') = Len(mem)
    BY <2>1, <2>6, CleanPatch, PatchLen
  <2>8. /\ Marked(rstk', Source!Open(ip) - 1, Len(mem') + 1)
        /\ Len(rstk') = (Source!Open(ip) - 1) + 2
    BY <1>0, <2>1, <2>5, <2>6, <2>7, CloseFacts
  <2> QED
    BY <1>0, <2>1, <2>2, <2>5, <2>7, <2>8, CompileShape
<1> QED
  BY <1>1, <1>2, <1>3

LEMMA LoopShape ==
  ASSUME Inv, Inv', WellBuilt, Shape, Loop
  PROVE  Shape'
<1>0. Read({"AGAIN", "UNTIL"})
  BY DEF Loop
<1>1. CASE rstk = <<>>
  BY <1>1, StopShape DEF Loop
<1>2. CASE rstk # <<>>
  <2> DEFINE code == IF Token = "AGAIN" THEN <<Prim("JUMP")>> ELSE <<Prim("?FALSE"), Prim("?JUMP")>>
             a == Head(rstk)
  <2>1. Took(1) /\ mem' = mem \o code \o <<Operand(a)>> /\ rstk' = Tail(rstk) /\ iscomp' = iscomp
    BY <1>2 DEF Loop
  <2>2. /\ ip \in Source!Pos /\ prog[ip] \in {"AGAIN", "UNTIL"} /\ prog \in Programs
        /\ (iscomp' <=> Source!Compiling(ip + 1)) /\ Source!Is(ip, Source!Closers)
    BY <1>0, <2>1, StructureShape DEF Source!Structure, Source!Closers
  <2>3. ip \in Nat \ {0} /\ Source!Open(ip) \in Nat /\ Source!Open(ip + 1) \in Nat
    BY InvFacts, OpenIsNat
  <2>4. Source!Open(ip) = Source!Open(ip + 1) + 1
    BY <2>2, OpenTakes
  <2>5. Source!Open(ip) # 0 /\ Source!Open(ip) - 1 = Source!Open(ip + 1)
    BY <2>3, <2>4
  <2>6. mem \in Seq(Cells) /\ Clean(mem) /\ Len(mem) \in Nat /\ ip \in 1 .. Len(prog)
    BY <1>0, ReadShape
  <2>7. a \in Int /\ a >= 0
    BY <1>0, <2>5, MarkAddress
  <2>8. code \in Seq(Cells) /\ \A b \in 1 .. Len(code) : Tidy(code[b])
    <3>1. \A p \in {"JUMP", "?JUMP", "?FALSE"} : Prim(p) \in Cells /\ Tidy(Prim(p))
      BY <2>6, CompiledFacts, TidyCells DEF Alone, Kinds
    <3>2. CASE Token = "AGAIN"
      <4>1. code = <<Prim("JUMP")>>
        BY <3>2
      <4> QED
        BY <3>1, <4>1
    <3>3. CASE Token # "AGAIN"
      <4>1. code = <<Prim("?FALSE"), Prim("?JUMP")>>
        BY <3>3
      <4> HIDE DEF code
      <4>2. code \in Seq(Cells) /\ Len(code) = 2 /\ code[1] = Prim("?FALSE") /\ code[2] = Prim("?JUMP")
        BY <3>1, <4>1
      <4>3. \A b \in 1 .. Len(code) : b = 1 \/ b = 2
        BY <4>2
      <4> QED
        BY <3>1, <4>2, <4>3
    <3> QED
      BY <3>2, <3>3
  <2> HIDE DEF a, code
  <2>9. Operand(a) \in Cells /\ Tidy(Operand(a))
    BY <2>6, <2>7, CompiledFacts, TidyCells DEF Alone
  <2>10. /\ mem \o code \in Seq(Cells) /\ Clean(mem \o code)
         /\ Len(mem \o code) = Len(mem) + Len(code)
    BY <2>6, <2>8, CleanAppend
  <2> DEFINE m == mem \o code
             t == <<Operand(a)>>
  <2>11. m \in Seq(Cells) /\ Clean(m) /\ t \in Seq(Cells) /\ Len(t) = 1 /\ t[1] = Operand(a)
         /\ mem' = m \o t
    BY <2>1, <2>9, <2>10
  <2>12. Len(m) = Len(mem) + Len(code) /\ Len(code) \in Nat
    BY <2>8, <2>10
  <2> HIDE DEF m, t
  <2>13. \A b \in 1 .. Len(t) : Tidy(t[b])
    BY <2>9, <2>11
  <2>14. Clean(m \o t) /\ Len(m \o t) = Len(m) + Len(t)
    BY <2>11, <2>13, CleanAppend
  <2>15. Len(mem') = Len(m) + 1
    BY <2>11, <2>14
  <2>16. Len(mem) <= Len(mem')
    BY <2>6, <2>12, <2>15
  <2>17. /\ Marked(rstk', Source!Open(ip) - 1, Len(mem') + 1)
         /\ Len(rstk') = (Source!Open(ip) - 1) + 2
    BY <1>0, <2>1, <2>5, <2>16, CloseFacts
  <2> QED
    BY <1>0, <2>1, <2>2, <2>5, <2>11, <2>14, <2>17, CompileShape
<1> QED
  BY <1>1, <1>2

\* One mark is replaced by another.
LEMMA MarkReplaced ==
  ASSUME NEW t, t \in Seq(Int), NEW o, o \in Nat, NEW k, k \in Nat, Marked(t, o, k),
         Len(t) <= o + 2, NEW v, v \in Int, v \in 1 .. k, rstk' = <<v>> \o t
  PROVE  Marked(rstk', o + 1, k) /\ Len(rstk') = (o + 1) + 2
<1>1. k <= k
  OBVIOUS
<1> QED
  BY <1>1, MarkPushed

LEMMA ElseShape ==
  ASSUME Inv, Inv', WellBuilt, Shape, Else
  PROVE  Shape'
<1>0. Read({"ELSE"})
  BY DEF Else
<1>1. CASE rstk = <<>>
  BY <1>1, StopShape DEF Else
<1>2. CASE rstk # <<>> /\ ~Writable(Head(rstk))
  BY <1>2, StopShape DEF Else
<1>3. CASE rstk # <<>> /\ Writable(Head(rstk))
  <2> DEFINE m == mem \o <<Prim("JUMP"), Operand(0)>>
             t == Tail(rstk)
             v == Here + 1
             k == Len(mem') + 1
  <2>1. /\ Took(1) /\ mem' = Patch(m, Head(rstk), Here + 2) /\ rstk' = <<v>> \o t
        /\ iscomp' = iscomp
    BY <1>3 DEF Else
  <2>2. /\ ip \in Source!Pos /\ prog[ip] = "ELSE" /\ prog \in Programs
        /\ (iscomp' <=> Source!Compiling(ip + 1)) /\ Source!Is(ip, {"ELSE"})
    BY <1>0, <2>1, StructureShape DEF Source!Structure
  <2>4. Source!Open(ip + 1) = Source!Open(ip) /\ Source!Open(ip) \in Nat \ {0}
    BY <2>2, OpenElse
  <2>6. /\ mem \in Seq(Cells) /\ Clean(mem) /\ Len(mem) \in Nat /\ ip \in 1 .. Len(prog)
        /\ Here \in Nat /\ Here = Len(mem) + 1
    BY <1>0, ReadShape
  <2>7. m \in Seq(Cells) /\ Clean(m) /\ Len(m) = Len(mem) + 2
    BY <2>6, CleanJump
  <2> HIDE DEF m
  <2>8. Clean(mem') /\ Len(mem') = Len(m)
    BY <2>1, <2>6, <2>7, CleanPatch, PatchLen
  <2>9. Len(mem) <= Len(mem') /\ v \in Int /\ v \in 1 .. k /\ k \in Nat
    BY <2>6, <2>7, <2>8
  <2> DEFINE o == Source!Open(ip) - 1
  <2>10. t \in Seq(Int) /\ Marked(t, o, k) /\ Len(t) = o + 2
    BY <1>0, <2>4, <2>9, CloseFacts
  <2>11. o \in Nat /\ o + 1 = Source!Open(ip + 1) /\ Len(t) <= o + 2
    BY <2>4, <2>10
  <2> HIDE DEF o, t, v, k
  <2>12. t \in Seq(Int) /\ Marked(t, o, k)
    BY <2>10
  <2>13. Marked(rstk', o + 1, k) /\ Len(rstk') = (o + 1) + 2
    BY <2>1, <2>9, <2>11, <2>12, MarkReplaced
  <2>14. Marked(rstk', Source!Open(ip + 1), Len(mem') + 1) /\ Len(rstk') = Source!Open(ip + 1) + 2
    BY <2>11, <2>13 DEF k
  <2> QED
    BY <1>0, <2>1, <2>2, <2>8, <2>14, CompileShape
<1> QED
  BY <1>1, <1>2, <1>3

\* The second of a stack is the first of the rest.
LEMMA SecondIs ==
  ASSUME NEW s \in Seq(Int), Len(s) >= 2
  PROVE  s # <<>> /\ Tail(s) # <<>> /\ s[2] = Head(Tail(s)) /\ s[1] = Head(s) /\ Tail(s) \in Seq(Int)
<1>1. Tail(s) \in Seq(Int) /\ Len(Tail(s)) = Len(s) - 1 /\ s # <<>>
  OBVIOUS
<1>2. Tail(s)[1] = s[2] /\ s[1] = Head(s)
  OBVIOUS
<1>3. Tail(s) # <<>>
  <2> DEFINE t == Tail(s)
  <2>1. t \in Seq(Int) /\ Len(t) >= 1
    BY <1>1
  <2> HIDE DEF t
  <2>2. t # <<>>
    BY <2>1
  <2> QED
    BY <2>2 DEF t
<1>4. \A u \in Seq(Int) : u # <<>> => Head(u) = u[1]
  OBVIOUS
<1> QED
  BY <1>1, <1>2, <1>3, <1>4

\* Two marks come off.
LEMMA MarksComeOff ==
  ASSUME NEW o \in Nat, o >= 2, rstk \in Seq(Int), Marked(rstk, o, Here), Here \in Nat,
         Len(rstk) = o + 2, NEW k \in Nat, Here <= k
  PROVE  /\ rstk # <<>> /\ rstk[2] \in Int /\ rstk[2] >= 0
         /\ Marked(Tail(Tail(rstk)), o - 2, k) /\ Len(Tail(Tail(rstk))) = (o - 2) + 2
<1> DEFINE p == o - 1
           t == Tail(rstk)
<1>1. o \in Nat \ {0} /\ p \in Nat \ {0} /\ p - 1 = o - 2 /\ Here <= Here
  OBVIOUS
<1>2. t \in Seq(Int) /\ Marked(t, p, Here) /\ Len(t) = p + 2 /\ rstk # <<>>
  BY <1>1, MarkComesOff
<1>3. rstk[2] = Head(t)
  BY SecondIs
<1> HIDE DEF t, p
<1>4. /\ Head(t) \in 1 .. Here /\ Marked(Tail(t), p - 1, k)
      /\ Len(Tail(t)) = (p - 1) + 2
  BY <1>1, <1>2, MarkPopped
<1>5. Head(t) \in Int /\ Head(t) >= 0
  BY <1>4
<1>6. Marked(Tail(t), o - 2, k) /\ Len(Tail(t)) = (o - 2) + 2
  BY <1>1, <1>4
<1> QED
  BY <1>2, <1>3, <1>5, <1>6 DEF t

\* REPEAT takes two.
LEMMA RepeatShape ==
  ASSUME Inv, Inv', WellBuilt, Shape, Repeat
  PROVE  Shape'
<1>0. Read({"REPEAT"})
  BY DEF Repeat
<1>1. CASE rstk = <<>>
  BY <1>1, StopShape DEF Repeat
<1>2. CASE rstk # <<>> /\ (Len(rstk) = 1 \/ ~Writable(Head(rstk)))
  BY <1>2, StopShape DEF Repeat
<1>3. CASE rstk # <<>> /\ ~(Len(rstk) = 1 \/ ~Writable(Head(rstk)))
  <2> DEFINE a == rstk[2]
             m == mem \o <<Prim("JUMP"), Operand(a)>>
             o == Source!Open(ip)
             k == Len(mem') + 1
  <2>1. /\ Took(1) /\ mem' = Patch(m, rstk[1], Here + 2)
        /\ rstk' = Tail(Tail(rstk)) /\ iscomp' = iscomp
    BY <1>3 DEF Repeat
  <2>2. /\ ip \in Source!Pos /\ prog[ip] = "REPEAT" /\ prog \in Programs
        /\ (iscomp' <=> Source!Compiling(ip + 1)) /\ Source!Is(ip, Source!Closers)
    BY <1>0, <2>1, StructureShape DEF Source!Structure, Source!Closers
  <2>3. ip \in Nat \ {0} /\ Source!Open(ip + 1) \in Nat
    BY InvFacts, OpenIsNat
  <2>4. o = Source!Open(ip + 1) + 2
    BY <2>2, OpenTakes
  <2>5. o \in Nat /\ o >= 2 /\ o - 2 = Source!Open(ip + 1)
    BY <2>3, <2>4
  <2>6. /\ mem \in Seq(Cells) /\ Clean(mem) /\ Len(mem) \in Nat /\ ip \in 1 .. Len(prog)
        /\ Here \in Nat /\ Here = Len(mem) + 1
        /\ rstk \in Seq(Int) /\ Marked(rstk, o, Here) /\ Len(rstk) = o + 2
    BY <1>0, ReadShape
  <2> HIDE DEF o
  <2>7. a \in Int /\ a >= 0
    <3>1. Here <= Here
      BY <2>6
    <3> QED
      BY <2>5, <2>6, <3>1, MarksComeOff
  <2> HIDE DEF a
  <2>8. m \in Seq(Cells) /\ Clean(m) /\ Len(m) = Len(mem) + 2
    BY <2>6, <2>7, CleanJump
  <2> HIDE DEF m
  <2>9. Here + 2 \in Int /\ Here + 2 >= 0
    BY <2>6
  <2>10. Clean(mem') /\ Len(mem') = Len(m)
    BY <2>1, <2>8, <2>9, CleanPatch, PatchLen
  <2>11. k \in Nat /\ Here <= k
    BY <2>6, <2>8, <2>10
  <2> HIDE DEF k
  <2>12. Marked(Tail(Tail(rstk)), o - 2, k) /\ Len(Tail(Tail(rstk))) = (o - 2) + 2
    BY <2>5, <2>6, <2>11, MarksComeOff
  <2>13. Marked(rstk', Source!Open(ip + 1), Len(mem') + 1) /\ Len(rstk') = Source!Open(ip + 1) + 2
    BY <2>1, <2>5, <2>12 DEF k
  <2> QED
    BY <1>0, <2>1, <2>2, <2>10, <2>13, CompileShape
<1> QED
  BY <1>1, <1>2, <1>3

-----------------------------------------------------------------------------
(* Words that run. *)

\* A word runs for the interpreter or for the word whose next cell is at back; the token it
\* goes on with, i, is in the same structures and the same mode.
Place(i, back) ==
  /\ i \in Nat \ {0} /\ back \in Int
  /\ Source!Open(i) = Source!Open(ip) /\ (Source!Compiling(i) <=> Source!Compiling(ip))
  /\ \/ wp = Interp /\ back = Interp
     \/ wp # Interp /\ back > 0

LEMMA PassShape ==
  ASSUME Inv, Inv', Shape, NEW i, NEW back, Place(i, back), prog' = prog, iscomp' = iscomp,
         rstk' = rstk, ip' = i, wp' = back, Len(mem) <= Len(mem'), Clean(mem')
  PROVE  Shape'
<1>1. \/ wp = Interp /\ wp' = Interp
      \/ wp # Interp /\ wp' # Interp /\ wp' >= 0
  BY DEF Place, Interp
<1>2. /\ Source!Open(ip') = Source!Open(ip)
      /\ Source!Compiling(ip') <=> Source!Compiling(ip)
  BY DEF Place
<1> QED
  BY <1>1, <1>2, SteadyShape

LEMMA SameCells ==
  ASSUME Inv, Shape, mem' = mem
  PROVE  Len(mem) <= Len(mem') /\ Clean(mem')
BY InvFacts DEF Shape

LEMMA LeaveShape ==
  ASSUME Inv, Inv', Shape, NEW i, NEW back, Place(i, back), NEW v, Leave(v, i, back)
  PROVE  Shape'
<1>1. CASE Len(pstk) >= PStkCells
  BY <1>1, StopShape DEF Leave
<1>2. CASE ~(Len(pstk) >= PStkCells)
  <2>1. /\ prog' = prog /\ iscomp' = iscomp /\ rstk' = rstk /\ ip' = i /\ wp' = back
        /\ mem' = mem
    BY <1>2 DEF Leave
  <2> QED
    BY <2>1, SameCells, PassShape
<1> QED
  BY <1>1, <1>2

LEMMA ActShape ==
  ASSUME Inv, Inv', Shape, NEW i, NEW back, Place(i, back),
         NEW w \in {"x", "flag", "DROP"}, Act(w, i, back)
  PROVE  Shape'
<1>1. CASE w = "x"
  <2>1. /\ prog' = prog /\ iscomp' = iscomp /\ rstk' = rstk /\ ip' = i /\ wp' = back
        /\ mem' = mem
    BY <1>1 DEF Act, Pass
  <2> QED
    BY <2>1, SameCells, PassShape
<1>2. CASE w = "flag"
  <2>1. \E v \in {0, -1} : Leave(v, i, back)
    BY <1>2 DEF Act
  <2> QED
    BY <2>1, LeaveShape
<1>3. CASE w = "DROP" /\ pstk = <<>>
  <2>1. Stop("stkunf")
    BY <1>3 DEF Act
  <2> QED
    BY <2>1, StopShape
<1>4. CASE w = "DROP" /\ pstk # <<>>
  <2>1. /\ prog' = prog /\ iscomp' = iscomp /\ rstk' = rstk /\ ip' = i /\ wp' = back
        /\ mem' = mem
    BY <1>4 DEF Act
  <2> QED
    BY <2>1, SameCells, PassShape
<1> QED
  BY <1>1, <1>2, <1>3, <1>4

LEMMA CreateShape ==
  ASSUME Inv, Inv', Shape, NEW i, NEW back, Place(i, back), NEW w, Create(w, i, back)
  PROVE  Shape'
<1>1. CASE i > Len(prog)
  BY <1>1, StopShape DEF Create
<1>2. CASE ~(i > Len(prog))
  <2> DEFINE c(op) == [op |-> op, arg |-> 0, tok |-> i]
             m == mem \o <<c("douser"), c("operand")>>
             t == IF w = "VARIABLE" THEN <<c("operand")>> ELSE <<>>
  <2>1. /\ prog[i] \in Names /\ mem' = m \o t
        /\ prog' = prog /\ iscomp' = iscomp /\ rstk' = rstk /\ ip' = i + 1 /\ wp' = back
    BY <1>2 DEF Create
  <2>2. /\ i \in 1 .. Len(prog) /\ prog \in Programs /\ mem \in Seq(Cells) /\ Len(mem) \in Nat
        /\ Clean(mem)
    BY <1>2, InvFacts DEF Place, Shape
  <2>3. \A op \in {"douser", "operand"} : c(op) \in Cells /\ Tidy(c(op))
    BY <2>2, InvFacts DEF Cells, Kinds, Tidy
  <2>4. m \in Seq(Cells) /\ Clean(m) /\ Len(m) = Len(mem) + 2
    <3>1. c("douser") \in Cells /\ Tidy(c("douser")) /\ c("operand") \in Cells /\ Tidy(c("operand"))
      BY <2>3
    <3> HIDE DEF c
    <3>2. m \in Seq(Cells) /\ Len(m) = Len(mem) + 2
      BY <2>2, <3>1
    <3> QED
      BY <2>2, <3>1, <3>2, CleanTwo
  <2>5. t \in Seq(Cells) /\ \A b \in 1 .. Len(t) : Tidy(t[b])
    <3>1. c("operand") \in Cells /\ Tidy(c("operand"))
      BY <2>3
    <3> HIDE DEF c
    <3>2. CASE w = "VARIABLE"
      <4>1. t = <<c("operand")>>
        BY <3>2
      <4> HIDE DEF t
      <4> QED
        BY <3>1, <4>1
    <3>3. CASE w # "VARIABLE"
      <4>1. t = <<>>
        BY <3>3
      <4> HIDE DEF t
      <4> QED
        BY <4>1
    <3> QED
      BY <3>2, <3>3
  <2> HIDE DEF m, t
  <2>6. Clean(m \o t) /\ Len(m \o t) = Len(m) + Len(t) /\ Len(t) \in Nat
    <3>1. m \in Seq(Cells) /\ Clean(m) /\ Len(t) \in Nat
      BY <2>4, <2>5
    <3> QED
      BY <2>5, <3>1, CleanAppend
  <2>7. Len(mem) <= Len(mem') /\ Clean(mem')
    BY <2>1, <2>2, <2>4, <2>6
  <2>8. Place(i + 1, back)
    BY <2>1, <2>2, OtherToken DEF Place
  <2> QED
    BY <2>1, <2>7, <2>8, PassShape
<1> QED
  BY <1>1, <1>2

\* Some word runs.
LEMMA RunningRstk ==
  ASSUME Inv, Shape, wp # Interp
  PROVE  /\ Source!Open(ip) \in Nat /\ Here \in Nat \ {0} /\ rstk \in Seq(Int) /\ rstk # <<>>
         /\ Marked(rstk, Source!Open(ip), Here) /\ Running(rstk, Source!Open(ip))
         /\ Marked(Tail(rstk), Source!Open(ip), Here)
         /\ \/ Head(rstk) = Interp /\ Len(Tail(rstk)) = Source!Open(ip) + 2
            \/ Head(rstk) > 0 /\ Head(rstk) \in Int /\ Running(Tail(rstk), Source!Open(ip))
<1> DEFINE o == Source!Open(ip)
<1>1. o \in Nat /\ Here \in Nat \ {0} /\ rstk \in Seq(Int) /\ Len(rstk) \in Nat
  BY InvFacts, OpenIsNat DEF Here
<1>2. Marked(rstk, o, Here) /\ Running(rstk, o)
  BY DEF Shape
<1> HIDE DEF o
<1>3. rstk # <<>>
  <2>1. Len(rstk) >= o + 3
    BY <1>2 DEF Running
  <2> QED
    BY <1>1, <2>1
<1>4. /\ Marked(Tail(rstk), o, Here)
      /\ \/ Head(rstk) = Interp /\ Len(Tail(rstk)) = o + 2
         \/ Head(rstk) > 0 /\ Head(rstk) \in Int /\ Running(Tail(rstk), o)
  BY <1>1, <1>2, CallPopped
<1> QED
  BY <1>1, <1>2, <1>3, <1>4 DEF o

\* A word returns.
LEMMA ReturnShape ==
  ASSUME Inv, Inv', Shape, wp # Interp, prog' = prog, iscomp' = iscomp, ip' = ip,
         rstk' = Tail(rstk), wp' = Head(rstk), Len(mem) <= Len(mem'), Clean(mem')
  PROVE  Shape'
<1>1. Len(mem') \in Nat /\ Len(mem) \in Nat
  BY InvFacts, TypesNext DEF Typed
<1>2. Here \in Nat /\ Here <= Len(mem') + 1 /\ Len(mem') + 1 \in Nat /\ Source!Open(ip) \in Nat
  BY <1>1, RunningRstk DEF Here
<1>3. Marked(Tail(rstk), Source!Open(ip), Len(mem') + 1)
  BY <1>2, RunningRstk, MarkedGrows
<1>4. Marked(rstk', Source!Open(ip'), Len(mem') + 1)
  BY <1>3
<1>5. wp' = Interp => Len(rstk') = Source!Open(ip') + 2
  BY RunningRstk DEF Interp
<1>6. wp' # Interp => wp' >= 0 /\ Running(rstk', Source!Open(ip'))
  BY RunningRstk
<1>7. iscomp' <=> Source!Compiling(ip')
  BY DEF Shape
<1> QED
  BY <1>4, <1>5, <1>6, <1>7, ShapeFollows

LEMMA DoesShape ==
  ASSUME Inv, Inv', Shape, NEW back, Place(ip, back), wp # Interp, Does(ip, back)
  PROVE  Shape'
<1>1. CASE ~(words # <<>> /\ mem[Last(words).cfa].op = "douser")
  <2>1. /\ prog' = prog /\ iscomp' = iscomp /\ rstk' = rstk /\ ip' = ip /\ wp' = back
        /\ mem' = mem
    BY <1>1 DEF Does, Pass
  <2> QED
    BY <2>1, SameCells, PassShape
<1>2. CASE (words # <<>> /\ mem[Last(words).cfa].op = "douser")
  <2>1. rstk # <<>>
    BY RunningRstk
  <2> DEFINE a == Last(words).cfa + 1
  <2>2. /\ mem' = Patch(mem, a, back) /\ wp' = Head(rstk) /\ rstk' = Tail(rstk) /\ ip' = ip
        /\ prog' = prog /\ iscomp' = iscomp
    BY <1>2, <2>1 DEF Does
  <2> HIDE DEF a
  <2>3. mem \in Seq(Cells) /\ Clean(mem) /\ Len(mem) \in Nat
    BY InvFacts DEF Shape
  <2>4. back \in Int /\ back >= 0
    BY DEF Place
  <2>5. Clean(mem') /\ Len(mem') = Len(mem)
    BY <2>2, <2>3, <2>4, CleanPatch, PatchLen
  <2> QED
    BY <2>2, <2>3, <2>5, ReturnShape
<1> QED
  BY <1>1, <1>2

LEMMA SystemShape ==
  ASSUME Inv, Inv', Shape, NEW i, NEW back, Place(i, back),
         NEW w \in Primitives \ {"[COMPILE]"}, System(w, i, back),
         w = "DOES>" => wp # Interp /\ i = ip
  PROVE  Shape'
<1>1. CASE w \in {"x", "flag", "DROP"}
  BY <1>1, ActShape DEF System
<1>2. CASE w \in {"CREATE", "VARIABLE"}
  BY <1>2, CreateShape DEF System
<1>3. CASE w = "DOES>"
  BY <1>3, DoesShape DEF System
<1> QED
  BY <1>1, <1>2, <1>3 DEF Primitives

LEMMA BegunShape ==
  ASSUME Inv, Inv', Shape, NEW i, NEW back, Place(i, back), NEW code \in Int, code >= 0,
         Begun(code, i, back)
  PROVE  Shape'
<1>1. /\ prog' = prog /\ ip' = i /\ mem' = mem /\ iscomp' = iscomp
      /\ wp' = code /\ rstk' = <<back>> \o rstk
  BY DEF Begun
<1> DEFINE o == Source!Open(ip)
<1>2. o \in Nat /\ rstk \in Seq(Int) /\ Here \in Nat /\ back \in Int /\ Marked(rstk, o, Here)
  BY InvFacts, OpenIsNat DEF Here, Place, Shape
<1>3. \/ Len(rstk) = o + 2 /\ back = Interp
      \/ Running(rstk, o) /\ back > 0
  BY DEF Place, Shape
<1> HIDE DEF o
<1>4. \A t : t = <<back>> \o rstk => Marked(t, o, Here) /\ Running(t, o)
  BY <1>2, <1>3, CallPushed
<1>5. Marked(rstk', o, Len(mem') + 1) /\ Running(rstk', o)
  BY <1>1, <1>4 DEF Here
<1>6. Source!Open(ip') = o /\ (iscomp' <=> Source!Compiling(ip'))
  BY <1>1 DEF Place, Shape, o
<1>7. wp' # Interp /\ wp' >= 0
  BY <1>1 DEF Interp
<1>8. Clean(mem')
  BY <1>1 DEF Shape
<1> QED
  BY <1>1, <1>5, <1>6, <1>7, <1>8, ShapeFollows

LEMMA InvokeShape ==
  ASSUME Inv, Inv', Shape, NEW i, NEW back, Place(i, back), NEW cfa \in 1 .. Len(mem),
         Invoke(cfa, i, back)
  PROVE  Shape'
<1> DEFINE op == mem[cfa].op
           code == mem[cfa + 1].arg
<1>0. cfa + 1 \in Int /\ cfa + 1 >= 0
  BY InvFacts
<1>1. CASE op = "docol" /\ ~RoomOnReturn
  BY <1>1, StopShape DEF Invoke
<1>2. CASE op = "docol" /\ RoomOnReturn
  <2>1. Begun(cfa + 1, i, back)
    BY <1>2 DEF Invoke
  <2> QED
    BY <1>0, <2>1, BegunShape
<1>3. CASE op \notin {"docol", "douser"}
  <2>1. Stop("fault")
    BY <1>3 DEF Invoke
  <2> QED
    BY <2>1, StopShape
<1>4. CASE op = "douser" /\ (code = 0 \/ Len(pstk) >= PStkCells)
  <2>1. Leave(cfa + 2, i, back)
    BY <1>4 DEF Invoke
  <2> QED
    BY <2>1, LeaveShape
<1>5. CASE op = "douser" /\ ~(code = 0 \/ Len(pstk) >= PStkCells) /\ ~RoomOnReturn
  <2>1. Stop("rstkovf")
    BY <1>5 DEF Invoke
  <2> QED
    BY <2>1, StopShape
<1>6. CASE op = "douser" /\ ~(code = 0 \/ Len(pstk) >= PStkCells) /\ RoomOnReturn
  <2>1. Begun(code, i, back)
    BY <1>6 DEF Invoke
  <2>2. cfa + 1 \in 1 .. Len(mem) /\ code \in Int
    BY <1>6, CellFacts DEF Paired
  <2>3. code >= 0
    BY <2>2 DEF Shape, Clean, Tidy
  <2> HIDE DEF code
  <2> QED
    BY <2>1, <2>2, <2>3, BegunShape
<1> QED
  BY <1>1, <1>2, <1>3, <1>4, <1>5, <1>6

LEMMA TidyCode ==
  ASSUME Inv, ip \in 1 .. Len(prog), NEW t \in Tokens, t \in Names => Find(t) # 0,
         t # "[COMPILE]"
  PROVE  CodeFor(t) \in Cells /\ Tidy(CodeFor(t))
<1>1. CodeFor(t) \in Cells
  BY CodeFacts
<1>2. CASE t \in Names
  <2> DEFINE a == words[Find(t)].cfa
  <2>1. Find(t) \in 1 .. Len(words)
    BY <1>2, InvFacts, FindFacts
  <2>2. a \in 1 .. Len(mem) /\ Len(mem) \in Nat
    BY <2>1, InvFacts
  <2>3. CodeFor(t) = Call(a)
    BY <1>2 DEF CodeFor
  <2> HIDE DEF a
  <2>4. a \in Int /\ a >= 0
    BY <2>2
  <2>5. Tidy(CodeFor(t))
    BY <2>3, <2>4, TidyCells
  <2> QED
    BY <1>1, <2>5
<1>3. CASE t \notin Names
  <2>1. CodeFor(t) = Prim(t)
    BY <1>3 DEF CodeFor
  <2>2. Tidy(Prim(t))
    BY TidyCells
  <2> QED
    BY <1>1, <2>1, <2>2
<1> QED
  BY <1>2, <1>3

LEMMA WordShape ==
  ASSUME Inv, Inv', WellBuilt, Shape, Word
  PROVE  Shape'
<1>0. Read(Names \union Primitives)
  BY DEF Word
<1>1. /\ ip \in 1 .. Len(prog) /\ prog[ip] \in Names \union Primitives /\ prog \in Programs
      /\ wp = Interp /\ mem \in Seq(Cells) /\ Clean(mem) /\ Len(mem) \in Nat
      /\ (iscomp <=> Source!Compiling(ip)) /\ iscomp \in BOOLEAN
  BY <1>0, ReadShape
<1>2. Token = prog[ip] /\ Token \in Tokens
  BY <1>0, ReadFacts
<1>3. /\ Source!Open(ip + 1) = Source!Open(ip) /\ ip + 1 \in Nat \ {0}
      /\ Source!Compiling(ip + 1) <=> Source!Compiling(ip)
  BY <1>1, OtherToken
<1>4. Place(ip + 1, Interp)
  BY <1>1, <1>3 DEF Place, Interp
<1>5. /\ Token # "[COMPILE]" /\ (Token = "DOES>" => iscomp)
  <2>1. ip \in Source!Pos
    BY <1>1, PosFacts
  <2>2. ~Source!Is(ip, {"[COMPILE]"}) /\ (Source!Is(ip, {"DOES>"}) => Source!Compiling(ip))
    BY <2>1 DEF WellBuilt
  <2> QED
    BY <1>1, <1>2, <2>1, <2>2 DEF Source!Is
<1>6. CASE Token \notin Primitives /\ Find(Token) = 0
  BY <1>6, StopShape DEF Word
<1> DEFINE hidden == iscomp /\ (Token \in Primitives \/ ~words[Find(Token)].immediate)
<1>7. CASE ~(Token \notin Primitives /\ Find(Token) = 0) /\ hidden
  <2>1. Took(1) /\ mem' = Append(mem, CodeFor(Token)) /\ iscomp' = iscomp /\ rstk' = rstk
    BY <1>7 DEF Word
  <2>2. Token \in Names => Find(Token) # 0
    BY <1>7, TextAssumption
  <2>3. CodeFor(Token) \in Cells /\ Tidy(CodeFor(Token))
    BY <1>1, <1>2, <1>5, <2>2, TidyCode
  <2>4. Clean(Append(mem, CodeFor(Token)))
    BY <1>1, <2>3, CleanOne
  <2>5. Len(Append(mem, CodeFor(Token))) = Len(mem) + 1
    BY <1>1, <2>3
  <2>6. Clean(mem') /\ Len(mem) <= Len(mem')
    BY <1>1, <2>1, <2>4, <2>5
  <2>7. Marked(rstk', Source!Open(ip), Len(mem') + 1) /\ Len(rstk') = Source!Open(ip) + 2
    BY <1>0, <2>1, <2>6, MarksStay
  <2> QED
    BY <1>0, <1>1, <1>3, <2>1, <2>6, <2>7, CompileShape
<1>8. CASE ~(Token \notin Primitives /\ Find(Token) = 0) /\ ~hidden /\ Token \in Primitives
  <2>1. System(Token, ip + 1, Interp)
    BY <1>8 DEF Word
  <2>2. Token # "DOES>"
    BY <1>5, <1>8
  <2> QED
    BY <1>4, <1>5, <1>8, <2>1, <2>2, SystemShape
<1>9. CASE ~(Token \notin Primitives /\ Find(Token) = 0) /\ ~hidden /\ Token \notin Primitives
  <2>1. Invoke(words[Find(Token)].cfa, ip + 1, Interp)
    BY <1>9 DEF Word
  <2>2. Find(Token) \in 1 .. Len(words)
    BY <1>9, InvFacts, FindFacts
  <2>3. words[Find(Token)].cfa \in 1 .. Len(mem)
    BY <2>2, InvFacts
  <2> QED
    BY <1>4, <2>1, <2>3, InvokeShape
<1> QED
  BY <1>6, <1>7, <1>8, <1>9

-----------------------------------------------------------------------------
(* Words in compiled code. *)

LEMMA RunningPlace ==
  ASSUME Inv, Shape, NEW ops, At(ops)
  PROVE  /\ wp # Interp /\ wp \in Int /\ wp >= 0 /\ Place(ip, wp + 1)
         /\ "QUIT" \notin ops /\ "garbage" \notin ops => wp \in 1 .. Len(mem) /\ mem[wp].op \in ops
<1>1. wp # Interp /\ CodeAt(wp) \in ops
  BY DEF At
<1>2. wp \in Int /\ wp >= 0 /\ ip \in Nat \ {0} /\ DOMAIN mem = 1 .. Len(mem)
  BY <1>1, InvFacts DEF Shape
<1>3. wp + 1 \in Int /\ wp + 1 > 0
  BY <1>2
<1>4. Place(ip, wp + 1)
  BY <1>1, <1>2, <1>3 DEF Place
<1>5. ASSUME "QUIT" \notin ops, "garbage" \notin ops
      PROVE  wp \in 1 .. Len(mem) /\ mem[wp].op \in ops
  <2>1. wp # OuterExit /\ wp # QuitAddr
    BY <1>2 DEF OuterExit, QuitAddr
  <2> QED
    BY <1>1, <1>2, <1>5, <2>1 DEF CodeAt
<1> QED
  BY <1>1, <1>2, <1>4, <1>5

LEMMA RunSystemShape ==
  ASSUME Inv, Inv', Shape, RunSystem
  PROVE  Shape'
<1>1. At(Primitives) /\ System(mem[wp].op, ip, wp + 1)
  BY DEF RunSystem
<1>2. "QUIT" \notin Primitives /\ "garbage" \notin Primitives
  BY DEF Primitives
<1>3. /\ wp # Interp /\ Place(ip, wp + 1) /\ wp \in 1 .. Len(mem) /\ mem[wp].op \in Primitives
  BY <1>1, <1>2, RunningPlace
<1>4. mem[wp].op # "[COMPILE]"
  BY <1>3 DEF Shape, Clean, Tidy
<1> QED
  BY <1>1, <1>3, <1>4, SystemShape

LEMMA RunCallShape ==
  ASSUME Inv, Inv', Shape, RunCall
  PROVE  Shape'
<1>1. At({"call"}) /\ Invoke(mem[wp].arg, ip, wp + 1)
  BY DEF RunCall
<1>2. Place(ip, wp + 1) /\ wp \in 1 .. Len(mem) /\ mem[wp].op = "call"
  BY <1>1, RunningPlace
<1>3. mem[wp].arg \in 1 .. Len(mem)
  BY <1>2, CellFacts
<1> QED
  BY <1>1, <1>2, <1>3, InvokeShape

LEMMA RunExitShape ==
  ASSUME Inv, Inv', Shape, RunExit
  PROVE  Shape'
<1>1. At({"EXIT"})
  BY DEF RunExit
<1>2. wp # Interp
  BY <1>1 DEF At
<1>3. rstk # <<>>
  BY <1>2, RunningRstk
<1>4. /\ wp' = Head(rstk) /\ rstk' = Tail(rstk) /\ prog' = prog /\ ip' = ip /\ mem' = mem
      /\ iscomp' = iscomp
  BY <1>3 DEF RunExit
<1> QED
  BY <1>2, <1>4, SameCells, ReturnShape

LEMMA GotoShape ==
  ASSUME Inv, Inv', Shape, wp # Interp, NEW a \in Int, a >= 0, Goto(a)
  PROVE  Shape'
<1>1. /\ wp' = a /\ prog' = prog /\ ip' = ip /\ mem' = mem /\ iscomp' = iscomp /\ rstk' = rstk
  BY DEF Goto
<1>2. wp' # Interp /\ wp' >= 0
  BY <1>1 DEF Interp
<1> QED
  BY <1>1, <1>2, SameCells, SteadyShape

LEMMA RunTestShape ==
  ASSUME Inv, Inv', Shape, RunTest
  PROVE  Shape'
<1>1. At({"?FALSE", "?TRUE"})
  BY DEF RunTest
<1>2. wp # Interp /\ wp + 1 \in Int /\ wp + 1 >= 0
  BY <1>1, RunningPlace
<1>3. CASE pstk = <<>>
  BY <1>3, StopShape DEF RunTest
<1>4. CASE pstk # <<>>
  <2>1. Goto(wp + 1)
    BY <1>4 DEF RunTest
  <2> QED
    BY <1>2, <2>1, GotoShape
<1> QED
  BY <1>3, <1>4

LEMMA RunJumpShape ==
  ASSUME Inv, Inv', Shape, RunJump
  PROVE  Shape'
<1>1. At({"JUMP", "?JUMP"})
  BY DEF RunJump
<1>2. wp # Interp /\ wp \in 1 .. Len(mem) /\ mem[wp].op \in {"JUMP", "?JUMP"}
  BY <1>1, RunningPlace
<1>3. CASE mem[wp].op = "?JUMP" /\ pstk = <<>>
  BY <1>3, StopShape DEF RunJump
<1>4. CASE ~(mem[wp].op = "?JUMP" /\ pstk = <<>>)
  <2>1. Goto(Target)
    BY <1>4 DEF RunJump
  <2>2. wp + 1 \in 1 .. Len(mem) /\ mem[wp + 1].arg \in Int
    BY <1>2, CellFacts DEF Paired
  <2>3. mem[wp + 1].arg >= 0
    BY <2>2 DEF Shape, Clean, Tidy
  <2>4. wp + 2 \in Int /\ wp + 2 >= 0
    BY <1>2, InvFacts
  <2>5. Target \in Int /\ Target >= 0
    BY <2>2, <2>3, <2>4 DEF Target
  <2> QED
    BY <1>2, <2>1, <2>5, GotoShape
<1> QED
  BY <1>3, <1>4

LEMMA StutterShape ==
  ASSUME Inv, Shape, UNCHANGED vars
  PROVE  Shape'
<1>1. /\ prog' = prog /\ ip' = ip /\ mem' = mem /\ iscomp' = iscomp
      /\ wp' = wp /\ rstk' = rstk
  BY DEF vars
<1>2. Len(mem') + 1 = Here
  BY <1>1 DEF Here
<1> QED
  BY <1>1, <1>2, ShapeFollows DEF Shape

\* The text does not change.
LEMMA SystemKept ==
  ASSUME NEW w \in Primitives, NEW i, NEW back, System(w, i, back)
  PROVE  prog' = prog
<1>1. CASE w = "x"
  BY <1>1 DEF System, Act, Pass
<1>2. CASE w = "flag"
  <2>1. \E v \in {0, -1} : Leave(v, i, back)
    BY <1>2 DEF System, Act
  <2> QED
    BY <2>1 DEF Leave, Stop
<1>3. CASE w = "DROP"
  BY <1>3 DEF System, Act, Stop
<1>4. CASE w \in {"CREATE", "VARIABLE"}
  <2>1. Create(w, i, back)
    BY <1>4 DEF System
  <2> QED
    BY <2>1 DEF Create, Stop
<1>5. CASE w = "DOES>"
  <2>1. Does(i, back)
    BY <1>5 DEF System
  <2> QED
    BY <2>1 DEF Does, Pass, Stop
<1>6. CASE w = "[COMPILE]"
  <2>1. BCompile(i, back)
    BY <1>6 DEF System
  <2> QED
    BY <2>1 DEF BCompile, Stop
<1> QED
  BY <1>1, <1>2, <1>3, <1>4, <1>5, <1>6 DEF Primitives

LEMMA InvokeKept ==
  ASSUME NEW cfa, NEW i, NEW back, Invoke(cfa, i, back)
  PROVE  prog' = prog
BY DEF Invoke, Begun, Leave, Stop

LEMMA ProgKept ==
  ASSUME Inv, Next
  PROVE  prog' = prog
<1>1. CASE Colon
  BY <1>1 DEF Colon, Took, Stop
<1>2. CASE Semicolon
  BY <1>2 DEF Semicolon, Took, Stop
<1>3. CASE Mark
  BY <1>3 DEF Mark, Took, Stop
<1>4. CASE Bracket
  BY <1>4 DEF Bracket, Took
<1>5. CASE Word
  <2>1. \/ \E why : Stop(why)
        \/ Took(1)
        \/ Token \in Primitives /\ System(Token, ip + 1, Interp)
        \/ Invoke(words[Find(Token)].cfa, ip + 1, Interp)
    BY <1>5 DEF Word
  <2> QED
    BY <2>1, SystemKept, InvokeKept DEF Took, Stop
<1>6. CASE EndOfText \/ RunQuit \/ RunGarbage
  BY <1>6 DEF EndOfText, RunQuit, RunGarbage, Stop
<1>7. CASE If
  BY <1>7 DEF If, Took, Stop
<1>8. CASE Else
  BY <1>8 DEF Else, Took, Stop
<1>9. CASE Then
  BY <1>9 DEF Then, Took, Stop
<1>10. CASE Begin
  BY <1>10 DEF Begin, Took, Stop
<1>11. CASE Loop
  BY <1>11 DEF Loop, Took, Stop
<1>12. CASE While
  BY <1>12 DEF While, Took, Stop
<1>13. CASE Repeat
  BY <1>13 DEF Repeat, Took, Stop
<1>14. CASE RunSystem
  <2>1. At(Primitives) /\ System(mem[wp].op, ip, wp + 1)
    BY <1>14 DEF RunSystem
  <2>2. mem[wp].op \in Primitives
    BY <2>1, AtFacts DEF Primitives
  <2> QED
    BY <2>1, <2>2, SystemKept
<1>15. CASE RunCall
  BY <1>15, InvokeKept DEF RunCall
<1>16. CASE RunExit
  BY <1>16 DEF RunExit, Stop
<1>17. CASE RunTest
  BY <1>17 DEF RunTest, Goto, Stop
<1>18. CASE RunJump
  BY <1>18 DEF RunJump, Goto, Stop
<1> QED
  BY <1>1, <1>2, <1>3, <1>4, <1>5, <1>6, <1>7, <1>8, <1>9, <1>10, <1>11, <1>12, <1>13,
     <1>14, <1>15, <1>16, <1>17, <1>18 DEF Next

LEMMA NextShape ==
  ASSUME Inv, Inv', WellBuilt, Shape, Next
  PROVE  Shape'
<1>1. CASE Colon
  BY <1>1, ColonShape
<1>2. CASE Semicolon
  BY <1>2, SemicolonShape
<1>3. CASE Mark
  BY <1>3, MarkShape
<1>4. CASE Bracket
  BY <1>4, BracketShape
<1>5. CASE Word
  BY <1>5, WordShape
<1>6. CASE EndOfText \/ RunQuit \/ RunGarbage
  BY <1>6, StopShape DEF EndOfText, RunQuit, RunGarbage
<1>7. CASE If
  BY <1>7, IfShape
<1>8. CASE Else
  BY <1>8, ElseShape
<1>9. CASE Then
  BY <1>9, ThenShape
<1>10. CASE Begin
  BY <1>10, BeginShape
<1>11. CASE Loop
  BY <1>11, LoopShape
<1>12. CASE While
  BY <1>12, WhileShape
<1>13. CASE Repeat
  BY <1>13, RepeatShape
<1>14. CASE RunSystem
  BY <1>14, RunSystemShape
<1>15. CASE RunCall
  BY <1>15, RunCallShape
<1>16. CASE RunExit
  BY <1>16, RunExitShape
<1>17. CASE RunTest
  BY <1>17, RunTestShape
<1>18. CASE RunJump
  BY <1>18, RunJumpShape
<1> QED
  BY <1>1, <1>2, <1>3, <1>4, <1>5, <1>6, <1>7, <1>8, <1>9, <1>10, <1>11, <1>12, <1>13,
     <1>14, <1>15, <1>16, <1>17, <1>18 DEF Next

LEMMA InitMarks ==
  Init => Marks
<1> SUFFICES ASSUME Init PROVE Shape
  BY DEF Marks
<1>1. /\ ip = 1 /\ mem = <<>> /\ iscomp = FALSE /\ wp = Interp /\ rstk = <<-1, -2>>
      /\ prog \in Programs
  BY DEF Init, Frame, OuterExit, QuitAddr
<1>2. Source!Open(ip) = 0 /\ ~Source!Compiling(ip)
  <2>1. 1 \in Nat \ {0} /\ prog \in Programs
    BY <1>1
  <2>2. ~Source!Compiling(1)
    BY <2>1, CompilingSteps
  <2> QED
    BY <1>1, <2>2, OpenStart
<1>3. rstk \in Seq(Int) /\ Len(rstk) = 2 /\ rstk[1] = -1 /\ rstk[2] = -2
  BY <1>1
<1>4. Marked(rstk, 0, Here)
  <2>1. rstk[Len(rstk) - 0] = -2 /\ rstk[Len(rstk) - 1] = -1 /\ Len(rstk) >= 0 + 2
    BY <1>3
  <2>2. 2 .. 0 + 1 = {}
    OBVIOUS
  <2> QED
    BY <1>3, <2>1, <2>2 DEF Marked, OuterExit, QuitAddr
<1>5. Clean(mem)
  BY <1>1 DEF Clean
<1>6. Len(rstk) = 0 + 2
  BY <1>3
<1> QED
  BY <1>1, <1>2, <1>4, <1>5, <1>6 DEF Shape

LEMMA NextMarks ==
  Inv /\ Marks /\ [Next]_vars => Marks'
<1> SUFFICES ASSUME Inv, Marks, [Next]_vars, WellBuilt' PROVE Shape'
  BY DEF Marks
<1>1. Inv'
  BY NextInv
<1>2. prog' = prog
  BY ProgKept DEF vars
<1>3. WellBuilt
  BY <1>2, BuiltKept
<1>4. Shape
  BY <1>3 DEF Marks
<1>5. CASE Next
  BY <1>1, <1>3, <1>4, <1>5, NextShape
<1>6. CASE UNCHANGED vars
  BY <1>4, <1>6, StutterShape
<1> QED
  BY <1>5, <1>6

\* The two addresses of the interpreter at the bottom.
LEMMA BottomIs ==
  ASSUME NEW s \in Seq(Int), Len(s) >= 2, s[Len(s)] = QuitAddr, s[Len(s) - 1] = OuterExit
  PROVE  IsSuffix(Frame, s)
<1> DEFINE f == Reverse(Frame)
           r == Reverse(s)
<1>1. f \in Seq(Int) /\ Len(f) = 2 /\ f[1] = -2 /\ f[2] = -1
  BY DEF Reverse, Frame, OuterExit, QuitAddr
<1>2. r \in Seq(Int) /\ Len(r) = Len(s)
  BY DEF Reverse
<1>3. r[1] = -2 /\ r[2] = -1
  BY DEF Reverse, OuterExit, QuitAddr
<1> HIDE DEF f, r
<1>4. SubSeq(f, 1, 2) = SubSeq(r, 1, 2)
  BY <1>1, <1>2, <1>3
<1> QED
  BY <1>1, <1>2, <1>4 DEF IsSuffix, IsPrefix, f, r

LEMMA MarksMatch ==
  Inv /\ Marks => MarksMatchText
<1> SUFFICES ASSUME Inv, Marks, Source!WellFormed, wp = Interp
             PROVE  /\ Len(rstk) = 2 + Source!Open(ip)
                    /\ IsSuffix(Frame, rstk)
                    /\ \A k \in 1 .. Source!Open(ip) : rstk[k] \in 1 .. Here
  BY DEF MarksMatchText
<1> DEFINE o == Source!Open(ip)
<1>1. Shape
  BY WellFormedIsBuilt DEF Marks
<1>2. o \in Nat /\ rstk \in Seq(Int) /\ Len(rstk) \in Nat
  BY InvFacts, OpenIsNat
<1>3. Len(rstk) = o + 2 /\ Marked(rstk, o, Here)
  BY <1>1 DEF Shape
<1> HIDE DEF o
<1>4. IsSuffix(Frame, rstk)
  <2>1. Len(rstk) >= 2 /\ Len(rstk) - 0 = Len(rstk)
    BY <1>2, <1>3
  <2>2. rstk[Len(rstk) - 0] = QuitAddr /\ rstk[Len(rstk) - 1] = OuterExit
    BY <1>3 DEF Marked
  <2> QED
    BY <1>2, <2>1, <2>2, BottomIs
<1>5. ASSUME NEW k \in 1 .. o PROVE rstk[k] \in 1 .. Here
  <2> DEFINE j == Len(rstk) - k
  <2>1. j \in 2 .. o + 1 /\ Len(rstk) - j = k
    BY <1>2, <1>3
  <2> HIDE DEF j
  <2>2. rstk[Len(rstk) - j] \in 1 .. Here
    BY <1>3, <2>1 DEF Marked
  <2> QED
    BY <2>1, <2>2
<1>6. Len(rstk) = 2 + o
  BY <1>2, <1>3
<1> QED
  BY <1>4, <1>5, <1>6 DEF o

(***************************************************************************)
(* For every set of texts and every size of the stacks: whenever the       *)
(* interpreter reads a token of a well-formed text, the return stack holds *)
(* its two return addresses and above them one mark, the address of a      *)
(* cell, for each structure open in the text, two for a loop with WHILE.   *)
(* ELSE, THEN, AGAIN, UNTIL and REPEAT rely on that: nothing tells a mark  *)
(* from a return address (fvm_asm.nasm:3423-3679).                         *)
(***************************************************************************)
THEOREM MarksTheorem == Spec => []MarksMatchText
<1>1. Init => Inv /\ Marks
  BY InitInv, InitMarks
<1>2. Inv /\ Marks /\ [Next]_vars => (Inv /\ Marks)'
  BY NextInv, NextMarks
<1>3. Spec => [](Inv /\ Marks)
  BY <1>1, <1>2, PTL DEF Spec
<1> QED
  BY <1>3, MarksMatch, PTL

-----------------------------------------------------------------------------
(* The open structures one by one: which were open where one of them began. *)

\* The tokens that have left marks.
Marking(p) == Source!OpenAt(p) \union Source!Whiles(p)

\* Where an open structure begins those around it are open.
LEMMA OpenBefore ==
  ASSUME NEW p \in Nat \ {0}, NEW o \in Source!OpenAt(p)
  PROVE  Source!OpenAt(o) = {i \in Source!OpenAt(p) : i < o}
<1>1. o \in 1 .. p - 1 /\ \A h \in o .. p - 1 : Depth(o, h) > 0
  BY OpenAtFacts
<1>2. o \in Nat \ {0}
  BY <1>1
<1>3. ASSUME NEW i \in Source!OpenAt(o) PROVE i \in Source!OpenAt(p) /\ i < o
  <2>1. /\ i \in 1 .. o - 1 /\ Source!Is(i, Source!Openers)
        /\ \A h \in i .. o - 1 : Depth(i, h) \in Nat \ {0}
    BY <1>2, OpenAtFacts
  <2>2. ASSUME NEW h \in i .. p - 1 PROVE Depth(i, h) > 0
    <3>1. CASE h <= o - 1
      <4>1. h \in i .. o - 1
        BY <1>1, <2>1, <3>1
      <4> QED
        BY <2>1, <4>1
    <3>2. CASE h >= o
      <4>1. h \in o .. p - 1 /\ o - 1 \in i .. o - 1 /\ i \in Int /\ o \in Int /\ h \in Int
            /\ i <= o /\ o <= h + 1
        BY <1>1, <2>1, <3>2
      <4>2. Depth(i, h) = Depth(i, o - 1) + Depth(o, h)
        BY <4>1, DepthParts
      <4>3. Depth(i, o - 1) \in Nat \ {0} /\ Depth(o, h) \in Nat \ {0}
        BY <2>1, <4>1, OpenAtFacts
      <4> QED
        BY <4>2, <4>3
    <3> QED
      BY <1>1, <2>1, <3>1, <3>2
  <2>3. i \in 1 .. p - 1 /\ i < o
    BY <1>1, <2>1
  <2>4. i \in {j \in 1 .. p - 1 : /\ Source!Is(j, Source!Openers)
                                  /\ \A h \in j .. p - 1 : Depth(j, h) > 0}
    BY <2>1, <2>2, <2>3
  <2> QED
    BY <2>3, <2>4, OpenAtIs
<1>4. ASSUME NEW i \in Source!OpenAt(p), i < o PROVE i \in Source!OpenAt(o)
  <2>1. /\ i \in 1 .. p - 1 /\ Source!Is(i, Source!Openers)
        /\ \A h \in i .. p - 1 : Depth(i, h) \in Nat \ {0}
    BY OpenAtFacts
  <2>2. i \in 1 .. o - 1 /\ \A h \in i .. o - 1 : h \in i .. p - 1
    BY <1>1, <1>4, <2>1
  <2>3. i \in {j \in 1 .. o - 1 : /\ Source!Is(j, Source!Openers)
                                  /\ \A h \in j .. o - 1 : Depth(j, h) > 0}
    BY <2>1, <2>2
  <2> QED
    BY <2>3, OpenAtIs
<1> QED
  BY <1>3, <1>4

\* What is known of a WHILE whose structure is open.
LEMMA WhilesFacts ==
  ASSUME WellBuilt, prog \in Programs, NEW p \in Nat \ {0}, NEW w \in Source!Whiles(p)
  PROVE  /\ w \in 1 .. p - 1 /\ Source!Is(w, {"WHILE"}) /\ w \in Source!Pos
         /\ Source!OpenerOf(w) \in Source!OpenAt(p) /\ Source!OpenerOf(w) \in Source!OpenAt(w)
         /\ Source!OpenerOf(w) \in 1 .. w - 1
         /\ \A g \in Source!OpenAt(w) : g <= Source!OpenerOf(w)
<1>1. w \in 1 .. p - 1 /\ Source!Is(w, {"WHILE"}) /\ Source!OpenerOf(w) \in Source!OpenAt(p)
  BY DEF Source!Whiles
<1>2. w \in Source!Pos /\ Source!Is(w, Source!Closers \union {"ELSE", "WHILE"})
  BY <1>1 DEF Source!Is
<1> QED
  BY <1>1, <1>2, OpenerFacts

\* The same for a WHILE.
LEMMA OpenBeforeWhile ==
  ASSUME WellBuilt, prog \in Programs, NEW p \in Nat \ {0}, NEW w \in Source!Whiles(p)
  PROVE  Source!OpenAt(w) = {i \in Source!OpenAt(p) : i < w}
<1> DEFINE o == Source!OpenerOf(w)
<1>1. /\ w \in 1 .. p - 1 /\ o \in Source!OpenAt(p) /\ o \in Source!OpenAt(w) /\ o \in 1 .. w - 1
      /\ \A g \in Source!OpenAt(w) : g <= o
  BY WhilesFacts
<1> HIDE DEF o
<1>2. w \in Nat \ {0} /\ o \in Nat \ {0} /\ o < w
  BY <1>1
<1>3. ASSUME NEW i \in Source!OpenAt(w) PROVE i \in Source!OpenAt(p) /\ i < w
  <2>1. i \in 1 .. w - 1 /\ i <= o
    BY <1>1, <1>2, OpenAtFacts
  <2>2. CASE i = o
    BY <1>1, <1>2, <2>2
  <2>3. CASE i # o
    <3>1. i < o
      BY <1>2, <2>1, <2>3
    <3>2. i \in Source!OpenAt(o)
      BY <1>1, <1>2, <3>1, OpenBefore
    <3> QED
      BY <1>1, <1>2, <2>1, <3>2, OpenBefore
  <2> QED
    BY <2>2, <2>3
<1>4. ASSUME NEW i \in Source!OpenAt(p), i < w PROVE i \in Source!OpenAt(w)
  <2>1. /\ i \in 1 .. p - 1 /\ Source!Is(i, Source!Openers)
        /\ \A h \in i .. p - 1 : Depth(i, h) \in Nat \ {0}
    BY OpenAtFacts
  <2>2. i \in 1 .. w - 1 /\ \A h \in i .. w - 1 : h \in i .. p - 1
    BY <1>1, <1>4, <2>1
  <2>3. i \in {j \in 1 .. w - 1 : /\ Source!Is(j, Source!Openers)
                                  /\ \A h \in j .. w - 1 : Depth(j, h) > 0}
    BY <2>1, <2>2
  <2> QED
    BY <2>3, OpenAtIs
<1> QED
  BY <1>3, <1>4

\* Where a token left its mark those with marks below were open.
LEMMA MarkingBefore ==
  ASSUME WellBuilt, prog \in Programs, NEW p \in Nat \ {0}, NEW t \in Marking(p)
  PROVE  /\ t \in 1 .. p - 1 /\ t \in Nat \ {0}
         /\ Source!OpenAt(t) = {i \in Source!OpenAt(p) : i < t}
         /\ Source!Whiles(t) = {w \in Source!Whiles(p) : w < t}
<1>1. t \in 1 .. p - 1 /\ Source!OpenAt(t) = {i \in Source!OpenAt(p) : i < t}
  <2>1. CASE t \in Source!OpenAt(p)
    BY <2>1, OpenAtFacts, OpenBefore
  <2>2. CASE t \in Source!Whiles(p)
    BY <2>2, WhilesFacts, OpenBeforeWhile
  <2> QED
    BY <2>1, <2>2 DEF Marking
<1>2. t \in Nat \ {0}
  BY <1>1
<1>3. ASSUME NEW w \in Source!Whiles(t) PROVE w \in Source!Whiles(p) /\ w < t
  <2>1. w \in 1 .. t - 1 /\ Source!Is(w, {"WHILE"}) /\ Source!OpenerOf(w) \in Source!OpenAt(p)
    BY <1>1 DEF Source!Whiles
  <2>2. w \in 1 .. p - 1 /\ w < t
    BY <1>1, <2>1
  <2> QED
    BY <2>1, <2>2 DEF Source!Whiles
<1>4. ASSUME NEW w \in Source!Whiles(p), w < t PROVE w \in Source!Whiles(t)
  <2>1. /\ w \in 1 .. p - 1 /\ Source!Is(w, {"WHILE"}) /\ Source!OpenerOf(w) \in Source!OpenAt(p)
        /\ Source!OpenerOf(w) \in 1 .. w - 1
    BY WhilesFacts
  <2>2. Source!OpenerOf(w) < t /\ w \in 1 .. t - 1
    BY <1>1, <1>4, <2>1
  <2> QED
    BY <1>1, <2>1, <2>2 DEF Source!Whiles
<1> QED
  BY <1>1, <1>2, <1>3, <1>4

\* The later of two left the higher mark.
LEMMA MarkingOrder ==
  ASSUME WellBuilt, prog \in Programs, NEW p \in Nat \ {0}, NEW t \in Marking(p)
  PROVE  Source!Open(t) \in Nat /\ Source!Open(p) \in Nat /\ Source!Open(t) < Source!Open(p)
<1> DEFINE A == Source!OpenAt(p)
           W == Source!Whiles(p)
           B == Source!OpenAt(t)
           V == Source!Whiles(t)
<1>1. /\ t \in Nat \ {0} /\ B = {i \in A : i < t} /\ V = {w \in W : w < t} /\ t \in A \union W
  BY MarkingBefore DEF Marking
<1>2. /\ IsFiniteSet(A) /\ IsFiniteSet(W) /\ Source!Open(p) = Cardinality(A) + Cardinality(W)
      /\ Cardinality(A) \in Nat /\ Cardinality(W) \in Nat
  BY OpenSets
<1>3. /\ Source!Open(t) = Cardinality(B) + Cardinality(V)
      /\ Cardinality(B) \in Nat /\ Cardinality(V) \in Nat
  BY <1>1, OpenSets
<1>4. t \notin B /\ t \notin V /\ B \in SUBSET A /\ V \in SUBSET W
  BY <1>1
<1> HIDE DEF A, W, B, V
<1>5. Cardinality(B) <= Cardinality(A) /\ (Cardinality(A) = Cardinality(B) => A = B)
  BY <1>2, <1>4, FS_Subset
<1>6. Cardinality(V) <= Cardinality(W) /\ (Cardinality(W) = Cardinality(V) => W = V)
  BY <1>2, <1>4, FS_Subset
<1>7. A # B \/ W # V
  BY <1>1, <1>4
<1> QED
  BY <1>2, <1>3, <1>5, <1>6, <1>7

\* Of two that left marks, the earlier one left the lower.
LEMMA MarkingLower ==
  ASSUME WellBuilt, prog \in Programs, NEW p \in Nat \ {0}, NEW t \in Marking(p),
         NEW s \in Marking(p), s < t
  PROVE  s \in Marking(t) /\ Source!Open(s) < Source!Open(t)
<1>1. t \in Nat \ {0} /\ s \in Marking(t)
  BY MarkingBefore DEF Marking
<1> QED
  BY <1>1, MarkingOrder

\* A closing token takes what its structure has left, and nothing else.
LEMMA Closes ==
  ASSUME WellBuilt, prog \in Programs, NEW i \in Source!Pos, Source!Is(i, Source!Closers),
         NEW m, m = Source!OpenerOf(i)
  PROVE  /\ m \in Source!OpenAt(i) /\ m \in Nat \ {0}
         /\ Source!OpenAt(i + 1) = Source!OpenAt(m) /\ Source!Whiles(i + 1) = Source!Whiles(m)
         /\ Marking(i + 1) = {t \in Marking(i) : t < m}
<1>0. i \in Nat \ {0}
  BY PosFacts
<1>1. /\ Source!OpenAt(i) # {} /\ m \in Source!OpenAt(i) /\ m \in 1 .. i - 1
      /\ \A g \in Source!OpenAt(i) : g <= m
  <2>1. Source!Is(i, Source!Closers \union {"ELSE", "WHILE"})
    BY DEF Source!Is
  <2> QED
    BY <2>1, OpenerFacts
<1>2. m \in Nat \ {0} /\ m \in Marking(i)
  BY <1>1 DEF Marking
<1>3. /\ Source!OpenAt(m) = {g \in Source!OpenAt(i) : g < m}
      /\ Source!Whiles(m) = {w \in Source!Whiles(i) : w < m}
  BY <1>0, <1>2, MarkingBefore
<1>4. Source!OpenAt(i + 1) = Source!OpenAt(m)
  <2>1. Source!OpenAt(i + 1) = Source!OpenAt(i) \ {m}
    BY <1>0, <1>1, OpenAtCloser
  <2>2. ASSUME NEW g \in Source!OpenAt(i) PROVE g # m <=> g < m
    <3>1. g \in Nat /\ g <= m
      BY <1>0, <1>1, OpenAtFacts
    <3> QED
      BY <1>2, <3>1
  <2> QED
    BY <1>3, <2>1, <2>2
<1>5. ASSUME NEW w \in Source!Whiles(i + 1) PROVE w \in Source!Whiles(m)
  <2>0. (i + 1) - 1 = i /\ i + 1 \in Nat \ {0}
    BY <1>0
  <2>1. /\ w \in 1 .. i /\ Source!Is(w, {"WHILE"}) /\ Source!OpenerOf(w) \in Source!OpenAt(i + 1)
        /\ Source!OpenerOf(w) \in 1 .. w - 1 /\ \A g \in Source!OpenAt(w) : g <= Source!OpenerOf(w)
    BY <2>0, WhilesFacts
  <2>2. w # i
    BY <2>1 DEF Source!Is, Source!Closers
  <2>3. Source!OpenerOf(w) \in Source!OpenAt(i) /\ Source!OpenerOf(w) < m
    BY <1>3, <1>4, <2>1
  <2>4. w \in 1 .. i - 1
    BY <1>0, <2>1, <2>2
  <2>5. w \in Source!Whiles(i)
    BY <2>1, <2>3, <2>4 DEF Source!Whiles
  <2>6. w < m
    <3>1. ASSUME m < w PROVE FALSE
      <4>1. m \in Source!OpenAt(w)
        BY <1>0, <1>1, <2>5, <3>1, OpenBeforeWhile
      <4>2. m <= Source!OpenerOf(w)
        BY <2>1, <4>1
      <4>3. Source!OpenerOf(w) \in Nat
        BY <2>1
      <4> QED
        BY <1>2, <2>3, <4>2, <4>3
    <3>2. m # w
      BY <1>1, <1>0, <2>1, OpenAtFacts DEF Source!Is, Source!Openers
    <3>3. w \in Nat
      BY <2>1
    <3> QED
      BY <1>2, <3>1, <3>2, <3>3
  <2> QED
    BY <1>3, <2>5, <2>6
<1>6. ASSUME NEW w \in Source!Whiles(m) PROVE w \in Source!Whiles(i + 1)
  <2>1. /\ w \in 1 .. m - 1 /\ Source!Is(w, {"WHILE"}) /\ Source!OpenerOf(w) \in Source!OpenAt(m)
    BY DEF Source!Whiles
  <2>2. w \in 1 .. (i + 1) - 1
    BY <1>0, <1>1, <2>1
  <2> QED
    BY <1>4, <2>1, <2>2 DEF Source!Whiles
<1> QED
  BY <1>1, <1>2, <1>3, <1>4, <1>5, <1>6 DEF Marking

\* What a well-formed text says about the places of definitions, beside WellBuilt.
Laid ==
  /\ WellBuilt
  /\ \A k \in Source!Pos : Source!IsDef(k) =>
       \A j \in k + 1 .. Source!Min(Source!Ends(k)) : prog[j] # ":"
  /\ Source!Makes => \A i \in Source!Pos : ~Source!Is(i, {"[", "IMMEDIATE"})

LEMMA WellFormedIsLaid == Source!WellFormed => Laid
BY WellFormedIsBuilt DEF Source!WellFormed, Laid

\* Behind the : of a definition structures are opened before they are closed.
LEMMA DepthsAreNat ==
  ASSUME prog \in Programs, NEW k \in Nat, NEW e \in Nat, k <= e, Source!Balanced(k, e),
         Source!Is(k, {":"}), NEW h \in Int, h \in k .. e
  PROVE  Depth(k, h) >= 0
<1> DEFINE T == {j \in k .. e : Depth(k, j) < 0}
<1> SUFFICES ASSUME T # {} PROVE FALSE
  <2>1. Depth(k, h) \in Int
    <3>1. k \in Int /\ h \in Int /\ k <= h + 1
      OBVIOUS
    <3> QED
      BY <3>1, DepthFacts
  <2> QED
    BY <2>1
<1>1. PICK p \in T : \A q \in T : p <= q
  <2>1. T \subseteq Nat
    OBVIOUS
  <2> HIDE DEF T
  <2> QED
    BY <2>1, LeastExists
<1>2. p \in k .. e /\ Depth(k, p) < 0 /\ p \in Nat
  OBVIOUS
<1>3. Depth(k, k - 1) = 0
  <2> DEFINE g == k - 1
  <2>1. g \in Int /\ k <= g + 1 /\ k = g + 1 /\ k \in Int
    OBVIOUS
  <2> HIDE DEF g
  <2> QED
    BY <2>1, DepthFacts DEF g
<1> DEFINE g == p - 1
<1>4. g \in Int /\ p = g + 1 /\ k <= g + 1 /\ k \in Int /\ p \in Int
  BY <1>2
<1>5. ASSUME NEW j \in k .. e, j < p PROVE Depth(k, j) >= 0
  <2>1. j \notin T
    BY <1>1, <1>2, <1>5
  <2>2. Depth(k, j) \in Int
    <3>1. k \in Int /\ j \in Int /\ k <= j + 1
      OBVIOUS
    <3> QED
      BY <3>1, DepthFacts
  <2> QED
    BY <2>1, <2>2
<1>6. Depth(k, g) >= 0 /\ Depth(k, g) \in Int
  <2>1. Depth(k, g) \in Int
    BY <1>4, DepthFacts
  <2>2. CASE p = k
    BY <1>3, <2>1, <2>2
  <2>3. CASE p # k
    <3>1. g \in k .. e /\ g < p
      BY <1>2, <2>3
    <3> HIDE DEF g, T
    <3> QED
      BY <1>5, <2>1, <3>1
  <2> QED
    BY <2>2, <2>3
<1> HIDE DEF g, T
<1>16. /\ Source!Is(g + 1, Source!Openers) => Depth(k, g + 1) = Depth(k, g) + 1
       /\ Source!Is(g + 1, Source!Closers) => Depth(k, g + 1) = Depth(k, g) - 1
       /\ ~Source!Is(g + 1, Source!Openers) /\ ~Source!Is(g + 1, Source!Closers) =>
            Depth(k, g + 1) = Depth(k, g)
  BY <1>4, DepthFacts
<1>7. Source!Is(p, Source!Closers) /\ Depth(k, p) = Depth(k, g) - 1
  BY <1>2, <1>4, <1>6, <1>16
<1>8. Source!OpenAt(p) \ (1 .. k) # {}
  <2>1. Source!Is(p, Source!Closers \union {"ELSE", "WHILE"})
    BY <1>7 DEF Source!Is
  <2> QED
    BY <1>2, <2>1 DEF Source!Balanced
<1>9. PICK o \in Source!OpenAt(p) : o \notin 1 .. k
  BY <1>8
<1>10. p # 0
  <2>1. p \in Source!Pos
    BY <1>7 DEF Source!Is
  <2> QED
    BY <2>1, PosFacts
<1>11. o \in 1 .. p - 1 /\ \A j \in o .. p - 1 : Depth(o, j) \in Nat \ {0}
  <2>1. p \in Nat \ {0}
    BY <1>2, <1>10
  <2> QED
    BY <2>1, OpenAtFacts
<1>12. k < o /\ o <= g /\ o \in Int
  BY <1>2, <1>4, <1>9, <1>11
<1>13. Depth(o, g) \in Nat \ {0}
  <2>1. g \in o .. p - 1
    BY <1>2, <1>4, <1>12
  <2> QED
    BY <1>11, <2>1
<1>14. Depth(k, g) = Depth(k, o - 1) + Depth(o, g) /\ Depth(k, o - 1) \in Int
  BY <1>4, <1>12, DepthParts
<1>15. Depth(k, o - 1) >= 0
  <2>1. o - 1 \in k .. e /\ o - 1 < p
    BY <1>2, <1>4, <1>12
  <2> QED
    BY <1>5, <2>1
<1> QED
  BY <1>2, <1>6, <1>7, <1>13, <1>14, <1>15

\* At its end the structures of a definition are closed.
LEMMA DefinitionCloses ==
  ASSUME prog \in Programs, NEW k \in Nat, NEW e \in Nat, k <= e, Source!Balanced(k, e),
         Source!Is(k, {":"}), NEW i \in Int, i \in k + 1 .. e
  PROVE  Depth(i, e) <= 0 /\ Depth(i, e) \in Int
<1>1. Depth(k, e) = 0
  <2>1. Source!Count(Source!Openers, k, e) = Source!Count(Source!Closers, k, e)
    BY DEF Source!Balanced
  <2>2. k \in Int /\ e \in Int /\ k <= e + 1
    OBVIOUS
  <2>3. Source!Count(Source!Openers, k, e) \in Nat /\ Source!Count(Source!Closers, k, e) \in Nat
    BY <2>2, CountFacts
  <2> QED
    BY <2>1, <2>3 DEF Depth
<1> DEFINE g == i - 1
<1>2. g \in Int /\ g \in k .. e /\ k <= i /\ i <= e + 1 /\ k \in Int /\ e \in Int
  OBVIOUS
<1>3. Depth(k, e) = Depth(k, g) + Depth(i, e) /\ Depth(k, g) \in Int /\ Depth(i, e) \in Int
  BY <1>2, DepthParts
<1>4. Depth(k, g) >= 0
  <2> HIDE DEF g
  <2> QED
    BY <1>2, DepthsAreNat
<1> QED
  BY <1>1, <1>3, <1>4

\* So the token that closes a structure exists, and nothing closes it earlier.
LEMMA CloserExists ==
  ASSUME prog \in Programs, NEW k \in Nat, NEW e \in Nat, k <= e, Source!Balanced(k, e),
         Source!Is(k, {":"}), NEW i \in Int, i \in k + 1 .. e, Source!Is(i, Source!Openers)
  PROVE  /\ Source!CloserOf(i) \in i + 1 .. e /\ Source!Is(Source!CloserOf(i), Source!Closers)
         /\ Depth(i, Source!CloserOf(i)) = 0
         /\ \A h \in i .. Source!CloserOf(i) - 1 : Depth(i, h) > 0
<1>0. i \in Int /\ i \in Source!Pos /\ i > 0
  <2>1. i \in Source!Pos
    BY DEF Source!Is
  <2> QED
    BY <2>1, PosFacts
<1>1. ASSUME NEW h \in Int, h >= i - 1 PROVE Depth(i, h) \in Int
  BY <1>1, DepthFacts
<1> DEFINE T == {j \in i .. e : Depth(i, j) <= 0}
<1>2. e \in T
  <2>1. Depth(i, e) <= 0
    BY DefinitionCloses
  <2> QED
    BY <2>1
<1>3. PICK p \in T : \A q \in T : p <= q
  <2>1. T \subseteq Nat
    BY <1>0
  <2> HIDE DEF T
  <2> QED
    BY <1>2, <2>1, LeastExists
<1>4. p \in i .. e /\ Depth(i, p) <= 0 /\ p \in Int
  OBVIOUS
<1>5. ASSUME NEW h \in i .. e, h < p PROVE Depth(i, h) > 0
  <2>1. h \notin T
    BY <1>3, <1>4, <1>5
  <2>2. Depth(i, h) \in Int
    BY <1>1
  <2> QED
    BY <2>1, <2>2
<1>6. Depth(i, i) = 1
  <2> DEFINE g == i - 1
  <2>1. g \in Int /\ i = g + 1 /\ i <= g + 1
    OBVIOUS
  <2> HIDE DEF g
  <2>2. Depth(i, g) = 0 /\ Depth(i, g + 1) = Depth(i, g) + 1
    BY <2>1, DepthFacts
  <2> QED
    BY <2>1, <2>2
<1> HIDE DEF T
<1>7. p # i
  BY <1>4, <1>6
<1> DEFINE g == p - 1
<1>8. g \in Int /\ p = g + 1 /\ i <= g + 1 /\ g \in i .. e /\ g < p
  BY <1>0, <1>4, <1>7
<1>9. Depth(i, g) > 0 /\ Depth(i, g) \in Int
  <2> HIDE DEF g
  <2> QED
    BY <1>1, <1>5, <1>8
<1> HIDE DEF g
<1>10. /\ Source!Is(g + 1, Source!Openers) => Depth(i, g + 1) = Depth(i, g) + 1
       /\ Source!Is(g + 1, Source!Closers) => Depth(i, g + 1) = Depth(i, g) - 1
       /\ ~Source!Is(g + 1, Source!Openers) /\ ~Source!Is(g + 1, Source!Closers) =>
            Depth(i, g + 1) = Depth(i, g)
  BY <1>8, DepthFacts
<1>11. Source!Is(p, Source!Closers) /\ Depth(i, p) = 0
  BY <1>4, <1>8, <1>9, <1>10
<1> DEFINE C == {j \in Source!Pos : /\ j > i /\ prog[j] \in Source!Closers
                                    /\ Source!Count(Source!Openers, i, j) =
                                         Source!Count(Source!Closers, i, j)}
<1>12. ASSUME NEW j \in Source!Pos, j > i
       PROVE  Source!Count(Source!Openers, i, j) = Source!Count(Source!Closers, i, j)
                <=> Depth(i, j) = 0
  <2>1. i \in Int /\ j \in Int /\ i <= j + 1
    BY <1>0, <1>12, PosFacts
  <2>2. \A S : Source!Count(S, i, j) \in Nat
    BY <2>1, CountFacts
  <2> QED
    BY <2>2 DEF Depth
<1>13. p \in C
  <2>1. p \in Source!Pos /\ p > i /\ prog[p] \in Source!Closers
    BY <1>0, <1>4, <1>7, <1>11 DEF Source!Is
  <2> QED
    BY <1>11, <1>12, <2>1
<1>14. ASSUME NEW j \in C PROVE ~(j < p)
  <2>1. j \in Source!Pos /\ j > i /\ Depth(i, j) = 0 /\ j \in Nat
    BY <1>12, PosFacts
  <2>2. j < p => j \in i .. e
    BY <1>0, <1>4, <2>1
  <2> QED
    BY <1>5, <2>1, <2>2
<1>15. C \subseteq Nat
  BY PosFacts
<1>16. Source!CloserOf(i) = Source!Min(C)
  BY DEF Source!CloserOf
<1> HIDE DEF C
<1> DEFINE x == Source!Min(C)
<1>17. x \in C /\ \A y \in C : x <= y
  BY <1>13, <1>15, MinFacts
<1> HIDE DEF x
<1>18. x = p
  <2>1. x \in Nat /\ p \in Nat /\ x <= p /\ ~(x < p)
    BY <1>13, <1>14, <1>15, <1>17
  <2> QED
    BY <2>1
<1>19. Source!CloserOf(i) = p
  BY <1>16, <1>18 DEF x
<1>20. p \in i + 1 .. e /\ \A h \in i .. p - 1 : h \in i .. e /\ h < p
  BY <1>0, <1>4, <1>7
<1> QED
  BY <1>5, <1>11, <1>19, <1>20

Ender(j) == Source!Is(j, {";"})

LEMMA EnderIs ==
  /\ \A j \in Source!Pos : Ender(j) <=> prog[j] = ";"
  /\ \A j : Ender(j) => j \in Source!Pos
  /\ \A j, S : Ender(j) /\ Source!Is(j, S) => ";" \in S
BY Zenon DEF Ender, Source!Is

LEMMA EnclosedIs ==
  ASSUME NEW p
  PROVE  Enclosed(p) <=>
           \E k \in 1 .. p - 1 : Source!Is(k, {":"}) /\ \A j \in k + 1 .. p - 1 : ~Ender(j)
BY Zenon DEF Enclosed, Ender

LEMMA EndsIs ==
  ASSUME NEW k
  PROVE  Source!Ends(k) = {j \in Source!Pos : j > k /\ Ender(j)}
<1>1. \A j \in Source!Pos : Ender(j) <=> prog[j] = ";"
  BY EnderIs, Zenon
<1>2. Source!Ends(k) = {j \in Source!Pos : j > k /\ prog[j] = ";"}
  BY Zenon DEF Source!Ends
<1> QED
  BY <1>1, <1>2, Zenon

\* A definition ends at the first ; behind it.
LEMMA DefinitionFacts ==
  ASSUME WellBuilt, prog \in Programs, NEW k \in Nat \ {0}, Source!Is(k, {":"}),
         NEW i \in Source!Pos, k < i, NEW e, e = Source!Min(Source!Ends(k))
  PROVE  /\ k \in Source!Pos /\ Source!IsDef(k) /\ Source!Balanced(k, e)
         /\ e \in Nat /\ e \in Source!Pos /\ k < e /\ Ender(e)
         /\ \A j \in k + 1 .. e - 1 : ~Ender(j)
<1>0. i \in Nat \ {0} /\ i \in 1 .. Len(prog) /\ Len(prog) \in Nat
  BY PosFacts
<1>4. k \in Source!Pos /\ Source!IsDef(k)
  <2>1. k \in 1 .. Len(prog) /\ k + 1 \in 1 .. Len(prog)
    BY <1>0
  <2> QED
    BY <2>1, PosFacts DEF Source!IsDef
<1> DEFINE E == Source!Ends(k)
<1>5. E # {} /\ Source!Balanced(k, e)
  BY <1>4 DEF WellBuilt
<1>6. E = {j \in Source!Pos : j > k /\ Ender(j)} /\ e = Source!Min(E)
  BY EndsIs
<1> HIDE DEF E
<1>7. E \subseteq Nat
  <2>1. Source!Pos = 1 .. Len(prog) /\ Len(prog) \in Nat
    BY PosFacts
  <2>2. Source!Pos \subseteq Nat
    BY <2>1
  <2> QED
    BY <1>6, <2>2
<1>8. e \in E /\ \A j \in E : e <= j
  BY <1>5, <1>6, <1>7, MinFacts
<1>9. e \in Source!Pos /\ e > k /\ Ender(e) /\ e \in Nat
  BY <1>6, <1>7, <1>8
<1>10. ASSUME NEW j \in k + 1 .. e - 1, Ender(j) PROVE FALSE
  <2>1. j > k /\ ~(e <= j)
    BY <1>9
  <2>2. j \in E
    <3>1. j \in Source!Pos
      BY <1>10, EnderIs, Zenon
    <3> QED
      BY <1>6, <1>10, <2>1, <3>1
  <2> QED
    BY <1>8, <2>1, <2>2
<1> QED
  BY <1>4, <1>5, <1>9, <1>10

\* A token of a structure lies between the : and the ; of its definition.
LEMMA StructureLies ==
  ASSUME WellBuilt, prog \in Programs, NEW i \in Source!Pos, Source!Is(i, Source!Structure)
  PROVE  \E k, e \in Nat : /\ k < i /\ i < e /\ k # 0 /\ Source!Is(k, {":"}) /\ Ender(e)
                           /\ Source!Balanced(k, e) /\ k <= e
                           /\ \A j \in k + 1 .. e - 1 : ~Ender(j)
<1>0. i \in Nat \ {0} /\ i \in 1 .. Len(prog) /\ Len(prog) \in Nat
  BY PosFacts
<1>1. Enclosed(i)
  <2>1. Source!Compiling(i)
    <3>1. Source!Is(i, Source!Structure \union {";"})
      BY DEF Source!Is
    <3> QED
      BY <3>1 DEF WellBuilt
  <2> QED
    BY <1>0, <2>1, InDefinition
<1>2. PICK k \in 1 .. i - 1 : Source!Is(k, {":"}) /\ \A j \in k + 1 .. i - 1 : ~Ender(j)
  BY <1>1, EnclosedIs
<1>3. k \in Nat \ {0} /\ k < i
  BY <1>0
<1> DEFINE e == Source!Min(Source!Ends(k))
<1>4. /\ Source!Balanced(k, e) /\ e \in Nat /\ k < e /\ Ender(e)
      /\ \A j \in k + 1 .. e - 1 : ~Ender(j)
  BY <1>2, <1>3, DefinitionFacts
<1> HIDE DEF e
<1>5. e \notin k + 1 .. i - 1
  BY <1>2, <1>4
<1>6. e # i
  <2>1. ";" \notin Source!Structure
    BY Zenon DEF Source!Structure, Source!Openers, Source!Closers
  <2> QED
    BY <1>4, <2>1, EnderIs, Zenon
<1>7. i < e /\ k <= e /\ k \in Nat /\ k # 0
  BY <1>0, <1>3, <1>4, <1>5, <1>6
<1> QED
  BY <1>2, <1>3, <1>4, <1>7

\* Outside of definitions no structure is open.
LEMMA OutsideNothing ==
  ASSUME WellBuilt, prog \in Programs, NEW p \in Nat \ {0}, ~Enclosed(p)
  PROVE  Source!OpenAt(p) = {} /\ Source!Whiles(p) = {} /\ Marking(p) = {}
<1>1. ASSUME NEW i \in Source!OpenAt(p) PROVE FALSE
  <2>1. /\ i \in 1 .. p - 1 /\ Source!Is(i, Source!Openers)
        /\ \A h \in i .. p - 1 : Depth(i, h) \in Nat \ {0}
    BY OpenAtFacts
  <2>2. i \in Source!Pos /\ Source!Is(i, Source!Structure)
    BY <2>1 DEF Source!Is, Source!Structure
  <2>3. PICK k, e \in Nat : /\ k < i /\ i < e /\ k # 0 /\ Source!Is(k, {":"}) /\ Ender(e)
                            /\ Source!Balanced(k, e) /\ k <= e
                            /\ \A j \in k + 1 .. e - 1 : ~Ender(j)
    BY <2>2, StructureLies
  <2> DEFINE c == Source!CloserOf(i)
  <2>4. c \in i + 1 .. e /\ Depth(i, c) = 0
    <3>1. i \in Int /\ i \in k + 1 .. e
      BY <2>1, <2>3
    <3> QED
      BY <2>1, <2>3, <3>1, CloserExists
  <2> HIDE DEF c
  <2>5. e <= p - 1
    <3>1. k \in 1 .. p - 1
      BY <2>1, <2>3
    <3>2. PICK j \in k + 1 .. p - 1 : Ender(j)
      BY <2>3, <3>1, EnclosedIs
    <3>3. j \notin k + 1 .. e - 1
      BY <2>3, <3>2
    <3> QED
      BY <2>3, <3>2, <3>3
  <2>6. c \in i .. p - 1
    BY <2>1, <2>4, <2>5
  <2> QED
    BY <2>1, <2>4, <2>6
<1>2. Source!OpenAt(p) = {}
  BY <1>1
<1>3. Source!Whiles(p) = {}
  BY <1>2, WhilesFacts
<1> QED
  BY <1>2, <1>3 DEF Marking

\* The token that closes a structure is of the kind of the one that opened it.
LEMMA ClosesKind ==
  ASSUME WellBuilt, prog \in Programs, NEW i \in Source!Pos, Source!Is(i, Source!Closers),
         NEW m, m = Source!OpenerOf(i)
  PROVE  (prog[i] = "THEN") <=> (prog[m] # "BEGIN")
<1>1. Source!Is(i, Source!Closers \union {"ELSE", "WHILE"})
  BY DEF Source!Is
<1>2. i \in Nat \ {0} /\ m \in Source!OpenAt(i) /\ m \in 1 .. i - 1
  BY <1>1, OpenerFacts
<1>3. PICK k, e \in Nat : k < m /\ i < e /\ e \in Source!Pos /\ Source!Balanced(k, e)
  BY <1>1, OpenerFacts
<1>4. m \in k .. e /\ Source!Is(m, Source!Openers)
  <2>1. m \in k .. e
    BY <1>2, <1>3
  <2> QED
    BY <1>2, <2>1, OpenAtFacts
<1>5. Source!CloserOf(m) = i
  BY CloserFits
<1> DEFINE mids == {prog[j] : j \in Source!Middles(m)}
<1>6. CASE prog[m] # "BEGIN"
  <2>1. Source!Is(Source!CloserOf(m), {"THEN"})
    BY <1>3, <1>4, <1>6 DEF Source!Balanced
  <2> QED
    BY <1>5, <1>6, <2>1 DEF Source!Is
<1>7. CASE prog[m] = "BEGIN" /\ mids = {}
  <2>1. Source!Is(Source!CloserOf(m), {"AGAIN", "UNTIL"})
    BY <1>3, <1>4, <1>7 DEF Source!Balanced
  <2> QED
    BY <1>5, <1>7, <2>1 DEF Source!Is
<1>8. CASE prog[m] = "BEGIN" /\ mids # {}
  <2>1. Source!Is(Source!CloserOf(m), {"REPEAT"})
    BY <1>3, <1>4, <1>8 DEF Source!Balanced
  <2> QED
    BY <1>5, <1>8, <2>1 DEF Source!Is
<1> QED
  BY <1>6, <1>7, <1>8

\* A structure that is open at one of its own tokens closes behind it.
LEMMA MiddleFacts ==
  ASSUME WellBuilt, prog \in Programs, NEW i \in Source!Pos, Source!Is(i, {"ELSE", "WHILE"}),
         NEW m, m = Source!OpenerOf(i)
  PROVE  /\ m \in Source!OpenAt(i) /\ m \in 1 .. i - 1 /\ i \in Nat \ {0}
         /\ \A g \in Source!OpenAt(i) : g <= m
         /\ Source!CloserOf(m) > i /\ i \in Source!Middles(m)
         /\ (prog[i] = "ELSE") <=> (prog[m] # "BEGIN")
<1>1. Source!Is(i, Source!Closers \union {"ELSE", "WHILE"}) /\ Source!Is(i, Source!Structure)
  BY DEF Source!Is, Source!Structure
<1>2. /\ i \in Nat \ {0} /\ m \in Source!OpenAt(i) /\ m \in 1 .. i - 1
      /\ \A g \in Source!OpenAt(i) : g <= m
  BY <1>1, OpenerFacts
<1>3. /\ Source!Is(m, Source!Openers) /\ \A h \in m .. i - 1 : Depth(m, h) \in Nat \ {0}
  BY <1>2, OpenAtFacts
<1>4. m \in Source!Pos /\ Source!Is(m, Source!Structure)
  BY <1>3 DEF Source!Is, Source!Structure
<1>5. PICK k, e \in Nat : /\ k < m /\ m < e /\ k # 0 /\ Source!Is(k, {":"}) /\ Ender(e)
                          /\ Source!Balanced(k, e) /\ k <= e
                          /\ \A j \in k + 1 .. e - 1 : ~Ender(j)
  BY <1>4, StructureLies
<1> DEFINE c == Source!CloserOf(m)
<1>6. c \in m + 1 .. e /\ Depth(m, c) = 0 /\ Source!Is(c, Source!Closers)
  <2>1. m \in Int /\ m \in k + 1 .. e
    BY <1>2, <1>5
  <2> QED
    BY <1>3, <1>5, <2>1, CloserExists
<1> HIDE DEF c
<1>7. c > i
  <2>1. c \notin m .. i - 1
    BY <1>3, <1>6
  <2>2. c # i
    BY <1>6 DEF Source!Is, Source!Closers
  <2> QED
    BY <1>2, <1>6, <2>1, <2>2
<1>8. i \in Source!Middles(m)
  <2>1. i \in m + 1 .. c
    BY <1>2, <1>6, <1>7
  <2> QED
    BY <2>1 DEF Source!Middles, c
<1> DEFINE mids == {prog[j] : j \in Source!Middles(m)}
<1>9. m \in k .. e /\ prog[i] \in mids /\ prog[i] \in {"ELSE", "WHILE"}
  BY <1>2, <1>5, <1>8 DEF Source!Is
<1>10. CASE prog[m] # "BEGIN"
  <2>1. mids \subseteq {"ELSE"}
    BY <1>3, <1>5, <1>9, <1>10 DEF Source!Balanced
  <2> QED
    BY <1>2, <1>7, <1>8, <1>9, <1>10, <2>1 DEF c
<1>11. CASE prog[m] = "BEGIN"
  <2>1. mids # {} /\ mids = {"WHILE"}
    BY <1>3, <1>5, <1>9, <1>11 DEF Source!Balanced
  <2> QED
    BY <1>2, <1>7, <1>8, <1>9, <1>11, <2>1 DEF c
<1> QED
  BY <1>10, <1>11

\* A token that leaves a mark.
LEMMA MarksOpen ==
  ASSUME WellBuilt, prog \in Programs, NEW i \in Source!Pos,
         Source!Is(i, Source!Openers \union {"WHILE"})
  PROVE  Marking(i + 1) = Marking(i) \union {i}
<1>0. i \in Nat \ {0} /\ (i + 1) - 1 = i
  BY PosFacts
<1> DEFINE A == Source!OpenAt(i)
           B == Source!OpenAt(i + 1)
           W == Source!Whiles(i)
           V == Source!Whiles(i + 1)
<1>1. V = {j \in 1 .. i : Source!Is(j, {"WHILE"}) /\ Source!OpenerOf(j) \in B}
  BY <1>0 DEF Source!Whiles
<1>2. W = {j \in 1 .. i - 1 : Source!Is(j, {"WHILE"}) /\ Source!OpenerOf(j) \in A}
  BY DEF Source!Whiles
<1>3. \A j : Source!Is(j, {"WHILE"}) => Source!OpenerOf(j) \in 1 .. j - 1
  BY WhileFacts
<1>4. CASE Source!Is(i, Source!Openers)
  <2>1. B = A \union {i} /\ ~Source!Is(i, {"WHILE"})
    BY <1>0, <1>4, OpenAtOpener DEF Source!Is, Source!Openers
  <2>2. V = W
    <3> HIDE DEF A, B, W, V
    <3>1. ASSUME NEW j \in V PROVE j \in W
      <4>1. j \in 1 .. i /\ Source!Is(j, {"WHILE"}) /\ j # i
        BY <1>1, <2>1
      <4>2. Source!OpenerOf(j) \in A \union {i} /\ Source!OpenerOf(j) \in 1 .. j - 1
        BY <1>1, <1>3, <2>1, <4>1
      <4>3. Source!OpenerOf(j) # i /\ j \in 1 .. i - 1
        BY <1>0, <4>1, <4>2
      <4> QED
        BY <1>2, <4>1, <4>2, <4>3
    <3>2. ASSUME NEW j \in W PROVE j \in V
      <4>1. j \in 1 .. i
        BY <1>0, <1>2
      <4> QED
        BY <1>1, <1>2, <2>1, <4>1
    <3> QED
      BY <3>1, <3>2
  <2> QED
    BY <2>1, <2>2 DEF Marking
<1>5. CASE Source!Is(i, {"WHILE"})
  <2>1. B = A
    <3>1. ~Source!Is(i, Source!Openers) /\ ~Source!Is(i, Source!Closers)
      BY <1>5 DEF Source!Is, Source!Openers, Source!Closers
    <3> QED
      BY <1>0, <3>1, OpenAtOther
  <2>2. Source!OpenerOf(i) \in A
    BY <1>5, WhileFacts
  <2>3. 1 .. i = (1 .. i - 1) \union {i}
    BY <1>0
  <2>4. V = W \union {i}
    <3> HIDE DEF A, B, W, V
    <3> QED
      BY <1>1, <1>2, <1>5, <2>1, <2>2, <2>3
  <2> QED
    BY <2>1, <2>4 DEF Marking
<1> QED
  BY <1>4, <1>5 DEF Source!Is

\* A token that leaves and takes none.
LEMMA MarksStand ==
  ASSUME NEW i \in Nat \ {0}, ~Source!Is(i, Source!Openers), ~Source!Is(i, Source!Closers),
         ~Source!Is(i, {"WHILE"})
  PROVE  Marking(i + 1) = Marking(i)
<1> DEFINE A == Source!OpenAt(i)
           B == Source!OpenAt(i + 1)
           W == Source!Whiles(i)
           V == Source!Whiles(i + 1)
<1>1. B = A
  BY OpenAtOther
<1>2. V = W
  <2>1. V = {j \in 1 .. (i + 1) - 1 : Source!Is(j, {"WHILE"}) /\ Source!OpenerOf(j) \in B}
    BY DEF Source!Whiles
  <2>2. W = {j \in 1 .. i - 1 : Source!Is(j, {"WHILE"}) /\ Source!OpenerOf(j) \in A}
    BY DEF Source!Whiles
  <2> HIDE DEF A, B, W, V
  <2>3. ASSUME NEW j \in 1 .. (i + 1) - 1, Source!Is(j, {"WHILE"}) PROVE j \in 1 .. i - 1
    BY <2>3
  <2>4. 1 .. i - 1 \subseteq 1 .. (i + 1) - 1
    OBVIOUS
  <2> QED
    BY <1>1, <2>1, <2>2, <2>3, <2>4
<1> QED
  BY <1>1, <1>2 DEF Marking

\* THEN, AGAIN and UNTIL take the last mark, which is that of their structure.
LEMMA MarksClose ==
  ASSUME WellBuilt, prog \in Programs, NEW i \in Source!Pos, Source!Is(i, Source!Closers),
         prog[i] # "REPEAT"
  PROVE  \E m \in Marking(i) : /\ Marking(i) = Marking(i + 1) \union {m}
                               /\ Source!Open(m) = Source!Open(i) - 1
                               /\ (prog[i] = "THEN") <=> (prog[m] # "BEGIN")
<1>0. i \in Nat \ {0} /\ i + 1 \in Nat \ {0}
  BY PosFacts
<1> DEFINE m == Source!OpenerOf(i)
<1>1. /\ m \in Source!OpenAt(i) /\ m \in Nat \ {0} /\ m \in Marking(i)
      /\ Source!OpenAt(i + 1) = Source!OpenAt(m) /\ Source!Whiles(i + 1) = Source!Whiles(m)
      /\ Marking(i + 1) = {t \in Marking(i) : t < m}
      /\ (prog[i] = "THEN") <=> (prog[m] # "BEGIN")
  BY Closes, ClosesKind DEF Marking
<1> HIDE DEF m
<1>2. Source!Open(m) = Source!Open(i + 1)
  BY <1>1 DEF Source!Open
<1>3. Source!Open(i) = Source!Open(i + 1) + 1 /\ Source!Open(i + 1) \in Nat
  BY <1>0, OpenTakes, OpenIsNat
<1>4. ASSUME NEW t \in Marking(i), t # m PROVE t < m
  <2>1. t \in Nat /\ m \in Nat
    BY <1>0, <1>1, MarkingBefore
  <2>2. CASE m < t
    <3>1. Source!Open(m) < Source!Open(t)
      BY <1>0, <1>1, <2>2, MarkingLower
    <3>2. Source!Open(t) \in Nat /\ Source!Open(t) < Source!Open(i)
      BY <1>0, MarkingOrder
    <3> QED
      BY <1>2, <1>3, <3>1, <3>2
  <2> QED
    BY <1>4, <2>1, <2>2
<1>5. Marking(i) = Marking(i + 1) \union {m}
  BY <1>1, <1>4
<1> QED
  BY <1>1, <1>2, <1>3, <1>5

\* REPEAT takes the last two, that of its WHILE and that of its BEGIN.
LEMMA MarksRepeat ==
  ASSUME WellBuilt, prog \in Programs, NEW i \in Source!Pos, Source!Is(i, {"REPEAT"})
  PROVE  \E m, w \in Marking(i) : /\ Marking(i) = Marking(i + 1) \union {m, w}
                                  /\ Source!Open(w) = Source!Open(i) - 1
                                  /\ Source!Open(m) = Source!Open(i) - 2
                                  /\ prog[m] = "BEGIN" /\ prog[w] # "BEGIN"
<1>0. i \in Nat \ {0} /\ i + 1 \in Nat \ {0}
  BY PosFacts
<1>9. Source!Is(i, Source!Closers) /\ prog[i] = "REPEAT"
  BY DEF Source!Is, Source!Closers
<1> DEFINE m == Source!OpenerOf(i)
<1>1. /\ m \in Source!OpenAt(i) /\ m \in Nat \ {0} /\ m \in Marking(i)
      /\ Source!OpenAt(i + 1) = Source!OpenAt(m) /\ Source!Whiles(i + 1) = Source!Whiles(m)
      /\ Marking(i + 1) = {t \in Marking(i) : t < m}
      /\ prog[m] = "BEGIN"
  BY <1>9, Closes, ClosesKind DEF Marking
<1>2. Source!CloserOf(m) = i /\ \E w : Source!Middles(m) = {w} /\ prog[w] = "WHILE"
  BY <1>9, CloserFits
<1> HIDE DEF m
<1>3. PICK w : Source!Middles(m) = {w} /\ prog[w] = "WHILE"
  BY <1>2
<1>4. w \in m + 1 .. i /\ Source!Is(w, {"WHILE"}) /\ Source!OpenerOf(w) = m
  BY <1>2, <1>3 DEF Source!Middles, Source!Is
<1>5. w \in Marking(i) /\ m < w
  <2>1. w # i
    BY <1>3, <1>9
  <2>2. w \in 1 .. i - 1 /\ m < w
    BY <1>0, <1>1, <1>4, <2>1
  <2> QED
    BY <1>1, <1>4, <2>2 DEF Marking, Source!Whiles
<1>6. Source!Open(m) = Source!Open(i + 1)
  BY <1>1 DEF Source!Open
<1>7. Source!Open(i) = Source!Open(i + 1) + 2 /\ Source!Open(i + 1) \in Nat
  BY <1>0, <1>9, OpenTakes, OpenIsNat
<1>8. ASSUME NEW t \in Marking(i), m < t PROVE Source!Open(t) = Source!Open(i) - 1
  <2>1. Source!Open(m) < Source!Open(t)
    BY <1>0, <1>1, <1>8, MarkingLower
  <2>2. Source!Open(t) \in Nat /\ Source!Open(t) < Source!Open(i)
    BY <1>0, MarkingOrder
  <2> QED
    BY <1>6, <1>7, <2>1, <2>2
<1>10. ASSUME NEW t \in Marking(i), t # m, t # w PROVE t < m
  <2>1. t \in Nat /\ m \in Nat /\ w \in Nat
    BY <1>0, <1>1, <1>5, MarkingBefore
  <2>2. CASE m < t
    <3>1. Source!Open(t) = Source!Open(i) - 1 /\ Source!Open(w) = Source!Open(i) - 1
      BY <1>5, <1>8, <2>2
    <3>2. t < w => Source!Open(t) < Source!Open(w)
      BY <1>0, <1>5, MarkingLower
    <3>3. w < t => Source!Open(w) < Source!Open(t)
      BY <1>0, <1>5, MarkingLower
    <3>4. Source!Open(i) \in Nat
      BY <1>0, OpenIsNat
    <3> QED
      BY <1>10, <2>1, <3>1, <3>2, <3>3, <3>4
  <2> QED
    BY <1>10, <2>1, <2>2
<1>11. Marking(i) = Marking(i + 1) \union {m, w}
  <2>1. m \in Nat /\ w \in Nat
    BY <1>0, <1>1, <1>5, MarkingBefore
  <2>2. Marking(i + 1) \union {m, w} \subseteq Marking(i)
    BY <1>1, <1>5
  <2> QED
    BY <1>1, <1>10, <2>2
<1>12. prog[w] # "BEGIN" /\ Source!Open(w) = Source!Open(i) - 1
       /\ Source!Open(m) = Source!Open(i) - 2
  BY <1>3, <1>5, <1>6, <1>7, <1>8
<1> QED
  BY <1>1, <1>5, <1>11, <1>12

\* ELSE keeps the marks, and the last one is that of its structure.
LEMMA MarksElse ==
  ASSUME WellBuilt, prog \in Programs, NEW i \in Source!Pos, Source!Is(i, {"ELSE"})
  PROVE  /\ Marking(i + 1) = Marking(i)
         /\ \E m \in Marking(i) : /\ Source!Open(m) = Source!Open(i) - 1 /\ prog[m] # "BEGIN"
                                  /\ \A t \in Marking(i) : t # m => Source!Open(t) < Source!Open(m)
<1>1. Marking(i + 1) = Marking(i)
  <2>1. i \in Nat \ {0}
    BY PosFacts
  <2>2. ~Source!Is(i, Source!Openers) /\ ~Source!Is(i, Source!Closers) /\ ~Source!Is(i, {"WHILE"})
    BY DEF Source!Is, Source!Openers, Source!Closers
  <2> QED
    BY <2>1, <2>2, MarksStand
<1> DEFINE m == Source!OpenerOf(i)
<1>2. /\ m \in Source!OpenAt(i) /\ m \in 1 .. i - 1 /\ i \in Nat \ {0}
      /\ \A g \in Source!OpenAt(i) : g <= m
      /\ prog[m] # "BEGIN"
  <2>1. prog[i] = "ELSE" /\ Source!Is(i, {"ELSE", "WHILE"})
    BY DEF Source!Is
  <2>2. /\ m \in Source!OpenAt(i) /\ m \in 1 .. i - 1 /\ i \in Nat \ {0}
        /\ \A g \in Source!OpenAt(i) : g <= m
        /\ (prog[i] = "ELSE") <=> (prog[m] # "BEGIN")
    BY <2>1, MiddleFacts
  <2> QED
    BY <2>1, <2>2
<1> HIDE DEF m
<1>3. m \in Marking(i) /\ m \in Nat \ {0}
  BY <1>2 DEF Marking
<1>4. /\ Source!OpenAt(m) = {g \in Source!OpenAt(i) : g < m}
      /\ Source!Whiles(m) = {w \in Source!Whiles(i) : w < m}
  BY <1>2, <1>3, MarkingBefore
<1>5. ASSUME NEW w \in Source!Whiles(i) PROVE w < m
  <2>1. /\ w \in 1 .. i - 1 /\ Source!Is(w, {"WHILE"}) /\ w \in Source!Pos
        /\ Source!OpenerOf(w) \in Source!OpenAt(i) /\ Source!OpenerOf(w) \in 1 .. w - 1
        /\ \A g \in Source!OpenAt(w) : g <= Source!OpenerOf(w)
    BY <1>2, WhilesFacts
  <2>2. w # m
    BY <1>2, <2>1, OpenAtFacts DEF Source!Is, Source!Openers
  <2>3. CASE m < w
    <3>1. m \in Source!OpenAt(w)
      BY <1>2, <2>3, OpenBeforeWhile
    <3>2. m <= Source!OpenerOf(w) /\ Source!OpenerOf(w) <= m /\ Source!OpenerOf(w) \in Nat
      BY <1>2, <2>1, <3>1
    <3>3. m = Source!OpenerOf(w)
      BY <1>3, <3>2
    <3>4. Source!Is(w, {"ELSE", "WHILE"}) /\ prog[w] # "ELSE"
      BY <2>1 DEF Source!Is
    <3>5. prog[m] = "BEGIN"
      BY <2>1, <3>3, <3>4, MiddleFacts
    <3> QED
      BY <1>2, <3>5
  <2> QED
    BY <1>3, <2>1, <2>2, <2>3
<1>6. ASSUME NEW g \in Source!OpenAt(i) PROVE g < m \/ g = m
  <2>1. g \in Nat /\ g <= m
    BY <1>2, OpenAtFacts
  <2> QED
    BY <1>3, <2>1
<1> DEFINE A == Source!OpenAt(i)
           B == Source!OpenAt(m)
<1>7. A = B \union {m} /\ m \notin B /\ Source!Whiles(m) = Source!Whiles(i)
  <2>1. A = B \union {m}
    BY <1>2, <1>4, <1>6
  <2>2. ~(m < m)
    BY <1>3
  <2>3. m \notin B
    BY <1>4, <2>2
  <2>4. Source!Whiles(m) = Source!Whiles(i)
    BY <1>4, <1>5
  <2> QED
    BY <2>1, <2>3, <2>4
<1>8. Source!Open(m) = Source!Open(i) - 1
  <2>1. /\ IsFiniteSet(B) /\ Source!Open(m) = Cardinality(B) + Cardinality(Source!Whiles(m))
        /\ Cardinality(B) \in Nat /\ Cardinality(Source!Whiles(m)) \in Nat
    BY <1>3, OpenSets
  <2>2. Source!Open(i) = Cardinality(A) + Cardinality(Source!Whiles(i))
    BY <1>2, OpenSets
  <2> HIDE DEF A, B
  <2>3. Cardinality(B \union {m}) = Cardinality(B) + 1
    BY <1>7, <2>1, FS_AddElement
  <2> QED
    BY <1>7, <2>1, <2>2, <2>3
<1>9. ASSUME NEW t \in Marking(i), t # m PROVE Source!Open(t) < Source!Open(m)
  <2>1. t < m
    BY <1>5, <1>6, <1>9 DEF Marking
  <2> QED
    BY <1>2, <1>3, <2>1, MarkingLower
<1> QED
  BY <1>1, <1>2, <1>3, <1>8, <1>9

\* Where definitions begin and end.
LEMMA EnclosedSteps ==
  ASSUME prog \in Programs, NEW i \in Nat \ {0}
  PROVE  /\ Source!Is(i, {":"}) => Enclosed(i + 1)
         /\ Ender(i) /\ ~Source!Is(i, {":"}) => ~Enclosed(i + 1)
         /\ ~Source!Is(i, {":"}) /\ ~Ender(i) => (Enclosed(i + 1) <=> Enclosed(i))
         /\ ~Enclosed(1)
<1>0. (i + 1) - 1 = i
  OBVIOUS
<1>1. Enclosed(i + 1) <=> \E k \in 1 .. i : Source!Is(k, {":"}) /\ \A j \in k + 1 .. i : ~Ender(j)
  BY <1>0, EnclosedIs
<1>2. Enclosed(i) <=>
        \E k \in 1 .. i - 1 : Source!Is(k, {":"}) /\ \A j \in k + 1 .. i - 1 : ~Ender(j)
  BY EnclosedIs
<1>3. Source!Is(i, {":"}) => Enclosed(i + 1)
  BY <1>1
<1>4. ASSUME Ender(i), ~Source!Is(i, {":"}), Enclosed(i + 1) PROVE FALSE
  <2>1. PICK k \in 1 .. i : Source!Is(k, {":"}) /\ \A j \in k + 1 .. i : ~Ender(j)
    BY <1>1, <1>4
  <2>2. k # i
    BY <1>4, <2>1
  <2>3. i \in k + 1 .. i
    BY <2>2
  <2> QED
    BY <1>4, <2>1, <2>3
<1>5. ASSUME ~Source!Is(i, {":"}), ~Ender(i) PROVE Enclosed(i + 1) <=> Enclosed(i)
  <2>1. ASSUME NEW k \in 1 .. i, Source!Is(k, {":"}), \A j \in k + 1 .. i : ~Ender(j)
        PROVE  k \in 1 .. i - 1 /\ \A j \in k + 1 .. i - 1 : ~Ender(j)
    <3>1. k # i
      BY <1>5, <2>1
    <3> QED
      BY <2>1, <3>1
  <2>2. ASSUME NEW k \in 1 .. i - 1, Source!Is(k, {":"}), \A j \in k + 1 .. i - 1 : ~Ender(j)
        PROVE  k \in 1 .. i /\ \A j \in k + 1 .. i : ~Ender(j)
    <3>1. \A j \in k + 1 .. i : j = i \/ j \in k + 1 .. i - 1
      OBVIOUS
    <3> QED
      BY <1>5, <2>2, <3>1
  <2> QED
    BY <1>1, <1>2, <2>1, <2>2
<1>6. ~Enclosed(1)
  BY EnclosedIs
<1> QED
  BY <1>3, <1>4, <1>5, <1>6

\* A definition begins outside of others.
LEMMA ColonOutside ==
  ASSUME Laid, prog \in Programs, NEW i \in Source!Pos, Source!Is(i, {":"})
  PROVE  ~Enclosed(i)
<1>0. i \in Nat \ {0} /\ WellBuilt
  BY PosFacts DEF Laid
<1> SUFFICES ASSUME Enclosed(i) PROVE FALSE
  OBVIOUS
<1>1. PICK k \in 1 .. i - 1 : Source!Is(k, {":"}) /\ \A j \in k + 1 .. i - 1 : ~Ender(j)
  BY EnclosedIs
<1>2. k \in Nat \ {0} /\ k < i
  BY <1>0
<1> DEFINE e == Source!Min(Source!Ends(k))
<1>3. /\ k \in Source!Pos /\ Source!IsDef(k) /\ e \in Nat /\ k < e /\ Ender(e)
  BY <1>0, <1>1, <1>2, DefinitionFacts
<1>4. \A j \in k + 1 .. e : prog[j] # ":"
  BY <1>3 DEF Laid
<1> HIDE DEF e
<1>5. e \notin k + 1 .. i - 1
  BY <1>1, <1>3
<1>6. i \in k + 1 .. e
  BY <1>0, <1>2, <1>3, <1>5
<1> QED
  BY <1>4, <1>6 DEF Source!Is

\* In a text that makes words everything in a definition is compiled.
LEMMA MakingCompiles ==
  ASSUME Laid, prog \in Programs, Source!Makes, NEW i \in Nat \ {0}, Enclosed(i)
  PROVE  Source!Compiling(i)
<1>1. PICK k \in 1 .. i - 1 : Source!Is(k, {":"}) /\ \A j \in k + 1 .. i - 1 : ~Ender(j)
  BY EnclosedIs
<1> DEFINE T == {j \in 1 .. i - 1 : Source!Is(j, Switching)}
<1>2. k \in T
  <2>1. ":" \in Switching
    BY Zenon DEF Switching
  <2>2. Source!Is(k, Switching)
    BY <1>1, <2>1 DEF Source!Is
  <2> QED
    BY <2>2
<1>3. PICK m \in T : \A y \in T : m >= y
  <2> DEFINE n == i - 1
  <2>1. n \in Nat /\ T \subseteq 1 .. n /\ T # {}
    BY <1>2
  <2> HIDE DEF n, T
  <2> QED
    BY <2>1, GreatestExists
<1>4. m \in 1 .. i - 1 /\ Source!Is(m, Switching) /\ k <= m
  BY <1>2, <1>3
<1>5. Source!Is(m, {":", "]"})
  <2>1. ~Ender(m)
    <3>1. CASE m = k
      <4>1. Ender(k) => ";" \in {":"}
        BY <1>1, EnderIs, Zenon
      <4> QED
        BY <3>1, <4>1, Zenon
    <3>2. CASE m # k
      <4>1. m \in k + 1 .. i - 1
        BY <1>4, <3>2
      <4> QED
        BY <1>1, <4>1
    <3> QED
      BY <3>1, <3>2
  <2>2. m \in Source!Pos /\ ~Source!Is(m, {"["})
    BY <1>4 DEF Laid, Source!Is
  <2>3. \A x \in Switching : x = ";" \/ x = "[" \/ x \in {":", "]"}
    BY Zenon DEF Switching
  <2>4. prog[m] \in Switching /\ prog[m] # ";" /\ prog[m] # "["
    BY <1>4, <2>1, <2>2, EnderIs, Zenon DEF Source!Is
  <2> QED
    BY <2>2, <2>3, <2>4, Zenon DEF Source!Is
<1>6. \A j \in m + 1 .. i - 1 : ~Source!Is(j, Switching)
  <2>1. ASSUME NEW j \in m + 1 .. i - 1, Source!Is(j, Switching) PROVE FALSE
    <3>1. j \in T /\ ~(m >= j)
      BY <1>4, <2>1
    <3> QED
      BY <1>3, <3>1
  <2> QED
    BY <2>1
<1> QED
  BY <1>4, <1>5, <1>6, CompilingIs

-----------------------------------------------------------------------------
(* Jumps in compiled code: m are the cells, h the headers, L the addresses *)
(* of open loops, W those of operands that wait for their address, d says  *)
(* whether a definition is being compiled.                                 *)

IsJump(c) == c.op \in {"JUMP", "?JUMP"}

\* Every definition begins before v; v lies in the definition of cell a, behind its
\* codeword; code can be entered at v, or will begin there.
Above(h, v) == \A k \in 1 .. Len(h) : h[k].cfa < v
Together(h, a, v) ==
  \A k \in 1 .. Len(h) : h[k].cfa # v /\ ((h[k].cfa <= a) <=> (h[k].cfa < v))
Landing(m, v) == v \in 1 .. Len(m) + 1 /\ (v \in 1 .. Len(m) => m[v].op # "operand")

LoopMark(m, h, v) == Above(h, v) /\ Landing(m, v)
JumpMark(m, h, v) == Above(h, v) /\ v \in 1 .. Len(m) /\ m[v].op = "operand"
Lands(m, h, a, v, d) == Landing(m, v) /\ Together(h, a, v) /\ (d \/ v <= Len(m))

\* The operand of every cell that takes one is behind it.
Operands(m) ==
  \A a \in 1 .. Len(m) : m[a].op \in Paired => a + 1 \in 1 .. Len(m) /\ m[a + 1].op = "operand"

\* What jumps lead to, and where the marks L of loops and W of open jumps point: an
\* operand is open, then its place is in W, or it lands in the code of its own word; at
\* the end of memory only if more of the definition is to come (d).
Led(m, h, L, W, d) ==
  /\ Operands(m)
  /\ \A v \in L : LoopMark(m, h, v)
  /\ \A v \in W : JumpMark(m, h, v)
  /\ \A a \in 1 .. Len(m) : IsJump(m[a]) => a + 1 \in W \/ Lands(m, h, a, m[a + 1].arg, d)

\* More cells: old jumps and marks stay, the new cells must be in order.
LEMMA LedGrows ==
  ASSUME NEW m \in Seq(Cells), NEW n \in Seq(Cells), NEW h, NEW L, NEW W, NEW d,
         Led(m, h, L, W, d), Len(m) < Len(n), \A a \in 1 .. Len(m) : n[a] = m[a],
         n[Len(m) + 1].op # "operand",
         \A a \in Len(m) + 1 .. Len(n) : n[a].op \in Paired =>
           a + 1 \in 1 .. Len(n) /\ n[a + 1].op = "operand",
         NEW V, W \subseteq V, \A v \in V \ W : JumpMark(n, h, v), NEW c,
         \A a \in Len(m) + 1 .. Len(n) : IsJump(n[a]) =>
           a + 1 \in V \/ Lands(n, h, a, n[a + 1].arg, c)
  PROVE  Led(n, h, L, V, c)
<1>0. Len(m) \in Nat /\ Len(n) \in Nat
  OBVIOUS
<1>1. ASSUME NEW v, Landing(m, v) PROVE Landing(n, v) /\ v <= Len(n)
  <2>1. v \in 1 .. Len(m) + 1 /\ v <= Len(n) /\ v \in 1 .. Len(n) + 1
    BY <1>0, <1>1 DEF Landing
  <2>2. v = Len(m) + 1 \/ v \in 1 .. Len(m)
    BY <1>0, <2>1
  <2>3. CASE v = Len(m) + 1
    BY <2>1, <2>3 DEF Landing
  <2>4. CASE v \in 1 .. Len(m)
    <3>1. n[v] = m[v] /\ m[v].op # "operand"
      BY <1>1, <2>4 DEF Landing
    <3> QED
      BY <2>1, <3>1 DEF Landing
  <2> QED
    BY <2>2, <2>3, <2>4
<1>2. Operands(n)
  <2>1. ASSUME NEW a \in 1 .. Len(n), n[a].op \in Paired
        PROVE  a + 1 \in 1 .. Len(n) /\ n[a + 1].op = "operand"
    <3>1. CASE a \in 1 .. Len(m)
      <4>1. m[a].op \in Paired
        BY <2>1, <3>1
      <4>2. a + 1 \in 1 .. Len(m) /\ m[a + 1].op = "operand"
        BY <3>1, <4>1 DEF Led, Operands
      <4> QED
        BY <1>0, <4>2
    <3>2. CASE a \in Len(m) + 1 .. Len(n)
      BY <2>1, <3>2
    <3> QED
      BY <1>0, <3>1, <3>2
  <2> QED
    BY <2>1 DEF Operands
<1>3. \A v \in L : LoopMark(n, h, v)
  BY <1>1 DEF Led, LoopMark
<1>4. ASSUME NEW v \in V PROVE JumpMark(n, h, v)
  <2>1. CASE v \in W
    <3>1. Above(h, v) /\ v \in 1 .. Len(m) /\ m[v].op = "operand"
      BY <2>1 DEF Led, JumpMark
    <3>2. v \in 1 .. Len(n) /\ n[v] = m[v]
      BY <1>0, <3>1
    <3> QED
      BY <3>1, <3>2 DEF JumpMark
  <2> QED
    BY <2>1
<1>5. ASSUME NEW a \in 1 .. Len(n), IsJump(n[a])
      PROVE  a + 1 \in V \/ Lands(n, h, a, n[a + 1].arg, c)
  <2>1. CASE a \in 1 .. Len(m)
    <3>1. n[a] = m[a] /\ IsJump(m[a])
      BY <1>5, <2>1
    <3>2. a + 1 \in 1 .. Len(m)
      <4>1. m[a].op \in Paired
        BY <3>1 DEF IsJump, Paired
      <4> QED
        BY <2>1, <4>1 DEF Led, Operands
    <3>3. n[a + 1] = m[a + 1]
      BY <3>2
    <3>4. a + 1 \in W \/ Lands(m, h, a, m[a + 1].arg, d)
      BY <2>1, <3>1 DEF Led
    <3> DEFINE v == m[a + 1].arg
    <3>5. CASE Lands(m, h, a, v, d)
      <4>1. Landing(n, v) /\ v <= Len(n) /\ Together(h, a, v)
        BY <1>1, <3>5 DEF Lands
      <4> QED
        BY <3>3, <4>1 DEF Lands
    <3> QED
      BY <3>4, <3>5
  <2>2. CASE a \in Len(m) + 1 .. Len(n)
    BY <1>5, <2>2
  <2> QED
    BY <1>0, <2>1, <2>2
<1> QED
  BY <1>2, <1>3, <1>4, <1>5 DEF Led

\* What a patch changes.
LEMMA PatchIs ==
  ASSUME NEW m \in Seq(Cells), NEW w \in 1 .. Len(m), NEW v \in Int,
         NEW n, n = Patch(m, w, v)
  PROVE  /\ n \in Seq(Cells) /\ Len(n) = Len(m) /\ n[w].op = "operand" /\ n[w].arg = v
         /\ \A a \in 1 .. Len(m) : a # w => n[a] = m[a]
<1> DEFINE x == [m[w] EXCEPT !.op = "operand", !.arg = v]
           r == [m EXCEPT ![w] = x]
<1>1. w \in DOMAIN m /\ m[w] \in Cells
  OBVIOUS
<1>2. x \in Cells /\ x.op = "operand" /\ x.arg = v
  BY <1>1 DEF Cells, Kinds
<1>3. n = r
  BY <1>1 DEF Patch
<1> HIDE DEF x
<1>4. /\ r \in Seq(Cells) /\ Len(r) = Len(m) /\ r[w] = x
      /\ \A a \in 1 .. Len(m) : a # w => r[a] = m[a]
  BY <1>1, <1>2
<1> HIDE DEF r
<1> QED
  BY <1>2, <1>3, <1>4

\* An operand gets another address.
LEMMA LedPatched ==
  ASSUME NEW m \in Seq(Cells), NEW h, NEW L, NEW W, NEW d, Led(m, h, L, W, d),
         NEW w \in 1 .. Len(m), m[w].op = "operand", NEW v \in Int, NEW V, V \subseteq W, W \ {w} \subseteq V,
         NEW c, d => c,
         w - 1 \in 1 .. Len(m) /\ IsJump(m[w - 1]) => Lands(m, h, w - 1, v, c)
  PROVE  Led(Patch(m, w, v), h, L, V, c)
<1> DEFINE n == Patch(m, w, v)
<1>1. /\ n \in Seq(Cells) /\ Len(n) = Len(m) /\ n[w].op = "operand" /\ n[w].arg = v
      /\ \A a \in 1 .. Len(m) : a # w => n[a] = m[a]
  BY PatchIs
<1> HIDE DEF n
<1>2. Len(m) \in Nat
  OBVIOUS
<1>3. \A a \in 1 .. Len(m) : n[a].op = m[a].op
  BY <1>1
<1>4. \A x : Landing(n, x) <=> Landing(m, x)
  BY <1>1, <1>3 DEF Landing
<1>5. Operands(n)
  <2>1. ASSUME NEW a \in 1 .. Len(n), n[a].op \in Paired
        PROVE  a + 1 \in 1 .. Len(n) /\ n[a + 1].op = "operand"
    <3>1. m[a].op \in Paired /\ a \in 1 .. Len(m)
      BY <1>1, <1>3, <2>1
    <3>2. a + 1 \in 1 .. Len(m) /\ m[a + 1].op = "operand"
      BY <3>1 DEF Led, Operands
    <3> QED
      BY <1>1, <1>3, <3>2
  <2> QED
    BY <2>1 DEF Operands
<1>6. \A x \in L : LoopMark(n, h, x)
  BY <1>4 DEF Led, LoopMark
<1>7. \A x \in V : JumpMark(n, h, x)
  <2>1. \A x \in V : JumpMark(m, h, x)
    BY DEF Led
  <2> QED
    BY <1>1, <1>3, <2>1 DEF JumpMark
<1>8. ASSUME NEW a \in 1 .. Len(n), IsJump(n[a])
      PROVE  a + 1 \in V \/ Lands(n, h, a, n[a + 1].arg, c)
  <2>1. a \in 1 .. Len(m) /\ IsJump(m[a])
    BY <1>1, <1>3, <1>8 DEF IsJump
  <2>2. a + 1 \in 1 .. Len(m)
    <3>1. m[a].op \in Paired
      BY <2>1 DEF IsJump, Paired
    <3> QED
      BY <2>1, <3>1 DEF Led, Operands
  <2>3. CASE a + 1 = w
    <3>1. a = w - 1
      BY <2>1, <2>3
    <3>2. Lands(m, h, a, v, c) /\ n[a + 1].arg = v
      BY <1>1, <2>1, <2>3, <3>1
    <3> QED
      BY <1>1, <1>4, <3>2 DEF Lands
  <2>4. CASE a + 1 # w
    <3>1. n[a + 1] = m[a + 1]
      BY <1>1, <2>2, <2>4
    <3>2. a + 1 \in W \/ Lands(m, h, a, m[a + 1].arg, d)
      BY <2>1 DEF Led
    <3>3. CASE a + 1 \in W
      BY <2>4, <3>3
    <3> DEFINE x == m[a + 1].arg
    <3>4. CASE Lands(m, h, a, x, d)
      <4>1. Landing(n, x) /\ Together(h, a, x) /\ (c \/ x <= Len(n))
        BY <1>1, <1>4, <3>4 DEF Lands
      <4> QED
        BY <3>1, <4>1 DEF Lands
    <3> QED
      BY <3>2, <3>3, <3>4
  <2> QED
    BY <2>3, <2>4
<1> QED
  BY <1>5, <1>6, <1>7, <1>8 DEF Led, n

\* Other loops are open.
LEMMA LedLoops ==
  ASSUME NEW m, NEW h, NEW L, NEW W, NEW d, Led(m, h, L, W, d),
         NEW K, \A v \in K : v \in L \/ LoopMark(m, h, v)
  PROVE  Led(m, h, K, W, d)
BY DEF Led

\* The headers change, but not the addresses of the words.
LEMMA LedSame ==
  ASSUME NEW m, NEW h, NEW L, NEW W, NEW d, Led(m, h, L, W, d),
         NEW g, Len(g) = Len(h), \A k \in 1 .. Len(h) : g[k].cfa = h[k].cfa
  PROVE  Led(m, g, L, W, d)
<1>1. \A v : Above(g, v) <=> Above(h, v)
  BY DEF Above
<1>2. \A a, v : Together(g, a, v) <=> Together(h, a, v)
  BY DEF Together
<1>3. \A v \in L : LoopMark(m, g, v)
  BY <1>1 DEF Led, LoopMark
<1>4. \A v \in W : JumpMark(m, g, v)
  BY <1>1 DEF Led, JumpMark
<1>5. \A a, v : Lands(m, h, a, v, d) => Lands(m, g, a, v, d)
  BY <1>2 DEF Lands
<1> QED
  BY <1>3, <1>4, <1>5 DEF Led

\* A word begins behind the last cell, when no definition is being compiled.
LEMMA LedWord ==
  ASSUME NEW m \in Seq(Cells), NEW h \in Seq(Headers), NEW L, NEW W, NEW d,
         Led(m, h, L, W, d), L = {}, W = {}, ~d,
         NEW w \in Headers, w.cfa = Len(m) + 1
  PROVE  Led(m, Append(h, w), L, W, d)
<1> DEFINE g == Append(h, w)
<1>1. /\ Len(g) = Len(h) + 1 /\ Len(h) \in Nat /\ Len(m) \in Nat /\ g[Len(h) + 1] = w
      /\ \A k \in 1 .. Len(h) : g[k] = h[k]
  OBVIOUS
<1> HIDE DEF g
<1>2. ASSUME NEW a \in 1 .. Len(m), NEW v, Lands(m, h, a, v, d)
      PROVE  Lands(m, g, a, v, d)
  <2>1. Landing(m, v) /\ Together(h, a, v) /\ v <= Len(m) /\ v \in Int
    BY <1>2 DEF Lands, Landing
  <2>2. ASSUME NEW k \in 1 .. Len(g) PROVE g[k].cfa # v /\ ((g[k].cfa <= a) <=> (g[k].cfa < v))
    <3>1. CASE k \in 1 .. Len(h)
      BY <1>1, <2>1, <3>1 DEF Together
    <3>2. CASE k = Len(h) + 1
      <4>1. g[k].cfa = Len(m) + 1
        BY <1>1, <3>2
      <4>2. ~(Len(m) + 1 <= a) /\ ~(Len(m) + 1 < v) /\ Len(m) + 1 # v
        BY <1>1, <2>1
      <4> QED
        BY <4>1, <4>2
    <3> QED
      BY <1>1, <3>1, <3>2
  <2> QED
    BY <2>1, <2>2 DEF Lands, Together
<1>3. \A a \in 1 .. Len(m) : IsJump(m[a]) => Lands(m, g, a, m[a + 1].arg, d)
  BY <1>2 DEF Led
<1> QED
  BY <1>3 DEF Led, g

-----------------------------------------------------------------------------
(* The marks on the return stack. *)

MarkAt(s, t) == s[Len(s) - (Source!Open(t) + 2)]
LoopsOf(s, p) == {MarkAt(s, t) : t \in {u \in Marking(p) : prog[u] = "BEGIN"}}
HolesOf(s, p) == {MarkAt(s, t) : t \in {u \in Marking(p) : prog[u] # "BEGIN"}}

LEMMA MarkSets ==
  ASSUME NEW s, NEW p
  PROVE  /\ \A t \in Marking(p) : prog[t] = "BEGIN" => MarkAt(s, t) \in LoopsOf(s, p)
         /\ \A t \in Marking(p) : prog[t] # "BEGIN" => MarkAt(s, t) \in HolesOf(s, p)
         /\ \A x \in LoopsOf(s, p) : \E t \in Marking(p) : prog[t] = "BEGIN" /\ x = MarkAt(s, t)
         /\ \A x \in HolesOf(s, p) : \E t \in Marking(p) : prog[t] # "BEGIN" /\ x = MarkAt(s, t)
BY DEF LoopsOf, HolesOf

\* Two stacks with the same bottom, of n + 1 addresses, hold the same marks.
Agree(t, s, n) == \A j \in 0 .. n : t[Len(t) - j] = s[Len(s) - j]

LEMMA MarksSame ==
  ASSUME WellBuilt, prog \in Programs, NEW p \in Nat \ {0}, NEW s, NEW t,
         Agree(t, s, Source!Open(p) + 1)
  PROVE  \A u \in Marking(p) : MarkAt(t, u) = MarkAt(s, u)
<1>1. ASSUME NEW u \in Marking(p) PROVE MarkAt(t, u) = MarkAt(s, u)
  <2>1. Source!Open(u) \in Nat /\ Source!Open(p) \in Nat /\ Source!Open(u) < Source!Open(p)
    BY MarkingOrder
  <2> DEFINE j == Source!Open(u) + 2
  <2>2. j \in 0 .. Source!Open(p) + 1
    BY <2>1
  <2> HIDE DEF j
  <2>3. t[Len(t) - j] = s[Len(s) - j]
    BY <2>2 DEF Agree
  <2> QED
    BY <2>3 DEF MarkAt, j
<1> QED
  BY <1>1

LEMMA SetsSame ==
  ASSUME NEW p, NEW q, Marking(q) = Marking(p), NEW s, NEW t,
         \A u \in Marking(p) : MarkAt(t, u) = MarkAt(s, u)
  PROVE  LoopsOf(t, q) = LoopsOf(s, p) /\ HolesOf(t, q) = HolesOf(s, p)
BY DEF LoopsOf, HolesOf

\* One mark more.
LEMMA MarksPushed ==
  ASSUME WellBuilt, prog \in Programs, NEW i \in Nat \ {0}, NEW s \in Seq(Int),
         Len(s) <= Source!Open(i) + 2, Len(s) >= Source!Open(i) + 2, NEW v \in Int, NEW t, t = <<v>> \o s,
         Marking(i + 1) = Marking(i) \union {i}
  PROVE  /\ prog[i] = "BEGIN" => /\ \A x \in LoopsOf(t, i + 1) : x \in LoopsOf(s, i) \/ x = v
                                 /\ HolesOf(t, i + 1) = HolesOf(s, i)
         /\ prog[i] # "BEGIN" => /\ LoopsOf(t, i + 1) = LoopsOf(s, i)
                                 /\ HolesOf(s, i) \subseteq HolesOf(t, i + 1)
                                 /\ HolesOf(t, i + 1) \ HolesOf(s, i) \subseteq {v}
<1>1. Len(s) \in Nat /\ Source!Open(i) \in Nat
  BY OpenIsNat
<1>2. /\ Len(t) = Len(s) + 1 /\ t[Len(t) - Len(s)] = v
      /\ \A j \in 0 .. Len(s) - 1 : t[Len(t) - j] = s[Len(s) - j]
  BY PushIndex
<1>4. Len(s) - 1 = Source!Open(i) + 1 /\ Source!Open(i) + 2 = Len(s)
  BY <1>1
<1>3. MarkAt(t, i) = v
  BY <1>2, <1>4 DEF MarkAt
<1>5. \A u \in Marking(i) : MarkAt(t, u) = MarkAt(s, u)
  <2>1. Agree(t, s, Source!Open(i) + 1)
    BY <1>2, <1>4 DEF Agree
  <2> QED
    BY <2>1, MarksSame
<1>6. \A u \in Marking(i + 1) : u = i \/ u \in Marking(i)
  OBVIOUS
<1>7. \A u \in Marking(i) : u \in Marking(i + 1)
  OBVIOUS
<1>8. ASSUME NEW x \in LoopsOf(t, i + 1)
      PROVE  x \in LoopsOf(s, i) \/ (x = v /\ prog[i] = "BEGIN")
  <2>1. PICK u \in Marking(i + 1) : prog[u] = "BEGIN" /\ x = MarkAt(t, u)
    BY <1>8, MarkSets
  <2>2. CASE u = i
    BY <1>3, <2>1, <2>2
  <2>3. CASE u \in Marking(i)
    BY <1>5, <2>1, <2>3, MarkSets
  <2> QED
    BY <1>6, <2>2, <2>3
<1>9. ASSUME NEW x \in HolesOf(t, i + 1)
      PROVE  x \in HolesOf(s, i) \/ (x = v /\ prog[i] # "BEGIN")
  <2>1. PICK u \in Marking(i + 1) : prog[u] # "BEGIN" /\ x = MarkAt(t, u)
    BY <1>9, MarkSets
  <2>2. CASE u = i
    BY <1>3, <2>1, <2>2
  <2>3. CASE u \in Marking(i)
    BY <1>5, <2>1, <2>3, MarkSets
  <2> QED
    BY <1>6, <2>2, <2>3
<1>10. ASSUME NEW x \in LoopsOf(s, i) PROVE x \in LoopsOf(t, i + 1)
  <2>1. PICK u \in Marking(i) : prog[u] = "BEGIN" /\ x = MarkAt(s, u)
    BY <1>10, MarkSets
  <2>2. u \in Marking(i + 1) /\ x = MarkAt(t, u)
    BY <1>5, <1>7, <2>1
  <2> QED
    BY <2>1, <2>2, MarkSets
<1>11. ASSUME NEW x \in HolesOf(s, i) PROVE x \in HolesOf(t, i + 1)
  <2>1. PICK u \in Marking(i) : prog[u] # "BEGIN" /\ x = MarkAt(s, u)
    BY <1>11, MarkSets
  <2>2. u \in Marking(i + 1) /\ x = MarkAt(t, u)
    BY <1>5, <1>7, <2>1
  <2> QED
    BY <2>1, <2>2, MarkSets
<1> QED
  BY <1>8, <1>9, <1>10, <1>11

\* What THEN, AGAIN and UNTIL take.
LEMMA MarksTaken ==
  ASSUME WellBuilt, prog \in Programs, NEW i \in Source!Pos, Source!Is(i, Source!Closers),
         prog[i] # "REPEAT", NEW s \in Seq(Int), Len(s) <= Source!Open(i) + 2, Len(s) >= Source!Open(i) + 2,
         NEW t, t = Tail(s)
  PROVE  /\ LoopsOf(t, i + 1) \subseteq LoopsOf(s, i)
         /\ HolesOf(t, i + 1) \subseteq HolesOf(s, i)
         /\ prog[i] = "THEN" => /\ Head(s) \in HolesOf(s, i)
                                /\ HolesOf(s, i) \ {Head(s)} \subseteq HolesOf(t, i + 1)
         /\ prog[i] # "THEN" => /\ Head(s) \in LoopsOf(s, i)
                                /\ HolesOf(t, i + 1) = HolesOf(s, i)
<1>1. i \in Nat \ {0} /\ i + 1 \in Nat \ {0}
  BY PosFacts
<1>2. Len(s) \in Nat /\ Source!Open(i) \in Nat /\ Source!Open(i + 1) \in Nat
  BY <1>1, OpenIsNat
<1>3. PICK m \in Marking(i) : /\ Marking(i) = Marking(i + 1) \union {m}
                              /\ Source!Open(m) = Source!Open(i) - 1
                              /\ (prog[i] = "THEN") <=> (prog[m] # "BEGIN")
  BY MarksClose
<1>4. Source!Open(i) = Source!Open(i + 1) + 1
  BY <1>1, OpenTakes
<1>5. s # <<>>
  BY <1>2
<1>6. /\ Len(t) = Len(s) - 1 /\ Head(s) = s[Len(s) - Len(t)]
      /\ \A j \in 0 .. Len(t) - 1 : t[Len(t) - j] = s[Len(s) - j]
  BY <1>5, PopIndex
<1>7. MarkAt(s, m) = Head(s)
  BY <1>2, <1>3, <1>6 DEF MarkAt
<1>8. Len(t) - 1 = Source!Open(i + 1) + 1
  BY <1>2, <1>4, <1>6
<1>9. \A u \in Marking(i + 1) : MarkAt(t, u) = MarkAt(s, u)
  <2>1. Agree(t, s, Source!Open(i + 1) + 1)
    BY <1>6, <1>8 DEF Agree
  <2> QED
    BY <1>1, <2>1, MarksSame
<1>10. ASSUME NEW x \in LoopsOf(t, i + 1) PROVE x \in LoopsOf(s, i)
  <2>1. PICK u \in Marking(i + 1) : prog[u] = "BEGIN" /\ x = MarkAt(t, u)
    BY <1>10, MarkSets
  <2>2. u \in Marking(i) /\ x = MarkAt(s, u)
    BY <1>3, <1>9, <2>1
  <2> QED
    BY <2>1, <2>2, MarkSets
<1>11. ASSUME NEW x \in HolesOf(t, i + 1) PROVE x \in HolesOf(s, i)
  <2>1. PICK u \in Marking(i + 1) : prog[u] # "BEGIN" /\ x = MarkAt(t, u)
    BY <1>11, MarkSets
  <2>2. u \in Marking(i) /\ x = MarkAt(s, u)
    BY <1>3, <1>9, <2>1
  <2> QED
    BY <2>1, <2>2, MarkSets
<1>12. ASSUME NEW x \in HolesOf(s, i), x \notin HolesOf(t, i + 1) PROVE x = Head(s) /\ prog[i] = "THEN"
  <2>1. PICK u \in Marking(i) : prog[u] # "BEGIN" /\ x = MarkAt(s, u)
    BY <1>12, MarkSets
  <2>2. CASE u \in Marking(i + 1)
    BY <1>9, <1>12, <2>1, <2>2, MarkSets
  <2>3. CASE u = m
    BY <1>3, <1>7, <2>1, <2>3
  <2> QED
    BY <1>3, <2>2, <2>3
<1>13. /\ prog[i] = "THEN" => Head(s) \in HolesOf(s, i)
       /\ prog[i] # "THEN" => Head(s) \in LoopsOf(s, i)
  BY <1>3, <1>7, MarkSets
<1> QED
  BY <1>10, <1>11, <1>12, <1>13

\* What REPEAT takes.
LEMMA MarksTakenTwo ==
  ASSUME WellBuilt, prog \in Programs, NEW i \in Source!Pos, Source!Is(i, {"REPEAT"}),
         NEW s \in Seq(Int), Len(s) <= Source!Open(i) + 2, Len(s) >= Source!Open(i) + 2, Source!Open(i) >= 2,
         Source!Open(i + 1) = Source!Open(i) - 2,
         NEW t, t = Tail(Tail(s))
  PROVE  /\ LoopsOf(t, i + 1) \subseteq LoopsOf(s, i)
         /\ HolesOf(t, i + 1) \subseteq HolesOf(s, i)
         /\ Head(s) \in HolesOf(s, i)
         /\ HolesOf(s, i) \ {Head(s)} \subseteq HolesOf(t, i + 1)
         /\ s[2] \in LoopsOf(s, i)
<1>1. i \in Nat \ {0} /\ i + 1 \in Nat \ {0}
  BY PosFacts
<1>2. Len(s) \in Nat /\ Source!Open(i) \in Nat /\ Source!Open(i + 1) \in Nat
  BY <1>1, OpenIsNat
<1>3. PICK m, w \in Marking(i) : /\ Marking(i) = Marking(i + 1) \union {m, w}
                                 /\ Source!Open(w) = Source!Open(i) - 1
                                 /\ Source!Open(m) = Source!Open(i) - 2
                                 /\ prog[m] = "BEGIN" /\ prog[w] # "BEGIN"
  BY MarksRepeat
<1> DEFINE r == Tail(s)
<1>4. s # <<>> /\ r \in Seq(Int) /\ r # <<>> /\ Len(r) = Len(s) - 1 /\ Head(s) = s[1]
  BY <1>2
<1>5. \A j \in 0 .. Len(r) - 1 : r[Len(r) - j] = s[Len(s) - j]
  BY <1>4, PopIndex
<1> HIDE DEF r
<1>6. /\ Len(t) = Len(r) - 1
      /\ \A j \in 0 .. Len(t) - 1 : t[Len(t) - j] = r[Len(r) - j]
  BY <1>4, PopIndex DEF r
<1>7. \A j \in 0 .. Len(t) - 1 : t[Len(t) - j] = s[Len(s) - j]
  <2>1. \A j \in 0 .. Len(t) - 1 : j \in 0 .. Len(r) - 1
    BY <1>2, <1>4, <1>6
  <2> QED
    BY <1>5, <1>6, <2>1
<1>8. MarkAt(s, w) = Head(s) /\ MarkAt(s, m) = s[2]
  <2>1. Len(s) - (Source!Open(w) + 2) = 1 /\ Len(s) - (Source!Open(m) + 2) = 2
    BY <1>2, <1>3
  <2> QED
    BY <1>4, <2>1 DEF MarkAt
<1>9. Len(t) - 1 = Source!Open(i + 1) + 1
  <2> DEFINE n == Len(s)
             k == Len(r)
             l == Len(t)
             o == Source!Open(i)
             q == Source!Open(i + 1)
  <2>1. n \in Nat /\ k = n - 1 /\ l = k - 1 /\ o \in Nat /\ q = o - 2 /\ n <= o + 2 /\ n >= o + 2
    BY <1>2, <1>4, <1>6
  <2> HIDE DEF n, k, l, o, q
  <2>2. l - 1 = q + 1
    BY <2>1
  <2> QED
    BY <2>2 DEF l, q
<1>10. \A u \in Marking(i + 1) : MarkAt(t, u) = MarkAt(s, u)
  <2>1. Agree(t, s, Source!Open(i + 1) + 1)
    BY <1>7, <1>9 DEF Agree
  <2> QED
    BY <1>1, <2>1, MarksSame
<1>11. ASSUME NEW x \in LoopsOf(t, i + 1) PROVE x \in LoopsOf(s, i)
  <2>1. PICK u \in Marking(i + 1) : prog[u] = "BEGIN" /\ x = MarkAt(t, u)
    BY <1>11, MarkSets
  <2>2. u \in Marking(i) /\ x = MarkAt(s, u)
    BY <1>3, <1>10, <2>1
  <2> QED
    BY <2>1, <2>2, MarkSets
<1>12. ASSUME NEW x \in HolesOf(t, i + 1) PROVE x \in HolesOf(s, i)
  <2>1. PICK u \in Marking(i + 1) : prog[u] # "BEGIN" /\ x = MarkAt(t, u)
    BY <1>12, MarkSets
  <2>2. u \in Marking(i) /\ x = MarkAt(s, u)
    BY <1>3, <1>10, <2>1
  <2> QED
    BY <2>1, <2>2, MarkSets
<1>13. ASSUME NEW x \in HolesOf(s, i), x \notin HolesOf(t, i + 1) PROVE x = Head(s)
  <2>1. PICK u \in Marking(i) : prog[u] # "BEGIN" /\ x = MarkAt(s, u)
    BY <1>13, MarkSets
  <2>2. CASE u \in Marking(i + 1)
    BY <1>10, <1>13, <2>1, <2>2, MarkSets
  <2>3. CASE u = m
    BY <1>3, <2>1, <2>3
  <2>4. CASE u = w
    BY <1>8, <2>1, <2>4
  <2> QED
    BY <1>3, <2>2, <2>3, <2>4
<1>14. Head(s) \in HolesOf(s, i) /\ s[2] \in LoopsOf(s, i)
  BY <1>3, <1>8, MarkSets
<1> QED
  BY <1>11, <1>12, <1>13, <1>14

\* ELSE takes one mark and leaves another.
LEMMA MarksSwapped ==
  ASSUME WellBuilt, prog \in Programs, NEW i \in Source!Pos, Source!Is(i, {"ELSE"}),
         NEW s \in Seq(Int), Len(s) <= Source!Open(i) + 2, Len(s) >= Source!Open(i) + 2, Source!Open(i) # 0,
         NEW v \in Int, NEW t, t = <<v>> \o Tail(s)
  PROVE  /\ LoopsOf(t, i + 1) = LoopsOf(s, i)
         /\ HolesOf(t, i + 1) \subseteq HolesOf(s, i) \union {v}
         /\ Head(s) \in HolesOf(s, i)
         /\ HolesOf(s, i) \ {Head(s)} \subseteq HolesOf(t, i + 1)
         /\ v \in HolesOf(t, i + 1)
<1>1. i \in Nat \ {0} /\ i + 1 \in Nat \ {0}
  BY PosFacts
<1>2. Len(s) \in Nat /\ Source!Open(i) \in Nat
  BY <1>1, OpenIsNat
<1>3. /\ Marking(i + 1) = Marking(i)
      /\ \E m \in Marking(i) : /\ Source!Open(m) = Source!Open(i) - 1 /\ prog[m] # "BEGIN"
                               /\ \A u \in Marking(i) : u # m => Source!Open(u) < Source!Open(m)
  BY MarksElse
<1>4. PICK m \in Marking(i) : /\ Source!Open(m) = Source!Open(i) - 1 /\ prog[m] # "BEGIN"
                              /\ \A u \in Marking(i) : u # m => Source!Open(u) < Source!Open(m)
  BY <1>3
<1> DEFINE r == Tail(s)
<1>5. s # <<>> /\ r \in Seq(Int) /\ Len(r) = Len(s) - 1 /\ Head(s) = s[1]
  BY <1>2
<1>6. \A j \in 0 .. Len(r) - 1 : r[Len(r) - j] = s[Len(s) - j]
  BY <1>5, PopIndex
<1> HIDE DEF r
<1>7. /\ Len(t) = Len(r) + 1 /\ t[Len(t) - Len(r)] = v
      /\ \A j \in 0 .. Len(r) - 1 : t[Len(t) - j] = r[Len(r) - j]
  BY <1>5, PushIndex DEF r
<1>8. MarkAt(s, m) = Head(s) /\ MarkAt(t, m) = v
  <2>1. /\ Len(s) - (Source!Open(m) + 2) = 1
        /\ Len(t) - (Source!Open(m) + 2) = Len(t) - Len(r)
    BY <1>2, <1>4, <1>5, <1>7
  <2> QED
    BY <1>5, <1>7, <2>1 DEF MarkAt
<1>9. ASSUME NEW u \in Marking(i), u # m PROVE MarkAt(t, u) = MarkAt(s, u)
  <2>1. Source!Open(u) \in Nat /\ Source!Open(u) < Source!Open(m)
    BY <1>1, <1>4, <1>9, MarkingOrder
  <2> DEFINE j == Source!Open(u) + 2
  <2>2. j \in 0 .. Len(r) - 1
    <3> DEFINE n == Len(s)
               k == Len(r)
               o == Source!Open(i)
               p == Source!Open(m)
               q == Source!Open(u)
    <3>1. n \in Nat /\ k = n - 1 /\ o \in Nat /\ p = o - 1 /\ q \in Nat /\ q < p /\ n >= o + 2
      BY <1>2, <1>4, <1>5, <2>1
    <3> HIDE DEF n, k, o, p, q
    <3>2. q + 2 \in 0 .. k - 1
      BY <3>1
    <3> QED
      BY <3>2 DEF q, k
  <2> HIDE DEF j
  <2>3. t[Len(t) - j] = s[Len(s) - j]
    BY <1>6, <1>7, <2>2
  <2> QED
    BY <2>3 DEF MarkAt, j
<1>10. ASSUME NEW x \in LoopsOf(t, i + 1) PROVE x \in LoopsOf(s, i)
  <2>1. PICK u \in Marking(i) : prog[u] = "BEGIN" /\ x = MarkAt(t, u)
    BY <1>3, <1>10, MarkSets
  <2>2. u # m
    BY <1>4, <2>1
  <2> QED
    BY <1>9, <2>1, <2>2, MarkSets
<1>11. ASSUME NEW x \in LoopsOf(s, i) PROVE x \in LoopsOf(t, i + 1)
  <2>1. PICK u \in Marking(i) : prog[u] = "BEGIN" /\ x = MarkAt(s, u)
    BY <1>11, MarkSets
  <2>2. u # m
    BY <1>4, <2>1
  <2> QED
    BY <1>3, <1>9, <2>1, <2>2, MarkSets
<1>12. ASSUME NEW x \in HolesOf(t, i + 1) PROVE x \in HolesOf(s, i) \/ x = v
  <2>1. PICK u \in Marking(i) : prog[u] # "BEGIN" /\ x = MarkAt(t, u)
    BY <1>3, <1>12, MarkSets
  <2> QED
    BY <1>8, <1>9, <2>1, MarkSets
<1>13. ASSUME NEW x \in HolesOf(s, i), x # Head(s) PROVE x \in HolesOf(t, i + 1)
  <2>1. PICK u \in Marking(i) : prog[u] # "BEGIN" /\ x = MarkAt(s, u)
    BY <1>13, MarkSets
  <2>2. u # m
    BY <1>8, <1>13, <2>1
  <2> QED
    BY <1>3, <1>9, <2>1, <2>2, MarkSets
<1>14. Head(s) \in HolesOf(s, i) /\ v \in HolesOf(t, i + 1)
  BY <1>3, <1>4, <1>8, MarkSets
<1> QED
  BY <1>10, <1>11, <1>12, <1>13, <1>14

-----------------------------------------------------------------------------
(* The jumps: the invariant. *)

\* Words lie behind each other.
Ordered(h) == \A j, k \in 1 .. Len(h) : j < k => h[j].cfa < h[k].cfa

\* While a definition is compiled no word is made: a text that makes words runs nothing
\* there, another one has no code that makes them.
Orderly(m, h, a, i) ==
  /\ Source!Makes => (\A k \in 1 .. Len(h) : ~h[k].immediate) /\ (a # Interp => ~Enclosed(i))
  /\ ~Source!Makes => \A c \in 1 .. Len(m) : m[c].op \notin Source!Creating

\* Memory, headers and the marks on the return stack fit together.
Linked ==
  /\ Led(mem, words, LoopsOf(rstk, ip), HolesOf(rstk, ip), Enclosed(ip))
  /\ Ordered(words)
  /\ Orderly(mem, words, wp, ip)

Links == Laid => Linked

LEMMA LaidKept ==
  ASSUME prog' = prog
  PROVE  Laid' <=> Laid
<1>1. WellBuilt' <=> WellBuilt
  BY BuiltKept
<1> QED
  BY <1>1 DEF Laid, Source!Is, Source!Pos, Source!IsDef, Source!Ends, Source!Makes, Source!Creating

LEMMA EnclosedKept ==
  ASSUME prog' = prog
  PROVE  (Enclosed(ip))' <=> Enclosed(ip')
BY DEF Enclosed, Source!Is, Source!Pos

LEMMA MarksKept ==
  ASSUME prog' = prog
  PROVE  /\ (LoopsOf(rstk, ip))' = LoopsOf(rstk', ip')
         /\ (HolesOf(rstk, ip))' = HolesOf(rstk', ip')
BY DEF LoopsOf, HolesOf, MarkAt, Marking, Source!Open, Source!OpenAt, Source!Whiles,
  Source!OpenerOf, Source!Is, Source!Count, Source!Pos

LEMMA OrderlyKept ==
  ASSUME prog' = prog
  PROVE  (Orderly(mem, words, wp, ip))' <=> Orderly(mem', words', wp', ip')
BY DEF Orderly, Enclosed, Source!Makes, Source!Creating, Source!Is, Source!Pos

\* What has to hold behind a step, in terms of the text before it.
LEMMA LinkedFollows ==
  ASSUME prog' = prog,
         Led(mem', words', LoopsOf(rstk', ip'), HolesOf(rstk', ip'), Enclosed(ip')),
         Ordered(words'), Orderly(mem', words', wp', ip')
  PROVE  Linked'
<1>1. (Ordered(words))'
  BY DEF Ordered
<1>2. (Orderly(mem, words, wp, ip))'
  BY OrderlyKept
<1>3. (Led(mem, words, LoopsOf(rstk, ip), HolesOf(rstk, ip), Enclosed(ip)))'
  BY MarksKept, EnclosedKept DEF Led, Lands, LoopMark, JumpMark, Landing, Together, Above, Operands
<1> QED
  BY <1>1, <1>2, <1>3 DEF Linked

\* The definition may end, or stay open.
LEMMA LedCloses ==
  ASSUME NEW m, NEW h, NEW L, NEW W, NEW d, Led(m, h, L, W, d), NEW c, d => c
  PROVE  Led(m, h, L, W, c)
BY DEF Led, Lands

\* Cells, places of words and marks stay.
LEMMA SteadyLinks ==
  ASSUME Inv, WellBuilt, Linked, prog' = prog, mem' = mem, Len(words') = Len(words),
         \A k \in 1 .. Len(words) : words'[k].cfa = words[k].cfa,
         Marking(ip') = Marking(ip), Enclosed(ip') <=> Enclosed(ip),
         Agree(rstk', rstk, Source!Open(ip) + 1), Orderly(mem, words', wp', ip')
  PROVE  Linked'
<1> DEFINE L == LoopsOf(rstk, ip)
           W == HolesOf(rstk, ip)
           g == words'
<1>1. prog \in Programs /\ ip \in Nat \ {0}
  BY InvFacts
<1>2. \A u \in Marking(ip) : MarkAt(rstk', u) = MarkAt(rstk, u)
  BY <1>1, MarksSame
<1>3. LoopsOf(rstk', ip') = L /\ HolesOf(rstk', ip') = W
  BY <1>2, SetsSame
<1>4. Led(mem, words, L, W, Enclosed(ip)) /\ Ordered(words)
  BY DEF Linked
<1> HIDE DEF L, W, g
<1>5. Len(g) = Len(words) /\ \A k \in 1 .. Len(words) : g[k].cfa = words[k].cfa
  BY DEF g
<1>6. Led(mem, g, L, W, Enclosed(ip))
  BY <1>4, <1>5, LedSame
<1>7. Led(mem, g, L, W, Enclosed(ip'))
  BY <1>6, LedCloses
<1>8. Ordered(g)
  BY <1>4, <1>5 DEF Ordered
<1>9. Led(mem', words', LoopsOf(rstk', ip'), HolesOf(rstk', ip'), Enclosed(ip'))
  BY <1>3, <1>7 DEF g
<1> QED
  BY <1>8, <1>9, LinkedFollows DEF g

\* The bottom of the return stack, while words run and return.
LEMMA AgreeSame ==
  ASSUME NEW s, NEW n
  PROVE  Agree(s, s, n)
BY DEF Agree

LEMMA AgreePushed ==
  ASSUME NEW s \in Seq(Int), NEW v \in Int, NEW o \in Nat, Len(s) >= o + 2
  PROVE  Agree(<<v>> \o s, s, o + 1)
<1> DEFINE t == <<v>> \o s
<1>1. \A j \in 0 .. Len(s) - 1 : t[Len(t) - j] = s[Len(s) - j]
  BY PushIndex
<1> HIDE DEF t
<1>2. \A j \in 0 .. o + 1 : j \in 0 .. Len(s) - 1
  OBVIOUS
<1> QED
  BY <1>1, <1>2 DEF Agree, t

LEMMA AgreePopped ==
  ASSUME NEW s \in Seq(Int), NEW o \in Nat, Len(s) >= o + 3
  PROVE  Agree(Tail(s), s, o + 1)
<1> DEFINE t == Tail(s)
<1>1. s # <<>> /\ Len(s) \in Nat
  OBVIOUS
<1>2. Len(t) = Len(s) - 1 /\ \A j \in 0 .. Len(t) - 1 : t[Len(t) - j] = s[Len(s) - j]
  BY <1>1, PopIndex
<1> HIDE DEF t
<1>3. \A j \in 0 .. o + 1 : j \in 0 .. Len(t) - 1
  BY <1>1, <1>2
<1> QED
  BY <1>2, <1>3 DEF Agree, t

\* A machine that stops stays as it is.
LEMMA StopLinks ==
  ASSUME Inv, WellBuilt, Linked, NEW why, Stop(why)
  PROVE  Linked'
<1>1. /\ prog' = prog /\ ip' = ip /\ mem' = mem /\ words' = words
      /\ wp' = wp /\ rstk' = rstk
  BY DEF Stop
<1>2. Agree(rstk', rstk, Source!Open(ip) + 1)
  BY <1>1, AgreeSame
<1> QED
  BY <1>1, <1>2, SteadyLinks DEF Linked

-----------------------------------------------------------------------------
(* Words that run. *)

\* Nothing is made in a definition, and the text goes on with i in the same one.
Spot(i) ==
  /\ i \in Nat \ {0} /\ Marking(i) = Marking(ip) /\ (Enclosed(i) <=> Enclosed(ip))
  /\ Source!Makes => ~Enclosed(ip)

LEMMA PassLinks ==
  ASSUME Inv, WellBuilt, Linked, NEW i, Spot(i), prog' = prog, mem' = mem, words' = words,
         ip' = i, Agree(rstk', rstk, Source!Open(ip) + 1)
  PROVE  Linked'
<1>1. Orderly(mem, words', wp', ip')
  BY DEF Linked, Orderly, Spot
<1>2. Marking(ip') = Marking(ip) /\ (Enclosed(ip') <=> Enclosed(ip))
  BY DEF Spot
<1> QED
  BY <1>1, <1>2, SteadyLinks

LEMMA LeaveLinks ==
  ASSUME Inv, WellBuilt, Linked, NEW i, NEW back, Spot(i), NEW v, Leave(v, i, back)
  PROVE  Linked'
<1>1. CASE Len(pstk) >= PStkCells
  BY <1>1, StopLinks DEF Leave
<1>2. CASE ~(Len(pstk) >= PStkCells)
  <2>1. prog' = prog /\ rstk' = rstk /\ ip' = i /\ mem' = mem /\ words' = words
    BY <1>2 DEF Leave
  <2> QED
    BY <2>1, AgreeSame, PassLinks
<1> QED
  BY <1>1, <1>2

LEMMA ActLinks ==
  ASSUME Inv, WellBuilt, Linked, NEW i, NEW back, Spot(i),
         NEW w \in {"x", "flag", "DROP"}, Act(w, i, back)
  PROVE  Linked'
<1>1. CASE w = "x"
  <2>1. prog' = prog /\ rstk' = rstk /\ ip' = i /\ mem' = mem /\ words' = words
    BY <1>1 DEF Act, Pass
  <2> QED
    BY <2>1, AgreeSame, PassLinks
<1>2. CASE w = "flag"
  <2>1. \E v \in {0, -1} : Leave(v, i, back)
    BY <1>2 DEF Act
  <2> QED
    BY <2>1, LeaveLinks
<1>3. CASE w = "DROP" /\ pstk = <<>>
  <2>1. Stop("stkunf")
    BY <1>3 DEF Act
  <2> QED
    BY <2>1, StopLinks
<1>4. CASE w = "DROP" /\ pstk # <<>>
  <2>1. prog' = prog /\ rstk' = rstk /\ ip' = i /\ mem' = mem /\ words' = words
    BY <1>4 DEF Act
  <2> QED
    BY <2>1, AgreeSame, PassLinks
<1> QED
  BY <1>1, <1>2, <1>3, <1>4

LEMMA BegunLinks ==
  ASSUME Inv, WellBuilt, Shape, Linked, NEW i, NEW back \in Int, Spot(i), NEW code,
         Begun(code, i, back)
  PROVE  Linked'
<1>1. prog' = prog /\ ip' = i /\ mem' = mem /\ words' = words /\ rstk' = <<back>> \o rstk
  BY DEF Begun
<1>2. rstk \in Seq(Int) /\ Source!Open(ip) \in Nat /\ Len(rstk) >= Source!Open(ip) + 2
  BY InvFacts, OpenIsNat DEF Shape, Marked
<1>3. Agree(<<back>> \o rstk, rstk, Source!Open(ip) + 1)
  BY <1>2, AgreePushed
<1> QED
  BY <1>1, <1>3, PassLinks

LEMMA InvokeLinks ==
  ASSUME Inv, WellBuilt, Shape, Linked, NEW i, NEW back \in Int, Spot(i), NEW cfa,
         Invoke(cfa, i, back)
  PROVE  Linked'
<1> DEFINE op == mem[cfa].op
           code == mem[cfa + 1].arg
<1>1. CASE op = "docol" /\ ~RoomOnReturn
  BY <1>1, StopLinks DEF Invoke
<1>2. CASE op = "docol" /\ RoomOnReturn
  <2>1. Begun(cfa + 1, i, back)
    BY <1>2 DEF Invoke
  <2> QED
    BY <2>1, BegunLinks
<1>3. CASE op \notin {"docol", "douser"}
  <2>1. Stop("fault")
    BY <1>3 DEF Invoke
  <2> QED
    BY <2>1, StopLinks
<1>4. CASE op = "douser" /\ (code = 0 \/ Len(pstk) >= PStkCells)
  <2>1. Leave(cfa + 2, i, back)
    BY <1>4 DEF Invoke
  <2> QED
    BY <2>1, LeaveLinks
<1>5. CASE op = "douser" /\ ~(code = 0 \/ Len(pstk) >= PStkCells) /\ ~RoomOnReturn
  <2>1. Stop("rstkovf")
    BY <1>5 DEF Invoke
  <2> QED
    BY <2>1, StopLinks
<1>6. CASE op = "douser" /\ ~(code = 0 \/ Len(pstk) >= PStkCells) /\ RoomOnReturn
  <2>1. Begun(code, i, back)
    BY <1>6 DEF Invoke
  <2> QED
    BY <2>1, BegunLinks
<1> QED
  BY <1>1, <1>2, <1>3, <1>4, <1>5, <1>6

-----------------------------------------------------------------------------
(* More code. *)

\* The cells of a memory that grows.
LEMMA CatIs ==
  ASSUME NEW m \in Seq(Cells), NEW t \in Seq(Cells), NEW n, n = m \o t
  PROVE  /\ n \in Seq(Cells) /\ Len(n) = Len(m) + Len(t) /\ Len(m) \in Nat /\ Len(t) \in Nat
         /\ \A a \in 1 .. Len(m) : n[a] = m[a]
         /\ \A b \in 1 .. Len(t) : n[Len(m) + b] = t[b]
<1>1. n \in Seq(Cells) /\ Len(n) = Len(m) + Len(t) /\ Len(m) \in Nat /\ Len(t) \in Nat
  OBVIOUS
<1>2. \A a \in 1 .. Len(m) : n[a] = m[a]
  OBVIOUS
<1>3. ASSUME NEW b \in 1 .. Len(t) PROVE n[Len(m) + b] = t[b]
  OBVIOUS
<1> QED
  BY <1>1, <1>2, <1>3

LEMMA AboveHere ==
  ASSUME NEW h, NEW n \in Nat, Headed(h, n), NEW v \in Int, v > n
  PROVE  Above(h, v)
<1>1. \A k \in 1 .. Len(h) : h[k].cfa \in 1 .. n
  BY DEF Headed
<1> QED
  BY <1>1 DEF Above

\* A cell without operand.
LEMMA LedPlain ==
  ASSUME NEW m \in Seq(Cells), NEW h, NEW L, NEW W, NEW d, Led(m, h, L, W, d),
         NEW x \in Cells, x.op \notin Paired, x.op # "operand", NEW c
  PROVE  Led(Append(m, x), h, L, W, c)
<1> DEFINE n == Append(m, x)
<1>1. /\ n \in Seq(Cells) /\ Len(n) = Len(m) + 1 /\ Len(m) \in Nat /\ n[Len(m) + 1] = x
      /\ \A a \in 1 .. Len(m) : n[a] = m[a]
  OBVIOUS
<1> HIDE DEF n
<1>2. \A a \in Len(m) + 1 .. Len(n) : n[a] = x
  BY <1>1
<1>3. ~IsJump(x)
  BY DEF IsJump, Paired
<1>4. Len(m) < Len(n) /\ n[Len(m) + 1].op # "operand"
  BY <1>1
<1>5. \A a \in Len(m) + 1 .. Len(n) : n[a].op \in Paired =>
        a + 1 \in 1 .. Len(n) /\ n[a + 1].op = "operand"
  BY <1>2
<1>6. \A a \in Len(m) + 1 .. Len(n) : IsJump(n[a]) =>
        a + 1 \in W \/ Lands(n, h, a, n[a + 1].arg, c)
  BY <1>2, <1>3
<1>7. \A v \in W \ W : JumpMark(n, h, v)
  OBVIOUS
<1> QED
  BY <1>1, <1>4, <1>5, <1>6, <1>7, LedGrows DEF n

\* A jump and its operand, that has its address or waits for it.
LEMMA LedJump ==
  ASSUME NEW m \in Seq(Cells), NEW h, NEW L, NEW W, NEW d, Led(m, h, L, W, d),
         Headed(h, Len(m)),
         NEW t \in Seq(Cells), Len(t) <= 2, Len(t) >= 2, t[1].op \in {"JUMP", "?JUMP"}, t[2].op = "operand",
         NEW c, NEW V, W \subseteq V, V \ W \subseteq {Len(m) + 2},
         \/ Len(m) + 2 \in V
         \/ Lands(m, h, Len(m) + 1, t[2].arg, TRUE) /\ t[2].arg <= Len(m) + 1
  PROVE  Led(m \o t, h, L, V, c)
<1>0. PICK n : n = m \o t
  OBVIOUS
<1>1. /\ n \in Seq(Cells) /\ Len(n) = Len(m) + Len(t) /\ Len(m) \in Nat
      /\ \A a \in 1 .. Len(m) : n[a] = m[a]
      /\ \A b \in 1 .. Len(t) : n[Len(m) + b] = t[b]
  BY <1>0, CatIs
<1>2. Len(n) = Len(m) + 2 /\ n[Len(m) + 1] = t[1] /\ n[Len(m) + 2] = t[2]
  BY <1>1
<1>3. \A a \in Len(m) + 1 .. Len(n) : a = Len(m) + 1 \/ a = Len(m) + 2
  BY <1>1, <1>2
<1>4. ~IsJump(t[2]) /\ t[2].op \notin Paired /\ t[1].op # "operand"
  BY DEF IsJump, Paired
<1>5. \A a \in Len(m) + 1 .. Len(n) : n[a].op \in Paired =>
        a + 1 \in 1 .. Len(n) /\ n[a + 1].op = "operand"
  <2>1. (Len(m) + 1) + 1 = Len(m) + 2 /\ Len(m) + 2 \in 1 .. Len(n)
    BY <1>1, <1>2
  <2> QED
    BY <1>2, <1>3, <1>4, <2>1
<1>6. ASSUME NEW v \in V \ W PROVE JumpMark(n, h, v)
  <2>1. v = Len(m) + 2 /\ v \in 1 .. Len(n) /\ v > Len(m) /\ n[v].op = "operand" /\ v \in Int
    BY <1>1, <1>2
  <2>2. Above(h, v)
    BY <1>1, <2>1, AboveHere
  <2> QED
    BY <2>1, <2>2 DEF JumpMark
<1>7. ASSUME NEW a \in Len(m) + 1 .. Len(n), IsJump(n[a])
      PROVE  a + 1 \in V \/ Lands(n, h, a, n[a + 1].arg, c)
  <2>1. a = Len(m) + 1 /\ a + 1 = Len(m) + 2 /\ n[a + 1] = t[2]
    BY <1>1, <1>2, <1>3, <1>4, <1>7
  <2>2. CASE Lands(m, h, Len(m) + 1, t[2].arg, TRUE) /\ t[2].arg <= Len(m) + 1
    <3> DEFINE v == t[2].arg
    <3>1. v \in 1 .. Len(m) + 1 /\ (v \in 1 .. Len(m) => m[v].op # "operand")
          /\ Together(h, Len(m) + 1, v)
      BY <2>2 DEF Lands, Landing
    <3> HIDE DEF v
    <3>2. v \in 1 .. Len(n) + 1 /\ v <= Len(n)
      BY <1>1, <1>2, <3>1
    <3>3. n[v].op # "operand"
      <4>1. CASE v \in 1 .. Len(m)
        BY <1>1, <3>1, <4>1
      <4>2. CASE v = Len(m) + 1
        BY <1>2, <1>4, <4>2
      <4> QED
        BY <1>1, <3>1, <4>1, <4>2
    <3>4. Lands(n, h, a, v, c)
      BY <2>1, <3>1, <3>2, <3>3 DEF Lands, Landing
    <3> QED
      BY <2>1, <3>4 DEF v
  <2> QED
    BY <2>1, <2>2
<1>8. Len(m) < Len(n) /\ n[Len(m) + 1].op # "operand"
  BY <1>1, <1>2, <1>4
<1>9. Led(n, h, L, V, c)
  BY <1>1, <1>5, <1>6, <1>7, <1>8, LedGrows
<1> QED
  BY <1>0, <1>9

\* A word that makes no jumps is created.
LEMMA LedCreated ==
  ASSUME NEW m \in Seq(Cells), NEW h, NEW L, NEW W, NEW d, Led(m, h, L, W, d),
         NEW t \in Seq(Cells), Len(t) <= 3, Len(t) >= 2, t[1].op = "douser",
         \A b \in 2 .. Len(t) : t[b].op = "operand", NEW c
  PROVE  Led(m \o t, h, L, W, c)
<1>0. PICK n : n = m \o t
  OBVIOUS
<1>1. /\ n \in Seq(Cells) /\ Len(n) = Len(m) + Len(t) /\ Len(m) \in Nat /\ Len(t) \in Nat
      /\ \A a \in 1 .. Len(m) : n[a] = m[a]
      /\ \A b \in 1 .. Len(t) : n[Len(m) + b] = t[b]
  BY <1>0, CatIs
<1>2. n[Len(m) + 1].op = "douser" /\ Len(m) < Len(n)
  BY <1>1
<1>3. ASSUME NEW a \in Len(m) + 2 .. Len(n) PROVE n[a].op = "operand"
  <2> DEFINE b == a - Len(m)
  <2>1. b \in 1 .. Len(t) /\ b \in 2 .. Len(t) /\ a = Len(m) + b
    BY <1>1
  <2> HIDE DEF b
  <2> QED
    BY <1>1, <2>1
<1>4. \A a \in Len(m) + 1 .. Len(n) : a = Len(m) + 1 \/ a \in Len(m) + 2 .. Len(n)
  BY <1>1
<1>5. \A a \in Len(m) + 1 .. Len(n) : ~IsJump(n[a])
  BY <1>2, <1>3, <1>4 DEF IsJump
<1>6. ASSUME NEW a \in Len(m) + 1 .. Len(n), n[a].op \in Paired
      PROVE  a + 1 \in 1 .. Len(n) /\ n[a + 1].op = "operand"
  <2>1. a = Len(m) + 1
    BY <1>3, <1>4, <1>6 DEF Paired
  <2>2. a + 1 \in Len(m) + 2 .. Len(n) /\ a + 1 \in 1 .. Len(n)
    BY <1>1, <2>1
  <2> QED
    BY <1>3, <2>2
<1>7. n[Len(m) + 1].op # "operand"
  BY <1>2
<1>8. W \subseteq W /\ \A v \in W \ W : JumpMark(n, h, v)
  OBVIOUS
<1>9. \A a \in Len(m) + 1 .. Len(n) : IsJump(n[a]) =>
        a + 1 \in W \/ Lands(n, h, a, n[a + 1].arg, c)
  BY <1>5
<1>10. Led(n, h, L, W, c)
  BY <1>1, <1>2, <1>6, <1>7, <1>8, <1>9, LedGrows
<1> QED
  BY <1>0, <1>10

\* The tests of structures.
LEMMA CellsIn ==
  ASSUME NEW m \in Seq(Cells), NEW x \in Cells, NEW y \in Cells, NEW z \in Cells
  PROVE  /\ Append(m, x) \in Seq(Cells) /\ Len(Append(m, x)) = Len(m) + 1
         /\ m \o <<x, y, z>> = Append(m, x) \o <<y, z>>
         /\ m \o <<x, y>> \o <<z>> = Append(m, x) \o <<y, z>>
         /\ m \o <<x>> \o <<y>> = m \o <<x, y>>
         /\ m \o <<x, y>> \o <<z>> = m \o <<x, y, z>>
         /\ m \o <<x, y>> \o <<>> = m \o <<x, y>>
<1>1. Append(m, x) \in Seq(Cells) /\ Len(Append(m, x)) = Len(m) + 1
  OBVIOUS
<1>2. m \o <<x, y, z>> = Append(m, x) \o <<y, z>>
  OBVIOUS
<1>4. m \o <<x>> \o <<y>> = m \o <<x, y>>
  <2> DEFINE r == m \o <<x>>
             s == r \o <<y>>
             t == m \o <<x, y>>
  <2>1. r \in Seq(Cells) /\ Len(r) = Len(m) + 1 /\ Len(m) \in Nat /\ r[Len(m) + 1] = x
        /\ \A a \in 1 .. Len(m) : r[a] = m[a]
    OBVIOUS
  <2>2. t \in Seq(Cells) /\ Len(t) = Len(m) + 2 /\ t[Len(m) + 1] = x /\ t[Len(m) + 2] = y
        /\ \A a \in 1 .. Len(m) : t[a] = m[a]
    OBVIOUS
  <2> HIDE DEF r, t
  <2>3. s \in Seq(Cells) /\ Len(s) = Len(r) + 1 /\ s[Len(r) + 1] = y
        /\ \A a \in 1 .. Len(r) : s[a] = r[a]
    BY <2>1
  <2> HIDE DEF s
  <2>4. ASSUME NEW a \in 1 .. Len(s) PROVE s[a] = t[a]
    <3>1. a \in 1 .. Len(m) \/ a = Len(m) + 1 \/ a = Len(m) + 2
      BY <2>1, <2>3
    <3> QED
      BY <2>1, <2>2, <2>3, <3>1
  <2>5. Len(s) = Len(t)
    BY <2>1, <2>2, <2>3
  <2>6. s = t
    BY <2>2, <2>3, <2>4, <2>5, SeqEqual
  <2> QED
    BY <2>6 DEF s, t, r
<1>5. m \o <<x, y>> \o <<z>> = m \o <<x, y, z>>
  OBVIOUS
<1>3. m \o <<x, y>> \o <<z>> = Append(m, x) \o <<y, z>>
  BY <1>2, <1>5
<1>6. m \o <<x, y>> \o <<>> = m \o <<x, y>>
  OBVIOUS
<1> QED
  BY <1>1, <1>2, <1>3, <1>4, <1>5, <1>6

\* Names, primitives and flags neither begin nor end anything.
LEMMA NoEnder ==
  ASSUME NEW i, Source!Is(i, Names \union Primitives \union {"IMMEDIATE", "HIDE", "UNHIDE"})
  PROVE  ~Ender(i)
<1>1. ";" \in Compilers /\ ";" \notin Primitives /\ ";" \notin {"IMMEDIATE", "HIDE", "UNHIDE"}
  BY Zenon DEF Compilers, Primitives
<1>2. ";" \notin Names
  BY <1>1, TextAssumption, Zenon
<1>3. ";" \notin Names \union Primitives \union {"IMMEDIATE", "HIDE", "UNHIDE"}
  BY <1>1, <1>2, Zenon
<1> QED
  BY <1>3, EnderIs, Zenon

LEMMA OtherMarks ==
  ASSUME prog \in Programs, NEW i \in 1 .. Len(prog),
         prog[i] \in Names \union Primitives \union {"IMMEDIATE", "HIDE", "UNHIDE"}
  PROVE  /\ i \in Nat \ {0} /\ i + 1 \in Nat \ {0}
         /\ Marking(i + 1) = Marking(i) /\ (Enclosed(i + 1) <=> Enclosed(i))
<1>0. i \in Nat \ {0} /\ i + 1 \in Nat \ {0} /\ i \in Source!Pos
  BY PosFacts, ProgFacts
<1>1. prog[i] \notin Compilers \ {"IMMEDIATE", "HIDE", "UNHIDE"}
  BY TextAssumption DEF Primitives, Compilers
<1>2. /\ ~Source!Is(i, Source!Openers) /\ ~Source!Is(i, Source!Closers)
      /\ ~Source!Is(i, {"WHILE"}) /\ ~Source!Is(i, {":"})
  BY <1>1 DEF Source!Is, Source!Openers, Source!Closers, Compilers
<1>3. ~Ender(i)
  <2>1. Source!Is(i, Names \union Primitives \union {"IMMEDIATE", "HIDE", "UNHIDE"})
    BY <1>0, Zenon DEF Source!Is
  <2> QED
    BY <2>1, NoEnder
<1> QED
  BY <1>0, <1>2, <1>3, MarksStand, EnclosedSteps

\* Outside of definitions nothing is open.
LEMMA NothingOpen ==
  ASSUME WellBuilt, prog \in Programs, NEW p \in Nat \ {0}, ~Enclosed(p), NEW s
  PROVE  LoopsOf(s, p) = {} /\ HolesOf(s, p) = {}
<1>1. Marking(p) = {}
  BY OutsideNothing
<1> QED
  BY <1>1 DEF LoopsOf, HolesOf

\* A word behind the others.
LEMMA OrderedAppend ==
  ASSUME NEW n \in Nat, NEW h, Headed(h, n), Ordered(h), NEW w \in Headers, w.cfa = n + 1
  PROVE  Ordered(Append(h, w))
<1> DEFINE g == Append(h, w)
<1>1. h \in Seq(Headers) /\ \A k \in 1 .. Len(h) : h[k].cfa \in 1 .. n
  BY DEF Headed
<1>2. /\ Len(g) = Len(h) + 1 /\ Len(h) \in Nat /\ g[Len(h) + 1] = w
      /\ \A k \in 1 .. Len(h) : g[k] = h[k]
  BY <1>1
<1> HIDE DEF g
<1>3. ASSUME NEW j \in 1 .. Len(g), NEW k \in 1 .. Len(g), j < k
      PROVE  g[j].cfa < g[k].cfa
  <2>1. j \in 1 .. Len(h) /\ g[j] = h[j]
    BY <1>2, <1>3
  <2>2. CASE k \in 1 .. Len(h)
    BY <1>2, <1>3, <2>1, <2>2 DEF Ordered
  <2>3. CASE k = Len(h) + 1
    <3>1. g[k].cfa = n + 1 /\ g[j].cfa \in 1 .. n
      BY <1>1, <1>2, <2>1, <2>3
    <3> QED
      BY <3>1
  <2> QED
    BY <1>2, <2>2, <2>3
<1> QED
  BY <1>3 DEF Ordered, g

\* The headers of words that are made.
LEMMA PlainAppend ==
  ASSUME NEW h \in Seq(Headers), NEW w \in Headers, ~w.immediate,
         \A k \in 1 .. Len(h) : ~h[k].immediate
  PROVE  \A k \in 1 .. Len(Append(h, w)) : ~Append(h, w)[k].immediate
<1> DEFINE g == Append(h, w)
<1>1. /\ Len(g) = Len(h) + 1 /\ Len(h) \in Nat /\ g[Len(h) + 1] = w
      /\ \A k \in 1 .. Len(h) : g[k] = h[k]
  OBVIOUS
<1> HIDE DEF g
<1>2. \A k \in 1 .. Len(g) : k \in 1 .. Len(h) \/ k = Len(h) + 1
  BY <1>1
<1>3. ASSUME NEW k \in 1 .. Len(g) PROVE ~g[k].immediate
  <2>1. CASE k \in 1 .. Len(h)
    BY <1>1, <2>1
  <2>2. CASE k = Len(h) + 1
    BY <1>1, <2>2
  <2> QED
    BY <1>2, <2>1, <2>2
<1> QED
  BY <1>3 DEF g

LEMMA CreateLinks ==
  ASSUME Inv, WellBuilt, Linked, NEW i, NEW back, Spot(i), Source!Makes, NEW w,
         Create(w, i, back)
  PROVE  Linked'
<1>1. CASE i > Len(prog)
  BY <1>1, StopLinks DEF Create
<1>2. CASE ~(i > Len(prog))
  <2> DEFINE c(op) == [op |-> op, arg |-> 0, tok |-> i]
             x == c("douser")
             y == c("operand")
             t == IF w = "VARIABLE" THEN <<x, y, y>> ELSE <<x, y>>
             new == [name |-> prog[i], cfa |-> Here, hidden |-> FALSE, immediate |-> FALSE]
             g == Append(words, new)
             L == LoopsOf(rstk, ip)
             W == HolesOf(rstk, ip)
  <2>1. /\ prog[i] \in Names /\ words' = g /\ prog' = prog /\ rstk' = rstk /\ ip' = i + 1
        /\ mem' = mem \o <<x, y>> \o (IF w = "VARIABLE" THEN <<y>> ELSE <<>>)
    BY <1>2 DEF Create
  <2>2. /\ prog \in Programs /\ mem \in Seq(Cells) /\ Len(mem) \in Nat /\ ip \in Nat \ {0}
        /\ words \in Seq(Headers) /\ Headed(words, Len(mem)) /\ Len(prog) \in Nat
        /\ Here = Len(mem) + 1
    BY InvFacts DEF Here
  <2>3. i \in 1 .. Len(prog) /\ ~Enclosed(ip)
    BY <1>2, <2>2 DEF Spot
  <2>4. x \in Cells /\ y \in Cells /\ x.op = "douser" /\ y.op = "operand"
    BY <2>3 DEF Cells, Kinds
  <2>5. new \in Headers /\ new.cfa = Len(mem) + 1 /\ ~new.immediate
    <3>1. prog[i] \in Tokens
      BY <2>3, InvFacts
    <3> QED
      BY <2>2, <3>1 DEF Headers
  <2> HIDE DEF x, y, new
  <2>6. mem' = mem \o t
    <3>1. CASE w = "VARIABLE"
      BY <2>1, <2>2, <2>4, <3>1, CellsIn
    <3>2. CASE w # "VARIABLE"
      BY <2>1, <2>2, <2>4, <3>2, CellsIn
    <3> QED
      BY <3>1, <3>2
  <2>7. /\ t \in Seq(Cells) /\ Len(t) <= 3 /\ Len(t) >= 2 /\ t[1].op = "douser"
        /\ \A b \in 2 .. Len(t) : t[b].op = "operand"
    <3>1. CASE w = "VARIABLE"
      <4>1. t = <<x, y, y>>
        BY <3>1
      <4> HIDE DEF t
      <4>2. t \in Seq(Cells) /\ Len(t) = 3 /\ t[1] = x /\ t[2] = y /\ t[3] = y
        BY <2>4, <4>1
      <4>3. \A b \in 2 .. Len(t) : b = 2 \/ b = 3
        BY <4>2
      <4> QED
        BY <2>4, <4>2, <4>3
    <3>2. CASE w # "VARIABLE"
      <4>1. t = <<x, y>>
        BY <3>2
      <4> HIDE DEF t
      <4>2. t \in Seq(Cells) /\ Len(t) = 2 /\ t[1] = x /\ t[2] = y
        BY <2>4, <4>1
      <4>3. \A b \in 2 .. Len(t) : b = 2
        BY <4>2
      <4> QED
        BY <2>4, <4>2, <4>3
    <3> QED
      BY <3>1, <3>2
  <2> HIDE DEF t
  <2>8. Marking(i + 1) = Marking(ip) /\ (Enclosed(i + 1) <=> Enclosed(ip))
    BY <2>1, <2>2, <2>3, OtherMarks DEF Spot
  <2>9. \A u \in Marking(ip) : MarkAt(rstk', u) = MarkAt(rstk, u)
    BY <2>1
  <2>10. LoopsOf(rstk', ip') = L /\ HolesOf(rstk', ip') = W
    BY <2>1, <2>8, <2>9, SetsSame
  <2>11. L = {} /\ W = {}
    BY <2>2, <2>3, NothingOpen
  <2>12. Led(mem, words, L, W, Enclosed(ip)) /\ Ordered(words)
    BY DEF Linked
  <2> HIDE DEF L, W
  <2>13. Led(mem, g, L, W, Enclosed(ip))
    BY <2>2, <2>3, <2>5, <2>11, <2>12, LedWord
  <2>14. Ordered(g)
    BY <2>2, <2>5, <2>12, OrderedAppend
  <2>15. \A k \in 1 .. Len(g) : ~g[k].immediate
    BY <2>2, <2>5, PlainAppend DEF Linked, Orderly
  <2> HIDE DEF g
  <2>16. Led(mem \o t, g, L, W, Enclosed(ip'))
    BY <2>2, <2>7, <2>13, LedCreated
  <2>17. Led(mem', words', LoopsOf(rstk', ip'), HolesOf(rstk', ip'), Enclosed(ip'))
    BY <2>1, <2>6, <2>10, <2>16
  <2>18. Orderly(mem', words', wp', ip')
    BY <2>1, <2>3, <2>8, <2>15 DEF Orderly
  <2>19. Ordered(words')
    BY <2>1, <2>14
  <2> QED
    BY <2>1, <2>17, <2>18, <2>19, LinkedFollows
<1> QED
  BY <1>1, <1>2

\* The return stack of a word that returns.
LEMMA ReturnAgrees ==
  ASSUME Inv, Shape, wp # Interp
  PROVE  rstk # <<>> /\ Agree(Tail(rstk), rstk, Source!Open(ip) + 1)
<1>1. rstk \in Seq(Int) /\ Source!Open(ip) \in Nat /\ rstk # <<>>
      /\ Running(rstk, Source!Open(ip))
  BY RunningRstk
<1>2. Len(rstk) >= Source!Open(ip) + 3
  BY <1>1 DEF Running
<1> QED
  BY <1>1, <1>2, AgreePopped

\* In running code nothing is made in a definition.
LEMMA RunningSpot ==
  ASSUME Inv, Linked, wp # Interp
  PROVE  Spot(ip)
<1>1. ip \in Nat \ {0}
  BY InvFacts
<1> QED
  BY <1>1 DEF Linked, Orderly, Spot

LEMMA DoesLinks ==
  ASSUME Inv, WellBuilt, Shape, Linked, NEW back \in Int, wp # Interp, Does(ip, back)
  PROVE  Linked'
<1>0. Spot(ip)
  BY RunningSpot
<1>1. CASE ~(words # <<>> /\ mem[Last(words).cfa].op = "douser")
  <2>1. /\ prog' = prog /\ rstk' = rstk /\ ip' = ip /\ words' = words /\ mem' = mem
    BY <1>1 DEF Does, Pass
  <2> QED
    BY <1>0, <2>1, AgreeSame, PassLinks
<1>2. CASE (words # <<>> /\ mem[Last(words).cfa].op = "douser")
  <2>1. rstk # <<>>
    BY RunningRstk
  <2> DEFINE b == Last(words).cfa
             L == LoopsOf(rstk, ip)
             W == HolesOf(rstk, ip)
  <2>2. /\ mem' = Patch(mem, b + 1, back) /\ rstk' = Tail(rstk) /\ ip' = ip
        /\ prog' = prog /\ words' = words /\ mem[b].op = "douser"
    BY <1>2, <2>1 DEF Does
  <2>3. b \in 1 .. Len(mem)
    <3>1. words \in Seq(Headers) /\ words # <<>> /\ Len(words) \in Nat
          /\ \A k \in 1 .. Len(words) : words[k].cfa \in 1 .. Len(mem)
      BY <1>2, InvFacts
    <3>2. Len(words) \in 1 .. Len(words) /\ Last(words) = words[Len(words)]
      BY <3>1 DEF Last
    <3> QED
      BY <3>1, <3>2
  <2>4. /\ mem \in Seq(Cells) /\ Len(mem) \in Nat /\ prog \in Programs /\ ip \in Nat \ {0}
    BY InvFacts
  <2>5. Led(mem, words, L, W, Enclosed(ip)) /\ Ordered(words) /\ Orderly(mem, words, wp, ip)
    BY DEF Linked
  <2> DEFINE a == b + 1
  <2>6. a \in 1 .. Len(mem) /\ mem[a].op = "operand" /\ a - 1 = b /\ b \in Int
    <3>1. mem[b].op \in Paired
      BY <2>2 DEF Paired
    <3>2. b + 1 \in 1 .. Len(mem) /\ mem[b + 1].op = "operand"
      BY <2>3, <2>5, <3>1 DEF Led, Operands
    <3> QED
      BY <2>3, <3>2
  <2>7. mem' = Patch(mem, a, back)
    BY <2>2
  <2> HIDE DEF a, b, L, W
  <2>8. ~IsJump(mem[a - 1])
    BY <2>2, <2>6 DEF IsJump
  <2>9. W \subseteq W /\ W \ {a} \subseteq W
    OBVIOUS
  <2>10. Led(Patch(mem, a, back), words, L, W, Enclosed(ip))
    BY <2>4, <2>5, <2>6, <2>8, <2>9, LedPatched
  <2>11. \A u \in Marking(ip) : MarkAt(rstk', u) = MarkAt(rstk, u)
    BY <2>2, <2>4, ReturnAgrees, MarksSame
  <2>12. LoopsOf(rstk', ip) = L /\ HolesOf(rstk', ip) = W
    BY <2>11, SetsSame DEF L, W
  <2>13. /\ Len(mem') = Len(mem) /\ mem'[a].op = "operand"
         /\ \A c \in 1 .. Len(mem) : c # a => mem'[c] = mem[c]
    <3> DEFINE n == Patch(mem, a, back)
    <3>1. /\ Len(n) = Len(mem) /\ n[a].op = "operand"
          /\ \A c \in 1 .. Len(mem) : c # a => n[c] = mem[c]
      BY <2>4, <2>6, PatchIs
    <3> HIDE DEF n
    <3>2. mem' = n
      BY <2>7 DEF n
    <3> QED
      BY <3>1, <3>2
  <2>14. \A c \in 1 .. Len(mem') : mem'[c].op = mem[c].op
    BY <2>6, <2>13
  <2>15. Orderly(mem', words', wp', ip')
    BY <1>0, <2>2, <2>5, <2>13, <2>14 DEF Orderly, Spot
  <2> QED
    BY <2>2, <2>5, <2>7, <2>10, <2>12, <2>15, LinkedFollows
<1> QED
  BY <1>1, <1>2

LEMMA SystemLinks ==
  ASSUME Inv, WellBuilt, Shape, Linked, NEW i, NEW back \in Int, Spot(i),
         NEW w \in Primitives \ {"[COMPILE]"}, System(w, i, back),
         w = "DOES>" => wp # Interp /\ i = ip, w \in Source!Creating => Source!Makes
  PROVE  Linked'
<1>1. CASE w \in {"x", "flag", "DROP"}
  BY <1>1, ActLinks DEF System
<1>2. CASE w \in {"CREATE", "VARIABLE"}
  <2>1. Source!Makes
    BY <1>2 DEF Source!Creating
  <2> QED
    BY <1>2, <2>1, CreateLinks DEF System
<1>3. CASE w = "DOES>"
  BY <1>3, DoesLinks DEF System
<1> QED
  BY <1>1, <1>2, <1>3 DEF Primitives

\* One cell without operand.
LEMMA PlainLinks ==
  ASSUME Inv, WellBuilt, Linked, prog' = prog, wp' = Interp, rstk' = rstk,
         Marking(ip') = Marking(ip), NEW x \in Cells, x.op \notin Paired, x.op # "operand",
         ~Source!Makes => x.op \notin Source!Creating, mem' = Append(mem, x),
         Len(words') = Len(words), \A k \in 1 .. Len(words) : words'[k].cfa = words[k].cfa,
         Source!Makes => \A k \in 1 .. Len(words) : ~words'[k].immediate
  PROVE  Linked'
<1> DEFINE L == LoopsOf(rstk, ip)
           W == HolesOf(rstk, ip)
           g == words'
<1>1. mem \in Seq(Cells) /\ Len(mem) \in Nat
  BY InvFacts
<1>2. LoopsOf(rstk', ip') = L /\ HolesOf(rstk', ip') = W
  BY SetsSame
<1>3. Led(mem, words, L, W, Enclosed(ip)) /\ Ordered(words) /\ Orderly(mem, words, wp, ip)
  BY DEF Linked
<1>4. Len(g) = Len(words) /\ \A k \in 1 .. Len(words) : g[k].cfa = words[k].cfa
  OBVIOUS
<1> HIDE DEF L, W, g
<1>5. Led(Append(mem, x), words, L, W, Enclosed(ip'))
  BY <1>1, <1>3, LedPlain
<1>6. Led(Append(mem, x), g, L, W, Enclosed(ip'))
  BY <1>4, <1>5, LedSame
<1>7. Ordered(g)
  BY <1>3, <1>4 DEF Ordered
<1>8. ~Source!Makes => \A c \in 1 .. Len(mem') : mem'[c].op \notin Source!Creating
  <2> DEFINE n == Append(mem, x)
  <2>1. Len(n) = Len(mem) + 1 /\ n[Len(mem) + 1] = x /\ \A c \in 1 .. Len(mem) : n[c] = mem[c]
    BY <1>1
  <2> HIDE DEF n
  <2>2. \A c \in 1 .. Len(n) : c \in 1 .. Len(mem) \/ c = Len(mem) + 1
    BY <1>1, <2>1
  <2>3. ~Source!Makes => \A c \in 1 .. Len(n) : n[c].op \notin Source!Creating
    BY <1>3, <2>1, <2>2 DEF Orderly
  <2> QED
    BY <2>3 DEF n
<1>9. Orderly(mem', words', wp', ip')
  BY <1>4, <1>8 DEF Orderly, g
<1>10. Led(mem', words', LoopsOf(rstk', ip'), HolesOf(rstk', ip'), Enclosed(ip'))
  BY <1>2, <1>6 DEF g
<1> QED
  BY <1>7, <1>9, <1>10, LinkedFollows DEF g

\* The cell for a name or a primitive.
LEMMA CodePlain ==
  ASSUME Inv, ip \in 1 .. Len(prog), NEW t \in Names \union Primitives, t \in Names => Find(t) # 0
  PROVE  /\ CodeFor(t) \in Cells /\ CodeFor(t).op \notin Paired /\ CodeFor(t).op # "operand"
         /\ CodeFor(t).op \in Source!Creating => t \in Source!Creating
<1>1. CodeFor(t) \in Cells /\ CodeFor(t).op \notin Paired
  BY CodeFacts DEF Tokens
<1>2. CodeFor(t).op = "call" \/ (CodeFor(t).op = t /\ t \in Primitives)
  BY DEF CodeFor, Call, Prim
<1> QED
  BY <1>1, <1>2 DEF Primitives, Source!Creating

LEMMA WordLinks ==
  ASSUME Inv, Laid, Shape, Linked, Word
  PROVE  Linked'
<1>0. Read(Names \union Primitives) /\ WellBuilt
  BY DEF Word, Laid
<1>1. /\ ip \in 1 .. Len(prog) /\ prog[ip] \in Names \union Primitives /\ prog \in Programs
      /\ wp = Interp /\ (iscomp <=> Source!Compiling(ip)) /\ iscomp \in BOOLEAN
  BY <1>0, ReadShape
<1>2. Token = prog[ip] /\ Token \in Tokens
  BY <1>0, ReadFacts
<1>3. /\ ip \in Nat \ {0} /\ ip + 1 \in Nat \ {0}
      /\ Marking(ip + 1) = Marking(ip) /\ (Enclosed(ip + 1) <=> Enclosed(ip))
  BY <1>1, OtherMarks
<1>4. /\ Token # "[COMPILE]" /\ (Token = "DOES>" => iscomp)
      /\ Token \in Source!Creating => Source!Makes
  <2>1. ip \in Source!Pos
    BY <1>1, PosFacts
  <2>2. ~Source!Is(ip, {"[COMPILE]"}) /\ (Source!Is(ip, {"DOES>"}) => Source!Compiling(ip))
    BY <1>0, <2>1 DEF WellBuilt
  <2> QED
    BY <1>1, <1>2, <2>1, <2>2 DEF Source!Is, Source!Makes
<1>5. CASE Token \notin Primitives /\ Find(Token) = 0
  BY <1>0, <1>5, StopLinks DEF Word
<1> DEFINE hidden == iscomp /\ (Token \in Primitives \/ ~words[Find(Token)].immediate)
<1>6. CASE ~(Token \notin Primitives /\ Find(Token) = 0) /\ hidden
  <2>1. Took(1) /\ mem' = Append(mem, CodeFor(Token)) /\ words' = words /\ rstk' = rstk
    BY <1>6 DEF Word
  <2>2. Token \in Names => Find(Token) # 0
    BY <1>6, TextAssumption
  <2>3. /\ CodeFor(Token) \in Cells /\ CodeFor(Token).op \notin Paired
        /\ CodeFor(Token).op # "operand"
        /\ CodeFor(Token).op \in Source!Creating => Token \in Source!Creating
    BY <1>1, <1>2, <2>2, CodePlain
  <2>4. prog' = prog /\ wp' = Interp /\ Marking(ip') = Marking(ip)
    BY <1>1, <1>3, <2>1 DEF Took
  <2> DEFINE x == CodeFor(Token)
  <2>5. /\ x \in Cells /\ x.op \notin Paired /\ x.op # "operand"
        /\ ~Source!Makes => x.op \notin Source!Creating
    BY <1>4, <2>3
  <2>6. mem' = Append(mem, x)
    BY <2>1
  <2> HIDE DEF x
  <2>7. Source!Makes => \A k \in 1 .. Len(words) : ~words'[k].immediate
    BY <2>1 DEF Linked, Orderly
  <2> QED
    BY <1>0, <2>1, <2>4, <2>5, <2>6, <2>7, PlainLinks
<1>7. ASSUME ~(Token \notin Primitives /\ Find(Token) = 0), ~hidden
      PROVE  Spot(ip + 1)
  <2>1. ASSUME Source!Makes, Enclosed(ip) PROVE FALSE
    <3>1. iscomp
      BY <1>1, <1>3, <2>1, MakingCompiles
    <3>2. Token \notin Primitives /\ words[Find(Token)].immediate
      BY <1>7, <3>1
    <3>3. Find(Token) \in 1 .. Len(words)
      BY <1>7, <3>2, InvFacts, FindFacts
    <3> QED
      BY <2>1, <3>2, <3>3 DEF Linked, Orderly
  <2> QED
    BY <1>3, <2>1 DEF Spot
<1>8. CASE ~(Token \notin Primitives /\ Find(Token) = 0) /\ ~hidden /\ Token \in Primitives
  <2>1. System(Token, ip + 1, Interp)
    BY <1>8 DEF Word
  <2>2. Token # "DOES>"
    BY <1>4, <1>8
  <2>3. Spot(ip + 1) /\ Interp \in Int
    BY <1>7, <1>8 DEF Interp
  <2> QED
    BY <1>0, <1>4, <1>8, <2>1, <2>2, <2>3, SystemLinks
<1>9. CASE ~(Token \notin Primitives /\ Find(Token) = 0) /\ ~hidden /\ Token \notin Primitives
  <2>1. Invoke(words[Find(Token)].cfa, ip + 1, Interp)
    BY <1>9 DEF Word
  <2>2. Spot(ip + 1) /\ Interp \in Int
    BY <1>7, <1>9 DEF Interp
  <2> QED
    BY <1>0, <2>1, <2>2, InvokeLinks
<1> QED
  BY <1>5, <1>6, <1>8, <1>9

LEMMA ColonLinks ==
  ASSUME Inv, Laid, Shape, Linked, Colon
  PROVE  Linked'
<1>0. Read({":"}) /\ WellBuilt
  BY DEF Colon, Laid
<1>1. CASE ip = Len(prog)
  BY <1>0, <1>1, StopLinks DEF Colon
<1>2. CASE ip # Len(prog)
  <2> DEFINE i == ip + 1
             x == Prim("docol")
             new == [name |-> prog[i], cfa |-> Here, hidden |-> TRUE, immediate |-> FALSE]
             g == Append(words, new)
             L == LoopsOf(rstk, ip)
             W == HolesOf(rstk, ip)
  <2>1. /\ prog[i] \in Names /\ prog' = prog /\ wp' = wp /\ ip' = ip + 2
        /\ mem' = Append(mem, x) /\ words' = g /\ rstk' = rstk
    BY <1>2 DEF Colon, Took
  <2>2. /\ ip \in 1 .. Len(prog) /\ prog[ip] = ":" /\ prog \in Programs /\ wp = Interp
        /\ mem \in Seq(Cells) /\ Len(mem) \in Nat /\ Len(prog) \in Nat /\ Here = Len(mem) + 1
        /\ words \in Seq(Headers) /\ Headed(words, Len(mem)) /\ ip \in Nat \ {0}
    BY <1>0, ReadShape, InvFacts
  <2>3. i \in 1 .. Len(prog) /\ ip' = i + 1 /\ i \in Nat \ {0}
    BY <1>2, <2>1, <2>2
  <2>4. x \in Cells /\ x.op = "docol"
    BY <2>2, InvFacts DEF Prim, Cells, Kinds
  <2>5. new \in Headers /\ new.cfa = Len(mem) + 1 /\ ~new.immediate
    <3>1. prog[i] \in Tokens
      BY <2>3, InvFacts
    <3> QED
      BY <2>2, <3>1 DEF Headers
  <2>6. ~Enclosed(ip)
    <3>1. ip \in Source!Pos /\ Source!Is(ip, {":"})
      BY <2>2, PosFacts
    <3> QED
      BY <2>2, <3>1, ColonOutside
  <2>7. Marking(i) = Marking(ip)
    <3>1. ~Source!Is(ip, Source!Openers) /\ ~Source!Is(ip, Source!Closers) /\ ~Source!Is(ip, {"WHILE"})
      BY <2>2 DEF Source!Is, Source!Openers, Source!Closers
    <3> QED
      BY <2>2, <3>1, MarksStand
  <2>8. Marking(i + 1) = Marking(i)
    BY <2>1, <2>2, <2>3, OtherMarks
  <2>9. LoopsOf(rstk', ip') = L /\ HolesOf(rstk', ip') = W
    <3>1. \A u \in Marking(ip) : MarkAt(rstk', u) = MarkAt(rstk, u)
      BY <2>1
    <3>2. Marking(ip') = Marking(ip)
      BY <2>3, <2>7, <2>8
    <3> QED
      BY <3>1, <3>2, SetsSame
  <2>10. L = {} /\ W = {}
    BY <1>0, <2>2, <2>6, NothingOpen
  <2>11. Led(mem, words, L, W, Enclosed(ip)) /\ Ordered(words) /\ Orderly(mem, words, wp, ip)
    BY DEF Linked
  <2> HIDE DEF L, W, x, new, i
  <2>12. Led(mem, g, L, W, Enclosed(ip))
    BY <2>2, <2>5, <2>6, <2>10, <2>11, LedWord
  <2>13. Ordered(g)
    BY <2>2, <2>5, <2>11, OrderedAppend
  <2>14. Source!Makes => \A k \in 1 .. Len(g) : ~g[k].immediate
    BY <2>2, <2>5, <2>11, PlainAppend DEF Orderly
  <2> HIDE DEF g
  <2>15. x.op \notin Paired /\ x.op # "operand" /\ x.op \notin Source!Creating
    BY <2>4 DEF Paired, Source!Creating
  <2>16. Led(Append(mem, x), g, L, W, Enclosed(ip'))
    BY <2>2, <2>4, <2>12, <2>15, LedPlain
  <2>17. ~Source!Makes => \A c \in 1 .. Len(mem') : mem'[c].op \notin Source!Creating
    <3> DEFINE n == Append(mem, x)
    <3>1. Len(n) = Len(mem) + 1 /\ n[Len(mem) + 1] = x /\ \A c \in 1 .. Len(mem) : n[c] = mem[c]
      BY <2>2, <2>4
    <3> HIDE DEF n
    <3>2. \A c \in 1 .. Len(n) : c \in 1 .. Len(mem) \/ c = Len(mem) + 1
      BY <2>2, <3>1
    <3>3. ~Source!Makes => \A c \in 1 .. Len(n) : n[c].op \notin Source!Creating
      BY <2>11, <2>15, <3>1, <3>2 DEF Orderly
    <3> QED
      BY <2>1, <3>3 DEF n
  <2>18. Orderly(mem', words', wp', ip')
    BY <2>1, <2>2, <2>14, <2>17 DEF Orderly
  <2>19. Led(mem', words', LoopsOf(rstk', ip'), HolesOf(rstk', ip'), Enclosed(ip'))
    BY <2>1, <2>9, <2>16
  <2>20. Ordered(words')
    BY <2>1, <2>13
  <2> QED
    BY <2>1, <2>18, <2>19, <2>20, LinkedFollows
<1> QED
  BY <1>1, <1>2

\* The latest header is marked.
LEMMA LatestIs ==
  ASSUME Inv, words # <<>>, NEW field \in {"hidden", "immediate"}, NEW value \in BOOLEAN,
         OnLatest(field, value)
  PROVE  /\ Len(words') = Len(words) /\ \A k \in 1 .. Len(words) : words'[k].cfa = words[k].cfa
         /\ field = "hidden" =>
              \A k \in 1 .. Len(words) : words'[k].immediate = words[k].immediate
<1> DEFINE n == Len(words)
           r == [words[n] EXCEPT ![field] = value]
           g == [words EXCEPT ![n] = r]
<1>1. words \in Seq(Headers) /\ n \in 1 .. Len(words) /\ words[n] \in Headers
  <2>1. words \in Seq(Headers) /\ Len(words) \in Nat
    BY InvFacts
  <2>2. Len(words) # 0
    BY <2>1
  <2>3. n \in 1 .. Len(words)
    BY <2>1, <2>2
  <2> QED
    BY <2>3, InvFacts
<1>2. /\ r \in Headers /\ r.cfa = words[n].cfa
      /\ field = "hidden" => r.immediate = words[n].immediate
  <2>1. CASE field = "hidden"
    BY <1>1, <2>1 DEF Headers
  <2>2. CASE field = "immediate"
    BY <1>1, <2>2 DEF Headers
  <2> QED
    BY <2>1, <2>2
<1>3. words' = g
  BY <1>1 DEF OnLatest
<1> HIDE DEF r
<1>4. /\ Len(g) = Len(words) /\ g[n] = r
      /\ \A k \in 1 .. Len(words) : k # n => g[k] = words[k]
  BY <1>1, <1>2
<1> HIDE DEF g, n
<1> QED
  BY <1>2, <1>3, <1>4

\* The token that ends a definition.
LEMMA EnderMarks ==
  ASSUME prog \in Programs, NEW i \in 1 .. Len(prog), Ender(i)
  PROVE  Marking(i + 1) = Marking(i)
<1>1. ";" \notin Source!Openers /\ ";" \notin Source!Closers /\ ";" \notin {"WHILE"}
  BY Zenon DEF Source!Openers, Source!Closers
<1>2. ~Source!Is(i, Source!Openers) /\ ~Source!Is(i, Source!Closers) /\ ~Source!Is(i, {"WHILE"})
  BY <1>1, EnderIs, Zenon
<1>3. i \in Nat \ {0}
  BY ProgFacts
<1> QED
  BY <1>2, <1>3, MarksStand

LEMMA SemicolonLinks ==
  ASSUME Inv, Laid, Shape, Linked, Semicolon
  PROVE  Linked'
<1>0. PICK w : Read(w) /\ w = {";"}
  BY Zenon DEF Semicolon
<1>1. CASE words = <<>>
  BY <1>1, StopLinks DEF Semicolon, Laid
<1>2. CASE words # <<>>
  <2> DEFINE x == Prim("EXIT")
  <2>1. /\ Took(1) /\ mem' = Append(mem, x) /\ rstk' = rstk /\ OnLatest("hidden", FALSE)
    BY <1>2 DEF Semicolon
  <2>2. ip \in 1 .. Len(prog) /\ prog[ip] \in w /\ prog \in Programs /\ wp = Interp
    BY <1>0, ReadShape
  <2>3. Ender(ip)
    <3>1. ip \in Source!Pos
      BY <2>2, PosFacts
    <3> QED
      BY <1>0, <2>2, <3>1, Zenon DEF Ender, Source!Is
  <2>4. Marking(ip + 1) = Marking(ip)
    BY <2>2, <2>3, EnderMarks
  <2>5. prog' = prog /\ wp' = Interp /\ Marking(ip') = Marking(ip)
    BY <2>1, <2>2, <2>4 DEF Took
  <2>6. x \in Cells /\ x.op \notin Paired /\ x.op # "operand" /\ x.op \notin Source!Creating
    <3>1. x \in Cells /\ x.op = "EXIT"
      BY <2>2, InvFacts DEF Prim, Cells, Kinds
    <3> HIDE DEF x
    <3> QED
      BY <3>1 DEF Paired, Source!Creating
  <2> HIDE DEF x
  <2>7. /\ Len(words') = Len(words) /\ \A k \in 1 .. Len(words) : words'[k].cfa = words[k].cfa
        /\ \A k \in 1 .. Len(words) : words'[k].immediate = words[k].immediate
    BY <1>2, <2>1, LatestIs
  <2>8. Source!Makes => \A k \in 1 .. Len(words) : ~words'[k].immediate
    BY <2>7 DEF Linked, Orderly
  <2>9. WellBuilt
    BY DEF Laid
  <2> QED
    BY <2>1, <2>5, <2>6, <2>7, <2>8, <2>9, PlainLinks
<1> QED
  BY <1>1, <1>2

LEMMA MarkLinks ==
  ASSUME Inv, Laid, Shape, Linked, Mark
  PROVE  Linked'
<1>0. Read({"IMMEDIATE", "HIDE", "UNHIDE"}) /\ WellBuilt
  BY DEF Mark, Laid
<1>1. CASE words = <<>>
  BY <1>0, <1>1, StopLinks DEF Mark
<1>2. CASE words # <<>>
  <2> DEFINE field == IF Token = "IMMEDIATE" THEN "immediate" ELSE "hidden"
             value == Token # "UNHIDE"
  <2>1. Took(1) /\ mem' = mem /\ rstk' = rstk /\ OnLatest(field, value)
    BY <1>2 DEF Mark
  <2>2. /\ ip \in 1 .. Len(prog) /\ prog[ip] \in {"IMMEDIATE", "HIDE", "UNHIDE"}
        /\ prog \in Programs /\ wp = Interp
    BY <1>0, ReadShape
  <2>3. Token = prog[ip]
    BY <1>0, ReadFacts
  <2>4. Source!Makes => Token # "IMMEDIATE"
    <3>1. ip \in Source!Pos
      BY <2>2, PosFacts
    <3>2. Source!Makes => ~Source!Is(ip, {"[", "IMMEDIATE"})
      BY <3>1 DEF Laid
    <3> QED
      BY <2>3, <3>1, <3>2 DEF Source!Is
  <2>5. field \in {"hidden", "immediate"} /\ value \in BOOLEAN /\ (Source!Makes => field = "hidden")
    BY <2>4
  <2> HIDE DEF field, value
  <2>6. /\ Len(words') = Len(words) /\ \A k \in 1 .. Len(words) : words'[k].cfa = words[k].cfa
        /\ field = "hidden" =>
             \A k \in 1 .. Len(words) : words'[k].immediate = words[k].immediate
    BY <1>2, <2>1, <2>5, LatestIs
  <2>7. Marking(ip + 1) = Marking(ip) /\ (Enclosed(ip + 1) <=> Enclosed(ip))
    BY <2>2, OtherMarks
  <2>8. prog' = prog /\ wp' = Interp /\ ip' = ip + 1
    BY <2>1, <2>2 DEF Took
  <2>9. Orderly(mem, words', wp', ip')
    BY <2>5, <2>6, <2>8 DEF Linked, Orderly
  <2> QED
    BY <1>0, <2>1, <2>6, <2>7, <2>8, <2>9, AgreeSame, SteadyLinks
<1> QED
  BY <1>1, <1>2

LEMMA BracketLinks ==
  ASSUME Inv, Laid, Shape, Linked, Bracket
  PROVE  Linked'
<1>1. Read({"[", "]"}) /\ Took(1) /\ mem' = mem /\ rstk' = rstk /\ words' = words /\ WellBuilt
  BY DEF Bracket, Laid
<1>2. /\ ip \in 1 .. Len(prog) /\ prog[ip] \in {"[", "]"} /\ prog \in Programs /\ wp = Interp
  BY <1>1, ReadShape
<1>3. ip \in Source!Pos /\ ip \in Nat \ {0}
  BY <1>2, PosFacts, ProgFacts
<1>4. /\ ~Source!Is(ip, Source!Openers) /\ ~Source!Is(ip, Source!Closers)
      /\ ~Source!Is(ip, {"WHILE"}) /\ ~Source!Is(ip, {":"})
  BY <1>2 DEF Source!Is, Source!Openers, Source!Closers
<1>5. ~Ender(ip)
  <2>1. Source!Is(ip, {"[", "]"})
    BY <1>2, <1>3 DEF Source!Is
  <2>2. ";" \notin {"[", "]"}
    BY Zenon
  <2> QED
    BY <2>1, <2>2, EnderIs, Zenon
<1>6. Marking(ip + 1) = Marking(ip) /\ (Enclosed(ip + 1) <=> Enclosed(ip))
  BY <1>2, <1>3, <1>4, <1>5, MarksStand, EnclosedSteps
<1>7. prog' = prog /\ wp' = Interp /\ ip' = ip + 1
  BY <1>1, <1>2 DEF Took
<1>8. Orderly(mem, words', wp', ip')
  BY <1>1, <1>7 DEF Linked, Orderly
<1> QED
  BY <1>1, <1>6, <1>7, <1>8, AgreeSame, SteadyLinks

-----------------------------------------------------------------------------
(* Control structures. *)

\* Every header is one of a cell that is there.
LEMMA HeadedIs ==
  ASSUME NEW h, NEW n, Headed(h, n)
  PROVE  h \in Seq(Headers) /\ \A k \in 1 .. Len(h) : h[k].cfa \in 1 .. n
BY DEF Headed

\* A jump back to an open loop.
LEMMA LoopLanding ==
  ASSUME NEW m, NEW h, NEW n \in Nat, Headed(h, n), NEW v, LoopMark(m, h, v),
         NEW a \in Int, n <= a
  PROVE  Lands(m, h, a, v, TRUE)
<1>1. \A k \in 1 .. Len(h) : h[k].cfa \in 1 .. n
  BY HeadedIs
<1>2. Landing(m, v) /\ \A k \in 1 .. Len(h) : h[k].cfa < v
  BY DEF LoopMark, Above
<1>3. \A k \in 1 .. Len(h) : h[k].cfa <= a /\ h[k].cfa # v
  BY <1>1, <1>2
<1>4. Together(h, a, v)
  BY <1>2, <1>3 DEF Together
<1> QED
  BY <1>2, <1>4 DEF Lands

\* A waiting operand gets the address of the cell that comes next.
LEMMA LedFilled ==
  ASSUME NEW m \in Seq(Cells), NEW h, NEW L, NEW W, NEW d, Led(m, h, L, W, d), d,
         NEW n \in Nat, Headed(h, n), n <= Len(m), NEW w \in W,
         NEW V, V \subseteq W, W \ {w} \subseteq V, NEW v, v = Len(m) + 1
  PROVE  w \in 1 .. Len(m) /\ Led(Patch(m, w, v), h, L, V, d)
<1>1. Above(h, w) /\ w \in 1 .. Len(m) /\ m[w].op = "operand" /\ Len(m) \in Nat
  BY DEF Led, JumpMark
<1>2. \A k \in 1 .. Len(h) : h[k].cfa \in 1 .. n
  BY HeadedIs
<1>3. \A k \in 1 .. Len(h) : h[k].cfa <= w - 1 /\ h[k].cfa < v /\ h[k].cfa # v
  BY <1>1, <1>2 DEF Above
<1>4. Together(h, w - 1, v)
  BY <1>3 DEF Together
<1>5. Landing(m, v) /\ v \in Int
  BY <1>1 DEF Landing
<1>6. Lands(m, h, w - 1, v, d)
  BY <1>4, <1>5 DEF Lands
<1> QED
  BY <1>1, <1>5, <1>6, LedPatched

\* No cell makes words.
Quiet(m) == \A c \in 1 .. Len(m) : m[c].op \notin Source!Creating

LEMMA QuietCat ==
  ASSUME NEW m \in Seq(Cells), NEW t \in Seq(Cells), Quiet(m), Quiet(t)
  PROVE  Quiet(m \o t)
<1>0. PICK n : n = m \o t
  OBVIOUS
<1>1. /\ Len(n) = Len(m) + Len(t) /\ Len(m) \in Nat /\ Len(t) \in Nat
      /\ \A a \in 1 .. Len(m) : n[a] = m[a]
      /\ \A b \in 1 .. Len(t) : n[Len(m) + b] = t[b]
  BY <1>0, CatIs
<1>2. ASSUME NEW c \in 1 .. Len(n) PROVE n[c].op \notin Source!Creating
  <2>1. CASE c \in 1 .. Len(m)
    BY <1>1, <2>1 DEF Quiet
  <2>2. CASE c \notin 1 .. Len(m)
    <3> DEFINE b == c - Len(m)
    <3>1. b \in 1 .. Len(t) /\ c = Len(m) + b
      BY <1>1, <2>2
    <3> HIDE DEF b
    <3> QED
      BY <1>1, <3>1 DEF Quiet
  <2> QED
    BY <2>1, <2>2
<1>3. Quiet(n)
  BY <1>2 DEF Quiet
<1> QED
  BY <1>0, <1>3

LEMMA QuietPatch ==
  ASSUME NEW m \in Seq(Cells), NEW w \in 1 .. Len(m), NEW v \in Int, Quiet(m)
  PROVE  Quiet(Patch(m, w, v))
<1> DEFINE n == Patch(m, w, v)
<1>1. /\ Len(n) = Len(m) /\ n[w].op = "operand"
      /\ \A a \in 1 .. Len(m) : a # w => n[a] = m[a]
  BY PatchIs
<1> HIDE DEF n
<1>2. \A c \in 1 .. Len(n) : n[c].op \notin Source!Creating
  BY <1>1 DEF Quiet, Source!Creating
<1> QED
  BY <1>2 DEF Quiet, n

\* The cells of control structures.
LEMMA JumpCells ==
  ASSUME Inv, ip \in 1 .. Len(prog), NEW op \in {"?FALSE", "?TRUE", "JUMP", "?JUMP"}, NEW a \in Int
  PROVE  /\ Prim(op) \in Cells /\ Prim(op).op = op
         /\ Operand(a) \in Cells /\ Operand(a).op = "operand" /\ Operand(a).arg = a
         /\ Quiet(<<Prim(op)>>) /\ Quiet(<<Prim(op), Operand(a)>>)
<1>1. Prim(op) \in Cells /\ Prim(op).op = op
  BY InvFacts DEF Prim, Cells, Kinds
<1>2. Operand(a) \in Cells /\ Operand(a).op = "operand" /\ Operand(a).arg = a
  BY InvFacts DEF Operand, Cells, Kinds
<1>3. ASSUME NEW x, NEW y, x.op = op, y.op = "operand"
      PROVE  Quiet(<<x>>) /\ Quiet(<<x, y>>)
  <2>1. x.op \notin Source!Creating /\ y.op \notin Source!Creating
    BY <1>3 DEF Source!Creating
  <2>2. \A c \in 1 .. 2 : c = 1 \/ c = 2
    OBVIOUS
  <2> QED
    BY <2>1, <2>2 DEF Quiet
<1> QED
  BY <1>1, <1>2, <1>3

\* Where a token of a structure is read.
LEMMA StructureSteps ==
  ASSUME Inv, WellBuilt, Shape, Linked, NEW w, Read(w), w \subseteq Source!Structure
  PROVE  /\ ip \in 1 .. Len(prog) /\ ip \in Source!Pos /\ ip \in Nat \ {0} /\ ip + 1 \in Nat \ {0}
         /\ prog \in Programs /\ prog[ip] \in w /\ wp = Interp /\ Token = prog[ip]
         /\ \A S : prog[ip] \in S => Source!Is(ip, S)
         /\ Enclosed(ip) /\ Enclosed(ip + 1)
         /\ rstk \in Seq(Int) /\ Len(rstk) <= Source!Open(ip) + 2 /\ Len(rstk) >= Source!Open(ip) + 2
         /\ Source!Open(ip) \in Nat /\ Source!Open(ip + 1) \in Nat
         /\ mem \in Seq(Cells) /\ Headed(words, Len(mem)) /\ Here = Len(mem) + 1 /\ Len(mem) \in Nat
         /\ Led(mem, words, LoopsOf(rstk, ip), HolesOf(rstk, ip), Enclosed(ip))
         /\ ~Source!Makes => Quiet(mem)
<1>1. /\ ip \in 1 .. Len(prog) /\ prog[ip] \in w /\ prog \in Programs /\ wp = Interp
      /\ rstk \in Seq(Int) /\ Source!Open(ip) \in Nat
      /\ mem \in Seq(Cells) /\ Here = Len(mem) + 1 /\ Len(mem) \in Nat
  BY ReadShape
<1>11. Len(rstk) <= Source!Open(ip) + 2 /\ Len(rstk) >= Source!Open(ip) + 2
  <2>1. Len(rstk) = Source!Open(ip) + 2
    BY ReadShape
  <2> QED
    BY <1>1, <2>1
<1>2. ip \in Source!Pos /\ ip \in Nat \ {0} /\ ip + 1 \in Nat \ {0}
  BY <1>1, PosFacts
<1>3. \A S : prog[ip] \in S => Source!Is(ip, S)
  BY <1>2 DEF Source!Is
<1>4. Source!Is(ip, Source!Structure)
  BY <1>1, <1>3
<1>5. Enclosed(ip)
  <2>1. PICK k, e \in Nat : /\ k < ip /\ ip < e /\ k # 0 /\ Source!Is(k, {":"})
                            /\ \A j \in k + 1 .. e - 1 : ~Ender(j)
    BY <1>1, <1>2, <1>4, StructureLies
  <2>2. k \in 1 .. ip - 1 /\ \A j \in k + 1 .. ip - 1 : j \in k + 1 .. e - 1
    BY <1>2, <2>1
  <2> QED
    BY <2>1, <2>2, EnclosedIs
<1>6. ~Ender(ip)
  <2>1. ";" \notin Source!Structure
    BY Zenon DEF Source!Structure, Source!Openers, Source!Closers
  <2> QED
    BY <1>4, <2>1, EnderIs, Zenon
<1>7. ~Source!Is(ip, {":"})
  BY <1>4 DEF Source!Is, Source!Structure, Source!Openers, Source!Closers
<1>8. Enclosed(ip + 1)
  BY <1>1, <1>2, <1>5, <1>6, <1>7, EnclosedSteps
<1>9. Token = prog[ip] /\ Headed(words, Len(mem)) /\ Source!Open(ip + 1) \in Nat
  BY <1>1, <1>2, ReadFacts, InvFacts, OpenIsNat
<1>10. /\ Led(mem, words, LoopsOf(rstk, ip), HolesOf(rstk, ip), Enclosed(ip))
       /\ ~Source!Makes => Quiet(mem)
  <2>1. Orderly(mem, words, wp, ip)
    BY DEF Linked
  <2>2. ~Source!Makes => \A c \in 1 .. Len(mem) : mem[c].op \notin Source!Creating
    BY <2>1 DEF Orderly
  <2> QED
    BY <2>2 DEF Linked, Quiet
<1> QED
  BY <1>1, <1>2, <1>3, <1>5, <1>8, <1>9, <1>10, <1>11, Zenon

\* A token of a structure leaves the words.
LEMMA StructureLinks ==
  ASSUME Inv, WellBuilt, Shape, Linked, NEW w, Read(w), w \subseteq Source!Structure,
         Took(1), words' = words, ~Source!Makes => Quiet(mem'),
         Led(mem', words, LoopsOf(rstk', ip + 1), HolesOf(rstk', ip + 1), Enclosed(ip))
  PROVE  Linked'
<1>1. Enclosed(ip) /\ Enclosed(ip + 1) /\ wp = Interp
  BY StructureSteps
<1>2. prog' = prog /\ ip' = ip + 1 /\ wp' = Interp
  BY <1>1 DEF Took
<1>3. Led(mem', words', LoopsOf(rstk', ip'), HolesOf(rstk', ip'), Enclosed(ip'))
  <2>1. Enclosed(ip) => Enclosed(ip + 1)
    BY <1>1
  <2>2. Led(mem', words, LoopsOf(rstk', ip + 1), HolesOf(rstk', ip + 1), Enclosed(ip + 1))
    BY <2>1, LedCloses
  <2> QED
    BY <1>2, <2>2
<1>4. Ordered(words')
  BY DEF Linked
<1>5. Orderly(mem', words', wp', ip')
  BY <1>2 DEF Linked, Orderly, Quiet
<1> QED
  BY <1>2, <1>3, <1>4, <1>5, LinkedFollows

\* A jump back to an open loop, or on to an address it waits for.
LEMMA LedMark ==
  ASSUME NEW m \in Seq(Cells), NEW h, NEW L, NEW W, NEW d, Led(m, h, L, W, d),
         Headed(h, Len(m)), NEW y \in Cells, NEW z \in Cells, y.op \in {"JUMP", "?JUMP"},
         z.op = "operand", NEW V, W \subseteq V, V \ W \subseteq {Len(m) + 2},
         Len(m) + 2 \in V \/ z.arg \in L
  PROVE  Led(m \o <<y, z>>, h, L, V, d)
<1> DEFINE t == <<y, z>>
<1>1. t \in Seq(Cells) /\ Len(t) <= 2 /\ Len(t) >= 2 /\ t[1] = y /\ t[2] = z
  OBVIOUS
<1> HIDE DEF t
<1>2. Len(m) \in Nat /\ Len(m) + 1 \in Int /\ Len(m) <= Len(m) + 1
  OBVIOUS
<1>3. CASE z.arg \in L
  <2> DEFINE v == z.arg
  <2>1. LoopMark(m, h, v)
    BY <1>3 DEF Led
  <2>2. Lands(m, h, Len(m) + 1, v, TRUE)
    BY <1>2, <2>1, LoopLanding
  <2>3. v \in 1 .. Len(m) + 1
    BY <2>1 DEF LoopMark, Landing
  <2>4. v <= Len(m) + 1 /\ v = t[2].arg
    BY <1>1, <1>2, <2>3
  <2> HIDE DEF v
  <2>5. Lands(m, h, Len(m) + 1, t[2].arg, TRUE) /\ t[2].arg <= Len(m) + 1
    BY <2>2, <2>4
  <2>6. Led(m \o t, h, L, V, d)
    BY <1>1, <2>5, LedJump
  <2> QED
    BY <2>6 DEF t
<1>4. CASE Len(m) + 2 \in V
  <2>1. Led(m \o t, h, L, V, d)
    BY <1>1, <1>4, LedJump
  <2> QED
    BY <2>1 DEF t
<1> QED
  BY <1>3, <1>4

\* The same behind a test.
LEMMA LedTest ==
  ASSUME NEW m \in Seq(Cells), NEW h, NEW L, NEW W, NEW d, Led(m, h, L, W, d),
         Headed(h, Len(m)), NEW x \in Cells, NEW y \in Cells, NEW z \in Cells,
         x.op \in {"?FALSE", "?TRUE"}, y.op \in {"JUMP", "?JUMP"}, z.op = "operand",
         NEW V, W \subseteq V, V \ W \subseteq {Len(m) + 3}, Len(m) + 3 \in V \/ z.arg \in L
  PROVE  Led(m \o <<x, y, z>>, h, L, V, d)
<1>0. PICK n : n = Append(m, x)
  OBVIOUS
<1>1. n \in Seq(Cells) /\ Len(n) = Len(m) + 1 /\ Len(m) \in Nat
  BY <1>0, CellsIn
<1>2. x.op \notin Paired /\ x.op # "operand"
  BY DEF Paired
<1>3. Led(n, h, L, W, d)
  BY <1>0, <1>2, LedPlain
<1>4. Headed(h, Len(n))
  BY <1>1, HeadedGrows
<1>5. Len(n) + 2 = Len(m) + 3
  BY <1>1
<1>6. Led(n \o <<y, z>>, h, L, V, d)
  BY <1>1, <1>3, <1>4, <1>5, LedMark
<1>7. m \o <<x, y, z>> = n \o <<y, z>>
  BY <1>0, CellsIn
<1> QED
  BY <1>6, <1>7

\* A mark is pushed.
Pushed(t, v, s) == t = <<v>> \o s

LEMMA LoopPushed ==
  ASSUME WellBuilt, prog \in Programs, NEW i \in Nat \ {0}, NEW s \in Seq(Int),
         Len(s) <= Source!Open(i) + 2, Len(s) >= Source!Open(i) + 2, NEW v \in Int, NEW t,
         Pushed(t, v, s), Marking(i + 1) = Marking(i) \union {i}, prog[i] = "BEGIN"
  PROVE  (\A x \in LoopsOf(t, i + 1) : x \in LoopsOf(s, i) \/ x = v)
         /\ HolesOf(t, i + 1) = HolesOf(s, i)
<1>1. t = <<v>> \o s
  BY DEF Pushed
<1> QED
  BY <1>1, MarksPushed

LEMMA HolePushed ==
  ASSUME WellBuilt, prog \in Programs, NEW i \in Nat \ {0}, NEW s \in Seq(Int),
         Len(s) <= Source!Open(i) + 2, Len(s) >= Source!Open(i) + 2, NEW v \in Int, NEW t,
         Pushed(t, v, s), Marking(i + 1) = Marking(i) \union {i}, prog[i] # "BEGIN"
  PROVE  /\ LoopsOf(t, i + 1) = LoopsOf(s, i) /\ HolesOf(s, i) \subseteq HolesOf(t, i + 1)
         /\ HolesOf(t, i + 1) \ HolesOf(s, i) \subseteq {v} /\ v \in HolesOf(t, i + 1)
<1>1. t = <<v>> \o s
  BY DEF Pushed
<1>2. LoopsOf(t, i + 1) = LoopsOf(s, i) /\ HolesOf(s, i) \subseteq HolesOf(t, i + 1)
      /\ HolesOf(t, i + 1) \ HolesOf(s, i) \subseteq {v}
  BY <1>1, MarksPushed
<1> DEFINE o == Source!Open(i)
<1>3. o \in Nat /\ Len(s) \in Nat /\ Len(s) <= o + 2 /\ Len(s) >= o + 2
  BY OpenIsNat
<1>4. t[Len(t) - Len(s)] = v
  BY <1>1, PushIndex
<1>5. o + 2 = Len(s)
  BY <1>3
<1> HIDE DEF o
<1>6. t[Len(t) - (o + 2)] = v
  BY <1>4, <1>5
<1>7. MarkAt(t, i) = v
  BY <1>6 DEF MarkAt, o
<1>8. v \in HolesOf(t, i + 1)
  <2>1. i \in Marking(i + 1)
    OBVIOUS
  <2>2. MarkAt(t, i) \in HolesOf(t, i + 1)
    BY <2>1, MarkSets
  <2> QED
    BY <1>7, <2>2
<1> QED
  BY <1>2, <1>8

LEMMA TestLinks ==
  ASSUME Inv, WellBuilt, Shape, Linked, NEW w, Read(w), w \subseteq {"IF", "UNLESS", "WHILE"},
         Took(1), words' = words, NEW op \in {"?FALSE", "?TRUE"},
         mem' = mem \o <<Prim(op), Prim("?JUMP"), Operand(0)>>, Pushed(rstk', Here + 2, rstk)
  PROVE  Linked'
<1> DEFINE L == LoopsOf(rstk, ip)
           W == HolesOf(rstk, ip)
           K == LoopsOf(rstk', ip + 1)
           V == HolesOf(rstk', ip + 1)
           v == Here + 2
           x == Prim(op)
           y == Prim("?JUMP")
           z == Operand(0)
<1>0. w \subseteq Source!Structure
  BY DEF Source!Structure, Source!Openers
<1>1. /\ ip \in 1 .. Len(prog) /\ ip \in Source!Pos /\ ip \in Nat \ {0}
      /\ prog \in Programs /\ prog[ip] \in w /\ \A S : prog[ip] \in S => Source!Is(ip, S)
      /\ rstk \in Seq(Int) /\ Len(rstk) <= Source!Open(ip) + 2 /\ Len(rstk) >= Source!Open(ip) + 2
      /\ mem \in Seq(Cells) /\ Headed(words, Len(mem)) /\ Here = Len(mem) + 1 /\ Len(mem) \in Nat
      /\ Led(mem, words, L, W, Enclosed(ip)) /\ (~Source!Makes => Quiet(mem))
  BY <1>0, StructureSteps
<1>2. Marking(ip + 1) = Marking(ip) \union {ip}
  <2>1. prog[ip] \in Source!Openers \union {"WHILE"}
    BY <1>1 DEF Source!Openers
  <2>2. Source!Is(ip, Source!Openers \union {"WHILE"})
    BY <1>1, <2>1
  <2> QED
    BY <1>1, <2>2, MarksOpen
<1>3. v \in Int /\ v = Len(mem) + 3
  BY <1>1
<1>6. Pushed(rstk', v, rstk)
  OBVIOUS
<1> HIDE DEF v
<1>4. prog[ip] # "BEGIN"
  BY <1>1
<1>5. K = L /\ W \subseteq V /\ V \ W \subseteq {v} /\ v \in V
  BY <1>1, <1>2, <1>3, <1>4, <1>6, HolePushed
<1>7. /\ x \in Cells /\ y \in Cells /\ z \in Cells /\ x.op = op /\ y.op = "?JUMP"
      /\ z.op = "operand" /\ Quiet(<<x>>) /\ Quiet(<<y, z>>)
  <2>1. PICK a \in Int : a = 0
    OBVIOUS
  <2>2. PICK o \in {"?FALSE", "?TRUE", "JUMP", "?JUMP"} : o = "?JUMP"
    OBVIOUS
  <2>3. Prim(op) \in Cells /\ Prim(op).op = op /\ Quiet(<<Prim(op)>>)
    BY <1>1, JumpCells
  <2>4. /\ Prim(o) \in Cells /\ Prim(o).op = o /\ Operand(a) \in Cells
        /\ Operand(a).op = "operand" /\ Quiet(<<Prim(o), Operand(a)>>)
    BY <1>1, JumpCells
  <2> QED
    BY <2>1, <2>2, <2>3, <2>4
<1> HIDE DEF K, L, V, W, x, y, z
<1>8. Led(mem \o <<x, y, z>>, words, L, V, Enclosed(ip))
  BY <1>1, <1>3, <1>5, <1>7, LedTest
<1>9. ~Source!Makes => Quiet(mem \o <<x, y, z>>)
  <2> DEFINE m == mem
  <2>1. mem \o <<x, y, z>> = Append(mem, x) \o <<y, z>> /\ Append(mem, x) = mem \o <<x>>
        /\ Append(mem, x) \in Seq(Cells) /\ <<x>> \in Seq(Cells) /\ <<y, z>> \in Seq(Cells)
    <3>1. m \o <<x, y, z>> = Append(m, x) \o <<y, z>> /\ Append(m, x) \in Seq(Cells)
      BY <1>1, <1>7, CellsIn DEF m
    <3>2. m \in Seq(Cells)
      BY <1>1 DEF m
    <3> HIDE DEF m
    <3>3. Append(m, x) = m \o <<x>> /\ <<x>> \in Seq(Cells) /\ <<y, z>> \in Seq(Cells)
      BY <1>7, <3>2
    <3> QED
      BY <3>1, <3>3 DEF m
  <2>2. ~Source!Makes => Quiet(Append(mem, x))
    BY <1>1, <1>7, <2>1, QuietCat
  <2> QED
    BY <1>7, <2>1, <2>2, QuietCat
<1>10. mem' = mem \o <<x, y, z>>
  BY DEF x, y, z
<1>11. ~Source!Makes => Quiet(mem')
  BY <1>9, <1>10
<1>12. Led(mem', words, K, V, Enclosed(ip))
  BY <1>5, <1>8, <1>10
<1>13. Led(mem', words, LoopsOf(rstk', ip + 1), HolesOf(rstk', ip + 1), Enclosed(ip))
  BY <1>12 DEF K, V
<1> QED
  BY <1>0, <1>11, <1>13, StructureLinks

LEMMA IfLinks ==
  ASSUME Inv, Laid, Shape, Linked, If
  PROVE  Linked'
<1>0. Read({"IF", "UNLESS"}) /\ WellBuilt
  BY DEF If, Laid
<1>1. CASE ~RoomOnReturn
  BY <1>0, <1>1, StopLinks DEF If
<1>2. CASE RoomOnReturn
  <2> DEFINE op == IF Token = "IF" THEN "?FALSE" ELSE "?TRUE"
  <2>1. /\ Took(1) /\ mem' = mem \o <<Prim(op), Prim("?JUMP"), Operand(0)>>
        /\ Pushed(rstk', Here + 2, rstk) /\ words' = words
    BY <1>2 DEF If, Pushed
  <2>2. op \in {"?FALSE", "?TRUE"}
    OBVIOUS
  <2> HIDE DEF op
  <2>3. {"IF", "UNLESS"} \subseteq {"IF", "UNLESS", "WHILE"}
    OBVIOUS
  <2> QED
    BY <1>0, <2>1, <2>2, <2>3, TestLinks
<1> QED
  BY <1>1, <1>2

LEMMA WhileLinks ==
  ASSUME Inv, Laid, Shape, Linked, While
  PROVE  Linked'
<1>0. Read({"WHILE"}) /\ WellBuilt
  BY DEF While, Laid
<1>1. CASE ~RoomOnReturn
  BY <1>0, <1>1, StopLinks DEF While
<1>2. CASE RoomOnReturn
  <2>1. /\ Took(1) /\ mem' = mem \o <<Prim("?FALSE"), Prim("?JUMP"), Operand(0)>>
        /\ Pushed(rstk', Here + 2, rstk) /\ words' = words
    BY <1>2 DEF While, Pushed
  <2>2. {"WHILE"} \subseteq {"IF", "UNLESS", "WHILE"}
    OBVIOUS
  <2> QED
    BY <1>0, <2>1, <2>2, TestLinks
<1> QED
  BY <1>1, <1>2

LEMMA BeginLinks ==
  ASSUME Inv, Laid, Shape, Linked, Begin
  PROVE  Linked'
<1>0. Read({"BEGIN"}) /\ WellBuilt
  BY DEF Begin, Laid
<1>1. CASE ~RoomOnReturn
  BY <1>0, <1>1, StopLinks DEF Begin
<1>2. CASE RoomOnReturn
  <2> DEFINE L == LoopsOf(rstk, ip)
             W == HolesOf(rstk, ip)
             K == LoopsOf(rstk', ip + 1)
             V == HolesOf(rstk', ip + 1)
             v == Here
  <2>1. Took(1) /\ mem' = mem /\ rstk' = <<Here>> \o rstk /\ words' = words
    BY <1>2 DEF Begin
  <2>2. {"BEGIN"} \subseteq Source!Structure
    BY DEF Source!Structure, Source!Openers
  <2>3. /\ ip \in Source!Pos /\ ip \in Nat \ {0}
        /\ prog \in Programs /\ prog[ip] = "BEGIN" /\ \A S : prog[ip] \in S => Source!Is(ip, S)
        /\ rstk \in Seq(Int) /\ Len(rstk) <= Source!Open(ip) + 2 /\ Len(rstk) >= Source!Open(ip) + 2
        /\ mem \in Seq(Cells) /\ Headed(words, Len(mem)) /\ Here = Len(mem) + 1 /\ Len(mem) \in Nat
        /\ Led(mem, words, L, W, Enclosed(ip)) /\ (~Source!Makes => Quiet(mem))
    BY <1>0, <2>2, StructureSteps
  <2>4. Marking(ip + 1) = Marking(ip) \union {ip}
    <3>1. prog[ip] \in Source!Openers \union {"WHILE"}
      BY <2>3 DEF Source!Openers
    <3>2. Source!Is(ip, Source!Openers \union {"WHILE"})
      BY <2>3, <3>1
    <3> QED
      BY <1>0, <2>3, <3>2, MarksOpen
  <2>5. v \in Int /\ v = Len(mem) + 1 /\ Pushed(rstk', v, rstk)
    BY <2>1, <2>3 DEF Pushed
  <2> HIDE DEF v
  <2>6. (\A a \in K : a \in L \/ a = v) /\ V = W
    BY <1>0, <2>3, <2>4, <2>5, LoopPushed
  <2>7. LoopMark(mem, words, v)
    <3>1. Above(words, v)
      BY <2>3, <2>5, AboveHere
    <3>2. Landing(mem, v)
      BY <2>3, <2>5 DEF Landing
    <3> QED
      BY <3>1, <3>2 DEF LoopMark
  <2>8. \A a \in K : a \in L \/ LoopMark(mem, words, a)
    BY <2>6, <2>7
  <2> HIDE DEF K, L, V, W
  <2>9. Led(mem, words, K, W, Enclosed(ip))
    BY <2>3, <2>8, LedLoops
  <2>10. Led(mem', words, LoopsOf(rstk', ip + 1), HolesOf(rstk', ip + 1), Enclosed(ip))
    BY <2>1, <2>6, <2>9 DEF K, V
  <2>11. ~Source!Makes => Quiet(mem')
    BY <2>1, <2>3
  <2> QED
    BY <1>0, <2>1, <2>2, <2>10, <2>11, StructureLinks
<1> QED
  BY <1>1, <1>2

\* Fewer loops are open.
LEMMA LedFewer ==
  ASSUME NEW m, NEW h, NEW L, NEW W, NEW d, Led(m, h, L, W, d), NEW K, K \subseteq L
  PROVE  Led(m, h, K, W, d)
<1>1. \A v \in K : v \in L \/ LoopMark(m, h, v)
  OBVIOUS
<1> QED
  BY <1>1, LedLoops

\* Marks are taken.
Popped(t, s) == t = Tail(s)

LEMMA HolePopped ==
  ASSUME WellBuilt, prog \in Programs, NEW i \in Source!Pos, Source!Is(i, Source!Closers),
         prog[i] = "THEN", NEW s \in Seq(Int), Len(s) <= Source!Open(i) + 2,
         Len(s) >= Source!Open(i) + 2, NEW t, Popped(t, s)
  PROVE  /\ LoopsOf(t, i + 1) \subseteq LoopsOf(s, i) /\ HolesOf(t, i + 1) \subseteq HolesOf(s, i)
         /\ Head(s) \in HolesOf(s, i) /\ HolesOf(s, i) \ {Head(s)} \subseteq HolesOf(t, i + 1)
<1>1. t = Tail(s)
  BY DEF Popped
<1>2. prog[i] # "REPEAT"
  OBVIOUS
<1> QED
  BY <1>1, <1>2, MarksTaken

LEMMA LoopPopped ==
  ASSUME WellBuilt, prog \in Programs, NEW i \in Source!Pos, Source!Is(i, Source!Closers),
         prog[i] \in {"AGAIN", "UNTIL"}, NEW s \in Seq(Int), Len(s) <= Source!Open(i) + 2,
         Len(s) >= Source!Open(i) + 2, NEW t, Popped(t, s)
  PROVE  /\ LoopsOf(t, i + 1) \subseteq LoopsOf(s, i) /\ HolesOf(t, i + 1) = HolesOf(s, i)
         /\ Head(s) \in LoopsOf(s, i) /\ Head(s) \in Int
<1>1. t = Tail(s)
  BY DEF Popped
<1>2. prog[i] # "REPEAT" /\ prog[i] # "THEN"
  OBVIOUS
<1>3. /\ LoopsOf(t, i + 1) \subseteq LoopsOf(s, i) /\ HolesOf(t, i + 1) = HolesOf(s, i)
      /\ Head(s) \in LoopsOf(s, i)
  BY <1>1, <1>2, MarksTaken
<1>4. Head(s) \in Int
  <2>1. i \in Nat \ {0}
    BY PosFacts
  <2>2. Source!Open(i) \in Nat
    BY <2>1, OpenIsNat
  <2>3. s # <<>>
    BY <2>2
  <2> QED
    BY <2>3
<1> QED
  BY <1>3, <1>4

LEMMA ThenLinks ==
  ASSUME Inv, Laid, Shape, Linked, Then
  PROVE  Linked'
<1>0. Read({"THEN"}) /\ WellBuilt
  BY DEF Then, Laid
<1>1. CASE rstk = <<>>
  BY <1>0, <1>1, StopLinks DEF Then
<1>2. CASE rstk # <<>> /\ ~Writable(Head(rstk))
  BY <1>0, <1>2, StopLinks DEF Then
<1>3. CASE rstk # <<>> /\ Writable(Head(rstk))
  <2> DEFINE L == LoopsOf(rstk, ip)
             W == HolesOf(rstk, ip)
             K == LoopsOf(rstk', ip + 1)
             V == HolesOf(rstk', ip + 1)
             w == Head(rstk)
  <2>1. Took(1) /\ mem' = Patch(mem, w, Here) /\ Popped(rstk', rstk) /\ words' = words
    BY <1>3 DEF Then, Popped
  <2>2. {"THEN"} \subseteq Source!Structure
    BY DEF Source!Structure, Source!Closers
  <2>3. /\ ip \in Source!Pos /\ prog \in Programs /\ prog[ip] = "THEN"
        /\ \A S : prog[ip] \in S => Source!Is(ip, S)
        /\ rstk \in Seq(Int) /\ Len(rstk) <= Source!Open(ip) + 2 /\ Len(rstk) >= Source!Open(ip) + 2
        /\ mem \in Seq(Cells) /\ Headed(words, Len(mem)) /\ Here = Len(mem) + 1 /\ Len(mem) \in Nat
        /\ Led(mem, words, L, W, Enclosed(ip)) /\ Enclosed(ip) /\ (~Source!Makes => Quiet(mem))
    BY <1>0, <2>2, StructureSteps
  <2>4. Source!Is(ip, Source!Closers)
    BY <2>3 DEF Source!Closers
  <2>5. K \subseteq L /\ V \subseteq W /\ w \in W /\ W \ {w} \subseteq V
    BY <1>0, <2>1, <2>3, <2>4, HolePopped
  <2> HIDE DEF K, L, V, W, w
  <2>6. w \in 1 .. Len(mem) /\ Led(Patch(mem, w, Here), words, L, V, Enclosed(ip))
    <3>1. Len(mem) <= Len(mem)
      BY <2>3
    <3> QED
      BY <2>3, <2>5, <3>1, LedFilled
  <2>7. Led(mem', words, K, V, Enclosed(ip))
    BY <2>1, <2>5, <2>6, LedFewer
  <2>8. Led(mem', words, LoopsOf(rstk', ip + 1), HolesOf(rstk', ip + 1), Enclosed(ip))
    BY <2>7 DEF K, V
  <2>9. ~Source!Makes => Quiet(mem')
    <3>1. Here \in Int
      BY <2>3
    <3> QED
      BY <2>1, <2>3, <2>6, <3>1, QuietPatch
  <2> QED
    BY <1>0, <2>1, <2>2, <2>8, <2>9, StructureLinks
<1> QED
  BY <1>1, <1>2, <1>3

LEMMA TestCells ==
  ASSUME NEW m \in Seq(Cells), NEW x \in Cells, NEW y \in Cells, NEW z \in Cells
  PROVE  /\ m \o <<x, y>> \o <<z>> = m \o <<x, y, z>>
         /\ m \o <<x, y>> \o <<z>> = Append(m, x) \o <<y, z>>
         /\ Append(m, x) \in Seq(Cells)
BY CellsIn

LEMMA LoopLinks ==
  ASSUME Inv, Laid, Shape, Linked, Loop
  PROVE  Linked'
<1>0. Read({"AGAIN", "UNTIL"}) /\ WellBuilt
  BY DEF Loop, Laid
<1>1. CASE rstk = <<>>
  BY <1>0, <1>1, StopLinks DEF Loop
<1>2. CASE rstk # <<>>
  <2> DEFINE L == LoopsOf(rstk, ip)
             W == HolesOf(rstk, ip)
             K == LoopsOf(rstk', ip + 1)
             V == HolesOf(rstk', ip + 1)
             a == Head(rstk)
             code == IF Token = "AGAIN" THEN <<Prim("JUMP")>> ELSE <<Prim("?FALSE"), Prim("?JUMP")>>
  <2>1. Took(1) /\ mem' = mem \o code \o <<Operand(a)>> /\ Popped(rstk', rstk) /\ words' = words
    BY <1>2 DEF Loop, Popped
  <2>2. {"AGAIN", "UNTIL"} \subseteq Source!Structure
    BY DEF Source!Structure, Source!Closers
  <2>3. /\ ip \in 1 .. Len(prog) /\ ip \in Source!Pos /\ prog \in Programs /\ Token = prog[ip]
        /\ prog[ip] \in {"AGAIN", "UNTIL"} /\ \A S : prog[ip] \in S => Source!Is(ip, S)
        /\ rstk \in Seq(Int) /\ Len(rstk) <= Source!Open(ip) + 2 /\ Len(rstk) >= Source!Open(ip) + 2
        /\ mem \in Seq(Cells) /\ Headed(words, Len(mem)) /\ Len(mem) \in Nat
        /\ Led(mem, words, L, W, Enclosed(ip)) /\ (~Source!Makes => Quiet(mem))
    BY <1>0, <2>2, StructureSteps
  <2>4. Source!Is(ip, Source!Closers)
    BY <2>3 DEF Source!Closers
  <2>5. K \subseteq L /\ V = W /\ a \in L /\ a \in Int
    BY <1>0, <2>1, <2>3, <2>4, LoopPopped
  <2> HIDE DEF K, L, V, W, a
  <2> DEFINE z == Operand(a)
  <2>6. z \in Cells /\ z.op = "operand" /\ z.arg = a
    BY <2>3, <2>5, JumpCells
  <2>7. W \subseteq V /\ \A x : V \ W \subseteq {x}
    BY <2>5
  <2>10. Led(mem', words, L, V, Enclosed(ip)) /\ (~Source!Makes => Quiet(mem'))
    <3>1. CASE Token = "AGAIN"
      <4> DEFINE y == Prim("JUMP")
      <4>1. PICK o \in {"?FALSE", "?TRUE", "JUMP", "?JUMP"} : o = "JUMP"
        OBVIOUS
      <4>2. Prim(o) \in Cells /\ Prim(o).op = o /\ Quiet(<<Prim(o), z>>)
        BY <2>3, <2>5, JumpCells
      <4>3. y \in Cells /\ y.op = "JUMP" /\ Quiet(<<y, z>>)
        BY <4>1, <4>2
      <4>4. mem' = mem \o <<y>> \o <<z>>
        BY <2>1, <3>1
      <4> HIDE DEF y, z
      <4>5. mem' = mem \o <<y, z>>
        BY <2>3, <2>6, <4>3, <4>4, CellsIn
      <4>6. Led(mem \o <<y, z>>, words, L, V, Enclosed(ip))
        BY <2>3, <2>5, <2>6, <2>7, <4>3, LedMark
      <4>7. <<y, z>> \in Seq(Cells)
        BY <2>6, <4>3
      <4>8. ~Source!Makes => Quiet(mem')
        BY <2>3, <4>3, <4>5, <4>7, QuietCat
      <4> QED
        BY <4>5, <4>6, <4>8, Zenon
    <3>2. CASE Token # "AGAIN"
      <4> DEFINE x == Prim("?FALSE")
                 y == Prim("?JUMP")
      <4>1. PICK o, p \in {"?FALSE", "?TRUE", "JUMP", "?JUMP"} : o = "?JUMP" /\ p = "?FALSE"
        OBVIOUS
      <4>2. /\ Prim(o) \in Cells /\ Prim(o).op = o /\ Quiet(<<Prim(o), z>>)
            /\ Prim(p) \in Cells /\ Prim(p).op = p /\ Quiet(<<Prim(p)>>)
        BY <2>3, <2>5, JumpCells
      <4>3. y \in Cells /\ y.op = "?JUMP" /\ Quiet(<<y, z>>) /\ x \in Cells /\ x.op = "?FALSE"
            /\ Quiet(<<x>>)
        BY <4>1, <4>2
      <4>4. mem' = mem \o <<x, y>> \o <<z>>
        BY <2>1, <3>2
      <4> HIDE DEF x, y, z
      <4>5. mem' = mem \o <<x, y, z>> /\ mem' = Append(mem, x) \o <<y, z>>
            /\ Append(mem, x) \in Seq(Cells)
        <5>1. /\ mem \o <<x, y>> \o <<z>> = mem \o <<x, y, z>>
              /\ mem \o <<x, y>> \o <<z>> = Append(mem, x) \o <<y, z>>
              /\ Append(mem, x) \in Seq(Cells)
          BY <2>3, <2>6, <4>3, TestCells
        <5> QED
          BY <4>4, <5>1
      <4>6. Led(mem \o <<x, y, z>>, words, L, V, Enclosed(ip))
        BY <2>3, <2>5, <2>6, <2>7, <4>3, LedTest
      <4>7. <<y, z>> \in Seq(Cells) /\ <<x>> \in Seq(Cells)
        BY <2>6, <4>3
      <4>8. ~Source!Makes => Quiet(mem \o <<x>>)
        BY <2>3, <4>3, <4>7, QuietCat
      <4>9. mem \o <<x>> = Append(mem, x)
        BY <2>3, <4>3
      <4>10. ~Source!Makes => Quiet(Append(mem, x) \o <<y, z>>)
        BY <4>3, <4>5, <4>7, <4>8, <4>9, QuietCat
      <4> QED
        BY <4>5, <4>6, <4>10, Zenon
    <3> QED
      BY <3>1, <3>2, Zenon
  <2>11. Led(mem', words, K, V, Enclosed(ip))
    BY <2>5, <2>10, LedFewer
  <2>12. Led(mem', words, LoopsOf(rstk', ip + 1), HolesOf(rstk', ip + 1), Enclosed(ip))
    BY <2>11 DEF K, V
  <2> QED
    BY <1>0, <2>1, <2>2, <2>10, <2>12, StructureLinks
<1> QED
  BY <1>1, <1>2

PoppedTwo(t, s) == t = Tail(Tail(s))
Swapped(t, v, s) == t = <<v>> \o Tail(s)

LEMMA BothPopped ==
  ASSUME WellBuilt, prog \in Programs, NEW i \in Source!Pos, prog[i] = "REPEAT",
         NEW s \in Seq(Int), Len(s) <= Source!Open(i) + 2, Len(s) >= Source!Open(i) + 2,
         NEW t, PoppedTwo(t, s)
  PROVE  /\ LoopsOf(t, i + 1) \subseteq LoopsOf(s, i) /\ HolesOf(t, i + 1) \subseteq HolesOf(s, i)
         /\ s[1] \in HolesOf(s, i) /\ HolesOf(s, i) \ {s[1]} \subseteq HolesOf(t, i + 1)
         /\ s[2] \in LoopsOf(s, i) /\ s[2] \in Int /\ Head(s) = s[1]
<1>1. t = Tail(Tail(s))
  BY DEF PoppedTwo
<1>2. i \in Nat \ {0} /\ i + 1 \in Nat \ {0}
  BY PosFacts
<1>3. Source!Open(i) \in Nat /\ Source!Open(i + 1) \in Nat
  BY <1>2, OpenIsNat
<1>4. Source!Is(i, Source!Closers) /\ Source!Is(i, {"REPEAT"})
  BY DEF Source!Is, Source!Closers
<1>5. Source!Open(i) = Source!Open(i + 1) + 2
  BY <1>4, OpenTakes
<1>6. Source!Open(i) >= 2 /\ Source!Open(i + 1) = Source!Open(i) - 2
  BY <1>3, <1>5
<1>7. Len(s) >= 2
  BY <1>3, <1>6
<1>8. s[2] \in Int /\ Head(s) = s[1]
  BY <1>7
<1>9. /\ LoopsOf(t, i + 1) \subseteq LoopsOf(s, i) /\ HolesOf(t, i + 1) \subseteq HolesOf(s, i)
      /\ Head(s) \in HolesOf(s, i) /\ HolesOf(s, i) \ {Head(s)} \subseteq HolesOf(t, i + 1)
      /\ s[2] \in LoopsOf(s, i)
  BY <1>1, <1>4, <1>6, MarksTakenTwo
<1> QED
  BY <1>8, <1>9

LEMMA HoleSwapped ==
  ASSUME WellBuilt, prog \in Programs, NEW i \in Source!Pos, prog[i] = "ELSE",
         NEW s \in Seq(Int), Len(s) <= Source!Open(i) + 2, Len(s) >= Source!Open(i) + 2,
         NEW v \in Int, NEW t, Swapped(t, v, s)
  PROVE  /\ LoopsOf(t, i + 1) = LoopsOf(s, i) /\ HolesOf(t, i + 1) \subseteq HolesOf(s, i) \union {v}
         /\ Head(s) \in HolesOf(s, i) /\ HolesOf(s, i) \ {Head(s)} \subseteq HolesOf(t, i + 1)
         /\ v \in HolesOf(t, i + 1)
<1>1. t = <<v>> \o Tail(s)
  BY DEF Swapped
<1>2. Source!Is(i, {"ELSE"})
  BY DEF Source!Is
<1>3. Source!Open(i) # 0
  BY <1>2, OpenElse
<1> QED
  BY <1>1, <1>2, <1>3, MarksSwapped

LEMMA ElseLinks ==
  ASSUME Inv, Laid, Shape, Linked, Else
  PROVE  Linked'
<1>0. Read({"ELSE"}) /\ WellBuilt
  BY DEF Else, Laid
<1>1. CASE rstk = <<>>
  BY <1>0, <1>1, StopLinks DEF Else
<1>2. CASE rstk # <<>> /\ ~Writable(Head(rstk))
  BY <1>0, <1>2, StopLinks DEF Else
<1>3. CASE rstk # <<>> /\ Writable(Head(rstk))
  <2> DEFINE L == LoopsOf(rstk, ip)
             W == HolesOf(rstk, ip)
             K == LoopsOf(rstk', ip + 1)
             V == HolesOf(rstk', ip + 1)
             w == Head(rstk)
             y == Prim("JUMP")
             z == Operand(0)
             v == Here + 1
             u == Here + 2
             U == W \union {v}
             m == mem \o <<y, z>>
  <2>1. Took(1) /\ mem' = Patch(m, w, u) /\ Swapped(rstk', v, rstk) /\ words' = words
    BY <1>3 DEF Else, Swapped
  <2>2. {"ELSE"} \subseteq Source!Structure
    BY DEF Source!Structure
  <2>3. /\ ip \in 1 .. Len(prog) /\ ip \in Source!Pos /\ prog \in Programs /\ prog[ip] = "ELSE"
        /\ rstk \in Seq(Int) /\ Len(rstk) <= Source!Open(ip) + 2 /\ Len(rstk) >= Source!Open(ip) + 2
        /\ mem \in Seq(Cells) /\ Headed(words, Len(mem)) /\ Here = Len(mem) + 1 /\ Len(mem) \in Nat
        /\ Led(mem, words, L, W, Enclosed(ip)) /\ Enclosed(ip) /\ (~Source!Makes => Quiet(mem))
    BY <1>0, <2>2, StructureSteps
  <2>4. v \in Int /\ u \in Int /\ v = Len(mem) + 2 /\ u = Len(mem) + 3
    BY <2>3
  <2>5. y \in Cells /\ y.op = "JUMP" /\ z \in Cells /\ z.op = "operand" /\ Quiet(<<y, z>>)
    <3>1. PICK a \in Int : a = 0
      OBVIOUS
    <3>2. PICK o \in {"?FALSE", "?TRUE", "JUMP", "?JUMP"} : o = "JUMP"
      OBVIOUS
    <3>3. /\ Prim(o) \in Cells /\ Prim(o).op = o /\ Operand(a) \in Cells
          /\ Operand(a).op = "operand" /\ Quiet(<<Prim(o), Operand(a)>>)
      BY <2>3, JumpCells
    <3> QED
      BY <3>1, <3>2, <3>3
  <2> HIDE DEF v, u, w, y, z
  <2>6. K = L /\ V \subseteq W \union {v} /\ w \in W /\ W \ {w} \subseteq V /\ v \in V
    BY <1>0, <2>1, <2>3, <2>4, HoleSwapped DEF w
  <2>7. <<y, z>> \in Seq(Cells)
    BY <2>5
  <2>8. m \in Seq(Cells) /\ Len(m) = Len(mem) + 2
    BY <2>3, <2>5
  <2>9. ~Source!Makes => Quiet(m)
    BY <2>3, <2>5, <2>7, QuietCat
  <2> HIDE DEF K, L, V, W
  <2>10. W \subseteq U /\ U \ W \subseteq {Len(mem) + 2} /\ Len(mem) + 2 \in U
    BY <2>4
  <2>11. w \in U /\ V \subseteq U /\ U \ {w} \subseteq V
    BY <2>6
  <2> HIDE DEF U
  <2>12. Led(m, words, L, U, Enclosed(ip))
    BY <2>3, <2>5, <2>10, LedMark
  <2> HIDE DEF m
  <2>13. Len(mem) <= Len(m) /\ u = Len(m) + 1
    BY <2>3, <2>4, <2>8
  <2>14. w \in 1 .. Len(m) /\ Led(Patch(m, w, u), words, L, V, Enclosed(ip))
    <3>1. PICK n \in Nat : Headed(words, n) /\ n <= Len(m)
      BY <2>3, <2>13
    <3>2. u = Len(m) + 1 /\ m \in Seq(Cells) /\ Enclosed(ip)
      BY <2>3, <2>8, <2>13
    <3> QED
      BY <2>11, <2>12, <3>1, <3>2, LedFilled
  <2>15. Led(mem', words, LoopsOf(rstk', ip + 1), HolesOf(rstk', ip + 1), Enclosed(ip))
    BY <2>1, <2>6, <2>14 DEF K, V
  <2>16. ~Source!Makes => Quiet(mem')
    BY <2>1, <2>4, <2>8, <2>9, <2>14, QuietPatch
  <2> QED
    BY <1>0, <2>1, <2>2, <2>15, <2>16, StructureLinks
<1> QED
  BY <1>1, <1>2, <1>3

LEMMA RepeatLinks ==
  ASSUME Inv, Laid, Shape, Linked, Repeat
  PROVE  Linked'
<1>0. Read({"REPEAT"}) /\ WellBuilt
  BY DEF Repeat, Laid
<1>1. CASE rstk = <<>>
  BY <1>0, <1>1, StopLinks DEF Repeat
<1>2. CASE rstk # <<>> /\ (Len(rstk) = 1 \/ ~Writable(Head(rstk)))
  BY <1>0, <1>2, StopLinks DEF Repeat
<1>3. CASE rstk # <<>> /\ ~(Len(rstk) = 1 \/ ~Writable(Head(rstk)))
  <2> DEFINE L == LoopsOf(rstk, ip)
             W == HolesOf(rstk, ip)
             K == LoopsOf(rstk', ip + 1)
             V == HolesOf(rstk', ip + 1)
             w == rstk[1]
             a == rstk[2]
             y == Prim("JUMP")
             z == Operand(a)
             u == Here + 2
             m == mem \o <<y, z>>
  <2>1. Took(1) /\ mem' = Patch(m, w, u) /\ PoppedTwo(rstk', rstk) /\ words' = words
    BY <1>3 DEF Repeat, PoppedTwo
  <2>2. {"REPEAT"} \subseteq Source!Structure
    BY DEF Source!Structure, Source!Closers
  <2>3. /\ ip \in 1 .. Len(prog) /\ ip \in Source!Pos /\ prog \in Programs /\ prog[ip] = "REPEAT"
        /\ rstk \in Seq(Int) /\ Len(rstk) <= Source!Open(ip) + 2 /\ Len(rstk) >= Source!Open(ip) + 2
        /\ mem \in Seq(Cells) /\ Headed(words, Len(mem)) /\ Here = Len(mem) + 1 /\ Len(mem) \in Nat
        /\ Led(mem, words, L, W, Enclosed(ip)) /\ Enclosed(ip) /\ (~Source!Makes => Quiet(mem))
    BY <1>0, <2>2, StructureSteps
  <2>4. u \in Int /\ u = Len(mem) + 3
    BY <2>3
  <2> HIDE DEF u, w, a
  <2>5. /\ K \subseteq L /\ V \subseteq W /\ w \in W /\ W \ {w} \subseteq V
        /\ a \in L /\ a \in Int
    BY <1>0, <2>1, <2>3, BothPopped DEF w, a
  <2>6. y \in Cells /\ y.op = "JUMP" /\ z \in Cells /\ z.op = "operand" /\ z.arg = a
        /\ Quiet(<<y, z>>)
    <3>1. PICK o \in {"?FALSE", "?TRUE", "JUMP", "?JUMP"} : o = "JUMP"
      OBVIOUS
    <3>2. /\ Prim(o) \in Cells /\ Prim(o).op = o /\ Operand(a) \in Cells
          /\ Operand(a).op = "operand" /\ Operand(a).arg = a /\ Quiet(<<Prim(o), Operand(a)>>)
      BY <2>3, <2>5, JumpCells
    <3> QED
      BY <3>1, <3>2
  <2> HIDE DEF y, z
  <2>7. <<y, z>> \in Seq(Cells)
    BY <2>6
  <2>8. m \in Seq(Cells) /\ Len(m) = Len(mem) + 2
    BY <2>3, <2>6
  <2>9. ~Source!Makes => Quiet(m)
    BY <2>3, <2>6, <2>7, QuietCat
  <2> HIDE DEF K, L, V, W
  <2>10. W \subseteq W /\ \A x : W \ W \subseteq {x}
    OBVIOUS
  <2>11. Led(m, words, L, W, Enclosed(ip))
    BY <2>3, <2>5, <2>6, <2>10, LedMark
  <2> HIDE DEF m
  <2>12. Len(mem) <= Len(m) /\ u = Len(m) + 1
    BY <2>3, <2>4, <2>8
  <2>13. w \in 1 .. Len(m) /\ Led(Patch(m, w, u), words, L, V, Enclosed(ip))
    <3>1. PICK n \in Nat : Headed(words, n) /\ n <= Len(m)
      BY <2>3, <2>12
    <3>2. u = Len(m) + 1 /\ m \in Seq(Cells) /\ Enclosed(ip)
      BY <2>3, <2>8, <2>12
    <3> QED
      BY <2>5, <2>11, <3>1, <3>2, LedFilled
  <2>14. Led(mem', words, K, V, Enclosed(ip))
    BY <2>1, <2>5, <2>13, LedFewer
  <2>15. Led(mem', words, LoopsOf(rstk', ip + 1), HolesOf(rstk', ip + 1), Enclosed(ip))
    BY <2>14 DEF K, V
  <2>16. ~Source!Makes => Quiet(mem')
    BY <2>1, <2>4, <2>8, <2>9, <2>13, QuietPatch
  <2> QED
    BY <1>0, <2>1, <2>2, <2>15, <2>16, StructureLinks
<1> QED
  BY <1>1, <1>2, <1>3

-----------------------------------------------------------------------------
(* Compiled code that runs. *)

LEMMA RunSystemLinks ==
  ASSUME Inv, WellBuilt, Shape, Linked, RunSystem
  PROVE  Linked'
<1>1. At(Primitives) /\ System(mem[wp].op, ip, wp + 1)
  BY DEF RunSystem
<1>2. "QUIT" \notin Primitives /\ "garbage" \notin Primitives
  BY DEF Primitives
<1>3. /\ wp # Interp /\ wp \in Int /\ wp \in 1 .. Len(mem) /\ mem[wp].op \in Primitives
  BY <1>1, <1>2, RunningPlace
<1>4. mem[wp].op # "[COMPILE]"
  BY <1>3 DEF Shape, Clean, Tidy
<1>5. mem[wp].op \in Source!Creating => Source!Makes
  BY <1>3 DEF Linked, Orderly
<1>6. Spot(ip) /\ wp + 1 \in Int
  BY <1>3, RunningSpot
<1> QED
  BY <1>1, <1>3, <1>4, <1>5, <1>6, SystemLinks

LEMMA RunCallLinks ==
  ASSUME Inv, WellBuilt, Shape, Linked, RunCall
  PROVE  Linked'
<1>1. At({"call"}) /\ Invoke(mem[wp].arg, ip, wp + 1)
  BY DEF RunCall
<1>2. wp # Interp /\ wp \in Int /\ wp + 1 \in Int
  BY <1>1, RunningPlace
<1>3. Spot(ip)
  BY <1>2, RunningSpot
<1> QED
  BY <1>1, <1>2, <1>3, InvokeLinks

LEMMA RunExitLinks ==
  ASSUME Inv, WellBuilt, Shape, Linked, RunExit
  PROVE  Linked'
<1>1. wp # Interp
  BY DEF RunExit, At
<1>2. rstk # <<>> /\ Agree(Tail(rstk), rstk, Source!Open(ip) + 1)
  BY <1>1, ReturnAgrees
<1>3. /\ rstk' = Tail(rstk) /\ prog' = prog /\ ip' = ip /\ mem' = mem /\ words' = words
  BY <1>2 DEF RunExit
<1> QED
  BY <1>1, <1>2, <1>3, RunningSpot, PassLinks

LEMMA GotoLinks ==
  ASSUME Inv, WellBuilt, Linked, wp # Interp, NEW a, Goto(a)
  PROVE  Linked'
<1>1. /\ rstk' = rstk /\ prog' = prog /\ ip' = ip /\ mem' = mem /\ words' = words
  BY DEF Goto
<1> QED
  BY <1>1, AgreeSame, RunningSpot, PassLinks

LEMMA RunTestLinks ==
  ASSUME Inv, WellBuilt, Linked, RunTest
  PROVE  Linked'
<1>1. wp # Interp
  BY DEF RunTest, At
<1>2. CASE pstk = <<>>
  BY <1>2, StopLinks DEF RunTest
<1>3. CASE pstk # <<>>
  <2>1. Goto(wp + 1)
    BY <1>3 DEF RunTest
  <2> QED
    BY <1>1, <2>1, GotoLinks
<1> QED
  BY <1>2, <1>3

LEMMA RunJumpLinks ==
  ASSUME Inv, WellBuilt, Linked, RunJump
  PROVE  Linked'
<1>1. wp # Interp
  BY DEF RunJump, At
<1>2. CASE mem[wp].op = "?JUMP" /\ pstk = <<>>
  BY <1>2, StopLinks DEF RunJump
<1>3. CASE ~(mem[wp].op = "?JUMP" /\ pstk = <<>>)
  <2>1. Goto(Target)
    BY <1>3 DEF RunJump
  <2> QED
    BY <1>1, <2>1, GotoLinks
<1> QED
  BY <1>2, <1>3

LEMMA StutterLinks ==
  ASSUME Inv, WellBuilt, Linked, UNCHANGED vars
  PROVE  Linked'
<1>1. /\ prog' = prog /\ ip' = ip /\ mem' = mem /\ words' = words
      /\ wp' = wp /\ rstk' = rstk
  BY DEF vars
<1>2. Agree(rstk', rstk, Source!Open(ip) + 1)
  BY <1>1, AgreeSame
<1> QED
  BY <1>1, <1>2, SteadyLinks DEF Linked

LEMMA StepLinks ==
  ASSUME Inv, Laid, Shape, Linked, Next
  PROVE  Linked'
<1>0. WellBuilt
  BY DEF Laid
<1>1. CASE Colon
  BY <1>1, ColonLinks
<1>2. CASE Semicolon
  BY <1>2, SemicolonLinks
<1>3. CASE Mark
  BY <1>3, MarkLinks
<1>4. CASE Bracket
  BY <1>4, BracketLinks
<1>5. CASE Word
  BY <1>5, WordLinks
<1>6. CASE EndOfText \/ RunQuit \/ RunGarbage
  BY <1>0, <1>6, StopLinks DEF EndOfText, RunQuit, RunGarbage
<1>7. CASE If
  BY <1>7, IfLinks
<1>8. CASE Else
  BY <1>8, ElseLinks
<1>9. CASE Then
  BY <1>9, ThenLinks
<1>10. CASE Begin
  BY <1>10, BeginLinks
<1>11. CASE Loop
  BY <1>11, LoopLinks
<1>12. CASE While
  BY <1>12, WhileLinks
<1>13. CASE Repeat
  BY <1>13, RepeatLinks
<1>14. CASE RunSystem
  BY <1>0, <1>14, RunSystemLinks
<1>15. CASE RunCall
  BY <1>0, <1>15, RunCallLinks
<1>16. CASE RunExit
  BY <1>0, <1>16, RunExitLinks
<1>17. CASE RunTest
  BY <1>0, <1>17, RunTestLinks
<1>18. CASE RunJump
  BY <1>0, <1>18, RunJumpLinks
<1> QED
  BY <1>1, <1>2, <1>3, <1>4, <1>5, <1>6, <1>7, <1>8, <1>9, <1>10, <1>11, <1>12, <1>13,
     <1>14, <1>15, <1>16, <1>17, <1>18 DEF Next

LEMMA NextLinks ==
  Inv /\ Marks /\ Links /\ [Next]_vars => Links'
<1> SUFFICES ASSUME Inv, Marks, Links, [Next]_vars, Laid' PROVE Linked'
  BY DEF Links
<1>1. prog' = prog
  BY ProgKept DEF vars
<1>2. Laid
  BY <1>1, LaidKept
<1>3. WellBuilt /\ Shape /\ Linked
  BY <1>2 DEF Laid, Marks, Links
<1>4. CASE Next
  BY <1>2, <1>3, <1>4, StepLinks
<1>5. CASE UNCHANGED vars
  BY <1>3, <1>5, StutterLinks
<1> QED
  BY <1>4, <1>5

LEMMA InitLinks ==
  Init => Links
<1> SUFFICES ASSUME Init, Laid PROVE Linked
  BY DEF Links
<1>1. ip = 1 /\ mem = <<>> /\ words = <<>> /\ prog \in Programs /\ wp = Interp /\ WellBuilt
  BY DEF Init, Laid
<1>2. PICK i \in Nat \ {0} : i = 1
  OBVIOUS
<1>3. ~Enclosed(ip)
  BY <1>1, <1>2, EnclosedSteps
<1>4. LoopsOf(rstk, ip) = {} /\ HolesOf(rstk, ip) = {}
  BY <1>1, <1>2, <1>3, NothingOpen
<1>5. Len(mem) = 0 /\ Len(words) = 0
  BY <1>1
<1>6. Led(mem, words, LoopsOf(rstk, ip), HolesOf(rstk, ip), Enclosed(ip))
  BY <1>4, <1>5 DEF Led, Operands
<1>7. Ordered(words) /\ Orderly(mem, words, wp, ip)
  BY <1>1, <1>5 DEF Ordered, Orderly
<1> QED
  BY <1>6, <1>7 DEF Linked

-----------------------------------------------------------------------------
(* The place in the text: no word begins at its end. *)

\* The interpreter has taken the name behind every : it has taken.
Passed == \A k \in 1 .. Len(prog) : k < ip /\ prog[k] = ":" => k + 1 \in 1 .. Len(prog)
Begins == Laid => Passed

\* How a step reads: nothing, a token that is no :, or a word and its name.
Reads ==
  \/ ip' = ip
  \/ ip' = ip + 1 /\ prog[ip] # ":"
  \/ ip' = ip + 2 /\ ip + 1 \in 1 .. Len(prog) /\ prog[ip + 1] # ":"

\* No name is a :.
LEMMA NamesBegin == ":" \notin Names \union Primitives
BY TextAssumption DEF Primitives, Compilers

LEMMA StopReads ==
  ASSUME NEW why, Stop(why)
  PROVE  Reads
BY DEF Stop, Reads

LEMMA TookReads ==
  ASSUME Inv, NEW w, Read(w), ":" \notin w, Took(1)
  PROVE  Reads
<1>1. prog[ip] \in w
  BY DEF Read, Token
<1>2. ip' = ip + 1
  BY DEF Took
<1> QED
  BY <1>1, <1>2 DEF Reads

LEMMA ActReads ==
  ASSUME NEW i, NEW back, NEW w \in {"x", "flag", "DROP"}, Act(w, i, back)
  PROVE  ip' = ip \/ ip' = i
<1>1. CASE w = "x"
  BY <1>1 DEF Act, Pass
<1>2. CASE w = "flag"
  <2>1. \E v \in {0, -1} : Leave(v, i, back)
    BY <1>2 DEF Act
  <2> QED
    BY <2>1 DEF Leave, Stop
<1>3. CASE w = "DROP"
  BY <1>3 DEF Act, Stop
<1> QED
  BY <1>1, <1>2, <1>3

LEMMA SystemReads ==
  ASSUME NEW i, NEW back, NEW w \in Primitives \ {"[COMPILE]"}, System(w, i, back)
  PROVE  \/ ip' = ip \/ ip' = i
         \/ ip' = i + 1 /\ ~(i > Len(prog)) /\ prog[i] \in Names
<1>1. CASE w \in {"x", "flag", "DROP"}
  <2>1. Act(w, i, back)
    BY <1>1 DEF System
  <2> QED
    BY <1>1, <2>1, ActReads
<1>2. CASE w \in {"CREATE", "VARIABLE"}
  <2>1. Create(w, i, back)
    BY <1>2 DEF System
  <2> QED
    BY <2>1 DEF Create, Stop
<1>3. CASE w = "DOES>"
  <2>1. Does(i, back)
    BY <1>3 DEF System
  <2> QED
    BY <2>1 DEF Does, Pass, Stop
<1> QED
  BY <1>1, <1>2, <1>3 DEF Primitives

LEMMA InvokeReads ==
  ASSUME NEW cfa, NEW i, NEW back, Invoke(cfa, i, back)
  PROVE  ip' = ip \/ ip' = i
BY DEF Invoke, Begun, Leave, Stop

LEMMA WordReads ==
  ASSUME Inv, WellBuilt, Shape, Word
  PROVE  Reads
<1>0. Read(Names \union Primitives)
  BY DEF Word
<1>1. /\ ip \in 1 .. Len(prog) /\ prog[ip] \in Names \union Primitives /\ Token = prog[ip]
      /\ prog[ip] # ":" /\ Len(prog) \in Nat /\ prog \in Programs
  BY <1>0, ReadShape, ReadFacts, NamesBegin, InvFacts
<1>2. Token # "[COMPILE]"
  <2>1. ip \in Source!Pos
    BY <1>1, PosFacts
  <2>2. ~Source!Is(ip, {"[COMPILE]"})
    BY <2>1 DEF WellBuilt
  <2> QED
    BY <1>1, <2>1, <2>2 DEF Source!Is
<1>3. \/ \E why : Stop(why)
      \/ Took(1)
      \/ Token \in Primitives /\ System(Token, ip + 1, Interp)
      \/ Invoke(words[Find(Token)].cfa, ip + 1, Interp)
  BY DEF Word
<1>4. CASE \E why : Stop(why)
  BY <1>4, StopReads
<1>5. CASE Took(1)
  BY <1>0, <1>5, NamesBegin, TookReads
<1> DEFINE i == ip + 1
<1>6. CASE Token \in Primitives /\ System(Token, i, Interp)
  <2>1. \/ ip' = ip \/ ip' = i
        \/ ip' = i + 1 /\ ~(i > Len(prog)) /\ prog[i] \in Names
    BY <1>2, <1>6, SystemReads
  <2>2. CASE ip' = ip \/ ip' = i
    BY <1>1, <2>2 DEF Reads
  <2>3. CASE ip' = i + 1 /\ ~(i > Len(prog)) /\ prog[i] \in Names
    <3>1. prog[i] # ":" /\ i \in 1 .. Len(prog) /\ ip' = ip + 2
      BY <1>1, <2>3, NamesBegin
    <3> QED
      BY <3>1 DEF Reads
  <2> QED
    BY <2>1, <2>2, <2>3
<1>7. CASE Invoke(words[Find(Token)].cfa, i, Interp)
  <2>1. ip' = ip \/ ip' = i
    BY <1>7, InvokeReads
  <2> QED
    BY <1>1, <2>1 DEF Reads
<1> QED
  BY <1>3, <1>4, <1>5, <1>6, <1>7

LEMMA RunSystemReads ==
  ASSUME Inv, Shape, RunSystem
  PROVE  Reads
<1>1. At(Primitives) /\ System(mem[wp].op, ip, wp + 1)
  BY DEF RunSystem
<1>2. "QUIT" \notin Primitives /\ "garbage" \notin Primitives
  BY DEF Primitives
<1>3. wp \in 1 .. Len(mem) /\ mem[wp].op \in Primitives
  BY <1>1, <1>2, RunningPlace
<1>4. mem[wp].op # "[COMPILE]"
  BY <1>3 DEF Shape, Clean, Tidy
<1>5. \/ ip' = ip
      \/ ip' = ip + 1 /\ ~(ip > Len(prog)) /\ prog[ip] \in Names
  BY <1>1, <1>3, <1>4, SystemReads
<1> QED
  BY <1>5, NamesBegin DEF Reads

LEMMA ColonReads ==
  ASSUME Inv, Shape, Colon
  PROVE  Reads
<1>0. Read({":"})
  BY DEF Colon
<1>1. ip \in 1 .. Len(prog) /\ Len(prog) \in Nat
  BY <1>0, ReadShape, InvFacts
<1>2. CASE ip = Len(prog)
  BY <1>2, StopReads DEF Colon
<1>3. CASE ip # Len(prog)
  <2>1. prog[ip + 1] \in Names /\ ip' = ip + 2
    BY <1>3 DEF Colon, Took
  <2>2. ip + 1 \in 1 .. Len(prog)
    BY <1>1, <1>3
  <2> QED
    BY <2>1, <2>2, NamesBegin DEF Reads
<1> QED
  BY <1>2, <1>3

LEMMA SemicolonReads ==
  ASSUME Inv, Semicolon
  PROVE  Reads
<1>0. PICK w : Read(w) /\ w = {";"}
  BY Zenon DEF Semicolon
<1>1. ":" \notin w
  <2>1. ":" \notin {";"}
    BY Zenon
  <2> QED
    BY <1>0, <2>1, Zenon
<1>2. (\E why : Stop(why)) \/ Took(1)
  BY DEF Semicolon
<1> QED
  BY <1>0, <1>1, <1>2, StopReads, TookReads

LEMMA TokenReads ==
  ASSUME Inv, Mark \/ Bracket \/ If \/ Else \/ Then \/ Begin \/ Loop \/ While \/ Repeat
  PROVE  Reads
<1>1. PICK w : Read(w) /\ ":" \notin w
  <2>1. CASE Mark
    BY <2>1 DEF Mark
  <2>2. CASE Bracket
    BY <2>2 DEF Bracket
  <2>3. CASE If
    BY <2>3 DEF If
  <2>4. CASE Else
    BY <2>4 DEF Else
  <2>5. CASE Then
    BY <2>5 DEF Then
  <2>6. CASE Begin
    BY <2>6 DEF Begin
  <2>7. CASE Loop
    BY <2>7 DEF Loop
  <2>8. CASE While
    BY <2>8 DEF While
  <2>9. CASE Repeat
    BY <2>9 DEF Repeat
  <2> QED
    BY <2>1, <2>2, <2>3, <2>4, <2>5, <2>6, <2>7, <2>8, <2>9
<1>2. (\E why : Stop(why)) \/ Took(1)
  BY DEF Mark, Bracket, If, Else, Then, Begin, Loop, While, Repeat
<1> QED
  BY <1>1, <1>2, StopReads, TookReads

LEMMA RunReads ==
  ASSUME EndOfText \/ RunQuit \/ RunGarbage \/ RunCall \/ RunExit \/ RunTest \/ RunJump
  PROVE  Reads
<1>1. CASE RunCall
  <2>1. ip' = ip
    BY <1>1, InvokeReads DEF RunCall
  <2> QED
    BY <2>1 DEF Reads
<1>2. CASE EndOfText \/ RunQuit \/ RunGarbage
  BY <1>2, StopReads DEF EndOfText, RunQuit, RunGarbage
<1>3. CASE RunExit \/ RunTest \/ RunJump
  <2>1. ip' = ip
    BY <1>3 DEF RunExit, RunTest, RunJump, Goto, Stop
  <2> QED
    BY <2>1 DEF Reads
<1> QED
  BY <1>1, <1>2, <1>3

LEMMA NextReads ==
  ASSUME Inv, WellBuilt, Shape, Next
  PROVE  Reads
BY WordReads, RunSystemReads, ColonReads, SemicolonReads, TokenReads, RunReads DEF Next

LEMMA NextBegins ==
  Inv /\ Marks /\ Begins /\ [Next]_vars => Begins'
<1> SUFFICES ASSUME Inv, Marks, Begins, [Next]_vars, Laid' PROVE Passed'
  BY DEF Begins
<1>1. prog' = prog
  BY ProgKept DEF vars
<1>2. Laid
  BY <1>1, LaidKept
<1>3. WellBuilt /\ Shape /\ Passed /\ ip \in Nat \ {0} /\ Len(prog) \in Nat
  BY <1>2, InvFacts DEF Laid, Marks, Begins
<1>4. Reads
  <2>1. CASE Next
    BY <1>3, <2>1, NextReads
  <2>2. CASE UNCHANGED vars
    BY <2>2 DEF vars, Reads
  <2> QED
    BY <2>1, <2>2
<1>5. ASSUME NEW k \in 1 .. Len(prog), k < ip', prog[k] = ":"
      PROVE  k + 1 \in 1 .. Len(prog)
  <2>1. CASE k < ip
    BY <1>3, <1>5, <2>1 DEF Passed
  <2>2. CASE ~(k < ip)
    <3>1. ~(ip' = ip) /\ ~(ip' = ip + 1 /\ prog[ip] # ":")
      BY <1>3, <1>5, <2>2
    <3>2. ip' = ip + 2 /\ ip + 1 \in 1 .. Len(prog) /\ prog[ip + 1] # ":"
      BY <1>4, <3>1 DEF Reads
    <3>3. k = ip
      BY <1>3, <1>5, <2>2, <3>2
    <3> QED
      BY <3>2, <3>3
  <2> QED
    BY <2>1, <2>2
<1> QED
  BY <1>1, <1>5 DEF Passed

LEMMA InitBegins ==
  Init => Begins
BY DEF Init, Begins, Passed

-----------------------------------------------------------------------------
(* The jumps of completed definitions. *)

\* No ; is to come.
Ended == ~(\E i \in ip .. Len(prog) : prog[i] = ";")

\* Behind the last ; the text is in no definition.
LEMMA BehindAll ==
  ASSUME Inv, WellBuilt, Passed, Ended
  PROVE  ~Enclosed(ip)
<1>0. prog \in Programs /\ ip \in Nat \ {0} /\ Len(prog) \in Nat
  BY InvFacts
<1> SUFFICES ASSUME Enclosed(ip) PROVE FALSE
  OBVIOUS
<1>1. PICK k \in 1 .. ip - 1 : Source!Is(k, {":"}) /\ \A j \in k + 1 .. ip - 1 : ~Ender(j)
  BY EnclosedIs
<1>2. k \in Source!Pos /\ k \in 1 .. Len(prog) /\ prog[k] = ":" /\ k < ip
  BY <1>0, <1>1 DEF Source!Is, Source!Pos
<1>3. k + 1 \in 1 .. Len(prog)
  BY <1>2 DEF Passed
<1>4. Source!IsDef(k)
  BY <1>1, <1>3 DEF Source!IsDef, Source!Pos
<1>5. Source!Ends(k) # {}
  BY <1>2, <1>4 DEF WellBuilt
<1>6. PICK j \in Source!Pos : j > k /\ Ender(j)
  BY <1>5, EndsIs
<1>7. j \in 1 .. Len(prog)
  BY <1>0 DEF Source!Pos
<1>8. j \in ip .. Len(prog)
  <2>1. ~(j \in k + 1 .. ip - 1)
    BY <1>1, <1>6
  <2> QED
    BY <1>0, <1>2, <1>6, <1>7, <2>1
<1>9. prog[j] = ";"
  BY <1>6, EnderIs, Zenon
<1> QED
  BY <1>8, <1>9, Zenon DEF Ended

\* The code of a word: between its codeword and that of the next.
LEMMA CodeIn ==
  ASSUME Inv, NEW k \in 1 .. Len(words), NEW a \in CodeOf(k)
  PROVE  /\ Len(words) \in Nat /\ Len(mem) \in Nat /\ words[k].cfa \in 1 .. Len(mem)
         /\ a \in 1 .. Len(mem) /\ words[k].cfa <= a
         /\ k # Len(words) => /\ k + 1 \in 1 .. Len(words) /\ words[k + 1].cfa \in 1 .. Len(mem)
                              /\ a < words[k + 1].cfa
<1>1. /\ Len(words) \in Nat /\ Len(mem) \in Nat
      /\ \A j \in 1 .. Len(words) : words[j].cfa \in 1 .. Len(mem)
  BY InvFacts
<1>2. CASE k = Len(words)
  BY <1>1, <1>2 DEF CodeOf
<1>3. CASE k # Len(words)
  <2>1. k + 1 \in 1 .. Len(words)
    BY <1>1, <1>3
  <2>2. a \in words[k].cfa .. words[k + 1].cfa - 1
    BY <1>3 DEF CodeOf
  <2> QED
    BY <1>1, <1>3, <2>1, <2>2
<1> QED
  BY <1>2, <1>3

\* A jump of a completed definition is patched and stays in the definition.
LEMMA JumpLands ==
  ASSUME Inv, Links, Begins, Source!WellFormed, NEW k \in 1 .. Len(words), Completed(k),
         NEW a \in CodeOf(k), IsJump(mem[a])
  PROVE  /\ mem[a + 1].op = "operand"
         /\ mem[a + 1].arg \in CodeOf(k) \ {words[k].cfa}
         /\ mem[mem[a + 1].arg].op # "operand"
<1> DEFINE v == mem[a + 1].arg
           L == LoopsOf(rstk, ip)
           W == HolesOf(rstk, ip)
<1>1. Laid /\ WellBuilt /\ Linked /\ Passed /\ prog \in Programs /\ ip \in Nat \ {0}
  BY WellFormedIsLaid, InvFacts DEF Laid, Links, Begins
<1>2. /\ Len(words) \in Nat /\ Len(mem) \in Nat /\ words[k].cfa \in 1 .. Len(mem)
      /\ a \in 1 .. Len(mem) /\ words[k].cfa <= a
      /\ k # Len(words) => /\ k + 1 \in 1 .. Len(words) /\ words[k + 1].cfa \in 1 .. Len(mem)
                           /\ a < words[k + 1].cfa
  BY CodeIn
<1>3. Led(mem, words, L, W, Enclosed(ip))
  BY <1>1 DEF Linked
<1>4. mem[a + 1].op = "operand"
  <2>1. mem[a].op \in Paired
    BY DEF IsJump, Paired
  <2> QED
    BY <1>2, <1>3, <2>1 DEF Led, Operands
<1>5. a + 1 \in W \/ Lands(mem, words, a, v, Enclosed(ip))
  BY <1>2, <1>3 DEF Led
<1> HIDE DEF v
<1>6. CASE k # Len(words)
  <2>1. a + 1 \notin W
    <3>1. SUFFICES ASSUME a + 1 \in W PROVE FALSE
      OBVIOUS
    <3>2. Above(words, a + 1)
      BY <1>3, <3>1 DEF Led, JumpMark
    <3>3. words[k + 1].cfa < a + 1
      BY <1>2, <1>6, <3>2 DEF Above
    <3> QED
      BY <1>2, <1>6, <3>3
  <2>2. Landing(mem, v) /\ Together(words, a, v)
    BY <1>5, <2>1 DEF Lands
  <2>3. v \in 1 .. Len(mem) + 1 /\ (v \in 1 .. Len(mem) => mem[v].op # "operand")
    BY <2>2 DEF Landing
  <2>4. words[k].cfa < v /\ v < words[k + 1].cfa
    <3>1. /\ (words[k].cfa <= a) <=> (words[k].cfa < v)
          /\ words[k + 1].cfa # v /\ ((words[k + 1].cfa <= a) <=> (words[k + 1].cfa < v))
      BY <1>2, <1>6, <2>2 DEF Together
    <3> QED
      BY <1>2, <1>6, <2>3, <3>1
  <2>5. v \in CodeOf(k) \ {words[k].cfa} /\ mem[v].op # "operand"
    BY <1>2, <1>6, <2>3, <2>4 DEF CodeOf
  <2> QED
    BY <1>4, <2>5 DEF v
<1>7. CASE k = Len(words)
  <2>1. Ended
    <3>1. ~(k < Len(words))
      BY <1>2, <1>7
    <3> QED
      BY <3>1, Zenon DEF Completed, Ended
  <2>2. ~Enclosed(ip)
    BY <1>1, <2>1, BehindAll
  <2>3. W = {}
    BY <1>1, <2>2, NothingOpen
  <2>4. Landing(mem, v) /\ Together(words, a, v) /\ v <= Len(mem)
    BY <1>5, <2>2, <2>3 DEF Lands
  <2>5. v \in 1 .. Len(mem) + 1 /\ (v \in 1 .. Len(mem) => mem[v].op # "operand")
    BY <2>4 DEF Landing
  <2>6. words[k].cfa < v
    BY <1>2, <2>4 DEF Together
  <2>7. v \in CodeOf(k) \ {words[k].cfa} /\ mem[v].op # "operand"
    BY <1>2, <1>7, <2>4, <2>5, <2>6 DEF CodeOf
  <2> QED
    BY <1>4, <2>7 DEF v
<1> QED
  BY <1>6, <1>7

\* The invariant says what is meant.
LEMMA JumpsMatch ==
  Inv /\ Links /\ Begins => JumpsResolved
<1> SUFFICES ASSUME Inv, Links, Begins, Source!WellFormed, NEW k \in DOMAIN words, Completed(k),
                    NEW a \in CodeOf(k), mem[a].op \in {"JUMP", "?JUMP"}
             PROVE  /\ mem[a + 1].op = "operand"
                    /\ mem[a + 1].arg \in CodeOf(k) \ {words[k].cfa}
                    /\ mem[mem[a + 1].arg].op # "operand"
  BY Zenon DEF JumpsResolved
<1>1. k \in 1 .. Len(words)
  BY InvFacts
<1>2. IsJump(mem[a])
  BY DEF IsJump
<1> QED
  BY <1>1, <1>2, JumpLands

(***************************************************************************)
(* For every set of texts and every size of the stacks: in a definition of *)
(* a well-formed text that its ; has completed, every jump has the cell    *)
(* behind it for its operand, no operand is left open, and the address in  *)
(* it is that of code of the same definition.  IF, ELSE, WHILE, BEGIN and  *)
(* those that close them see to that with nothing but the return stack     *)
(* (fvm_asm.nasm:3423-3679).                                               *)
(***************************************************************************)
THEOREM JumpsTheorem == Spec => []JumpsResolved
<1>1. Init => Inv /\ Marks /\ Links /\ Begins
  BY InitInv, InitMarks, InitLinks, InitBegins
<1>2. Inv /\ Marks /\ Links /\ Begins /\ [Next]_vars => (Inv /\ Marks /\ Links /\ Begins)'
  BY NextInv, NextMarks, NextLinks, NextBegins
<1>3. Spec => [](Inv /\ Marks /\ Links /\ Begins)
  BY <1>1, <1>2, PTL DEF Spec
<1> QED
  BY <1>3, JumpsMatch, PTL
=============================================================================
