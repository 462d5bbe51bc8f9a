---------------------------- MODULE BuffersProofs ----------------------------
(***************************************************************************)
(* Buffers own their memory and are values of their own (Values), for any   *)
(* number of objects and of blocks, any size, and any order of operations.  *)
(***************************************************************************)
EXTENDS Buffers, SequenceTheorems, TLAPS

\* An object lives when its state is a record.
LEMMA LiveIsState ==
  ASSUME TypeOK, NEW o \in Objects
  PROVE  /\ obj[o] # Dead <=> obj[o] \in States
         /\ obj[o] \in States \union {Dead}
BY ObjectAssumption DEF TypeOK, States

\* The fields of a state.
LEMMA Fields ==
  ASSUME NEW r \in States
  PROVE  /\ r.mem \in Blocks \union {None} /\ r.size \in {0, Size} /\ r.fill \in 0 .. Size
         /\ r.fd \in Fds \union {NoFd} /\ r.err \in {"none", "errno", "minus1"}
         /\ r # Dead
BY ObjectAssumption DEF States

\* What a constructor, a move or the end of one makes of an object is a state of an object.
LEMMA ObjectIsState ==
  ASSUME NEW m \in Blocks \union {None}, NEW z \in {0, Size}, NEW n \in 0 .. Size,
         NEW f \in Fds \union {NoFd}
  PROVE  /\ Object(m, z, n, f) \in States
         /\ Object(m, z, n, f).mem = m /\ Object(m, z, n, f).size = z
         /\ Object(m, z, n, f).fill = n
BY DEF Object, States

\* A state with another descriptor or another error has the same memory.
LEMMA TiedIsState ==
  ASSUME NEW r \in States, NEW f \in Fds \union {NoFd}, NEW e \in {"none", "errno", "minus1"}
  PROVE  /\ Tied(r, f, e) \in States
         /\ Tied(r, f, e).mem = r.mem /\ Tied(r, f, e).size = r.size
         /\ Tied(r, f, e).fill = r.fill
BY DEF Tied, States

\* setFd(-1) leaves the memory alone.
LEMMA UntiedIsState ==
  ASSUME NEW r \in States
  PROVE  /\ Untied(r) \in States
         /\ Untied(r).mem = r.mem /\ Untied(r).size = r.size /\ Untied(r).fill = r.fill
BY DEF Untied, Tied, States

\* A state with other memory, and one without any.
LEMMA FilledIsState ==
  ASSUME NEW r \in States, NEW m \in Blocks \union {None}, NEW z \in {0, Size},
         NEW n \in 0 .. Size
  PROVE  /\ Filled(r, m, z, n) \in States
         /\ Filled(r, m, z, n).mem = m /\ Filled(r, m, z, n).size = z
         /\ Filled(r, m, z, n).fill = n
BY DEF Filled, States

\* A moved-from object has no memory.
LEMMA RobbedIsState ==
  ASSUME NEW r \in States
  PROVE  /\ Robbed(r) \in States
         /\ Robbed(r).mem = None /\ Robbed(r).size = 0 /\ Robbed(r).fill = 0
BY ObjectAssumption DEF Robbed, Filled, States

\* What SUBSET and cells say of the heap.
LEMMA Heaps ==
  ASSUME TypeOK, NEW b \in Blocks, NEW cells \in Cells
  PROVE  /\ DOMAIN With(b, cells) = DOMAIN heap \union {b}
         /\ DOMAIN With(b, cells) \subseteq Blocks
         /\ \A q \in DOMAIN With(b, cells) : With(b, cells)[q] \in Cells
         /\ DOMAIN Without(b) = DOMAIN heap \ {b}
         /\ DOMAIN Without(b) \subseteq Blocks
         /\ \A q \in DOMAIN Without(b) : Without(b)[q] \in Cells
BY DEF TypeOK, With, Without

\* A copy of a block is the content of one.
LEMMA CopiesAreCells ==
  ASSUME TypeOK, NEW old \in Cells, NEW b \in DOMAIN heap, NEW n
  PROVE  Copied(old, b, n) \in Cells
BY DEF TypeOK, Copied, Cells

\* What is in a block nothing was written to.
LEMMA RawIsCells == Raw \in Cells
BY DEF Raw, Cells

-----------------------------------------------------------------------------
(* The memory of the objects. *)

\* One object's fill changes and stays within its size; the blocks stay.
LEMMA OwnersKept ==
  ASSUME TypeOK, OneOwner, DOMAIN heap' = DOMAIN heap,
         \A q \in Objects : obj'[q] # Dead => /\ obj[q] # Dead
                                              /\ obj'[q].mem = obj[q].mem
                                              /\ obj'[q].size = obj[q].size
                                              /\ obj'[q].fill <= obj[q].size
  PROVE  OneOwner'
BY DEF OneOwner, Live

\* Each operation preserves the types and the ownership of the blocks.  A new object gets
\* a block no other has.
LEMMA NewOwner ==
  ASSUME TypeOK, OneOwner, NEW o \in Objects, NEW fd \in Fds \union {NoFd}, New(o, fd)
  PROVE  TypeOK' /\ OneOwner'
<1>1. PICK b \in Unused : /\ heap' = With(b, Raw)
                          /\ obj' = [obj EXCEPT ![o] = Object(b, Size, 0, fd)]
  BY DEF New
<1>2. /\ b \in Blocks /\ b \in Blocks \union {None} /\ b \notin DOMAIN heap /\ b # None
      /\ Size \in Nat \ {0} /\ Size \in {0, Size} /\ 0 \in 0 .. Size
  BY ObjectAssumption DEF Unused
<1> DEFINE new == Object(b, Size, 0, fd)
<1>3. new \in States /\ new.mem = b /\ new.size = Size /\ new.fill = 0
  BY <1>2, ObjectIsState
<1> HIDE DEF new
<1>4. TypeOK'
  <2>1. obj' \in [Objects -> States \union {Dead}]
    BY <1>1, <1>3 DEF TypeOK, new
  <2>2. DOMAIN heap' \subseteq Blocks /\ \A q \in DOMAIN heap' : heap'[q] \in Cells
    BY <1>1, <1>2, Heaps, RawIsCells
  <2>3. ok' = ok
    BY DEF New, Quiet
  <2> QED
    BY <2>1, <2>2, <2>3 DEF TypeOK
<1>5. DOMAIN heap' = DOMAIN heap \union {b}
  BY <1>1, <1>2, Heaps, RawIsCells
<1>6. \A q \in Objects : obj'[q] = IF q = o THEN new ELSE obj[q]
  BY <1>1 DEF TypeOK, new
<1>7. \A q \in Live : obj[q].mem # b
  BY <1>2 DEF OneOwner
<1>8. OneOwner'
  BY <1>2, <1>3, <1>5, <1>6, <1>7 DEF OneOwner, Live
<1> QED
  BY <1>4, <1>8

\* A destructor frees a block that nobody else owns.
LEMMA DeleteOwner ==
  ASSUME TypeOK, OneOwner, NEW o \in Objects, Delete(o)
  PROVE  TypeOK' /\ OneOwner'
<1> DEFINE b == obj[o].mem
<1>1. /\ obj[o] # Dead /\ ok' = ok
      /\ heap' = Without(b) /\ obj' = [obj EXCEPT ![o] = Dead]
  BY DEF Delete, Quiet
<1>2. DOMAIN heap' = DOMAIN heap \ {b} /\ \A q \in DOMAIN heap' : heap'[q] = heap[q]
  BY <1>1 DEF Without
<1>3. \A q \in Objects : obj'[q] = IF q = o THEN Dead ELSE obj[q]
  BY <1>1 DEF TypeOK
<1>4. TypeOK'
  <2>1. obj' \in [Objects -> States \union {Dead}]
    BY <1>1 DEF TypeOK
  <2> QED
    BY <1>1, <1>2, <2>1 DEF TypeOK
<1>5. \A q \in Live : q # o => obj[q].mem \in DOMAIN heap' \union {None}
  <2> TAKE q \in Live
  <2>1. o \in Live
    BY <1>1 DEF Live
  <2> QED
    BY <1>2, <2>1 DEF OneOwner
<1> HIDE DEF b
<1>6. OneOwner'
  BY <1>3, <1>5 DEF OneOwner, Live
<1> QED
  BY <1>4, <1>6

\* The descriptor has no part in it.
LEMMA SetFdOwner ==
  ASSUME TypeOK, OneOwner, NEW o \in Objects, NEW fd \in Fds \union {NoFd}, SetFd(o, fd)
  PROVE  TypeOK' /\ OneOwner'
<1> DEFINE new == Tied(obj[o], fd, obj[o].err)
<1>1. obj[o] \in States /\ obj' = [obj EXCEPT ![o] = new] /\ heap' = heap /\ ok' = ok
  BY LiveIsState DEF SetFd, Quiet
<1>2. new \in States /\ new.mem = obj[o].mem /\ new.size = obj[o].size /\ new.fill = obj[o].fill
  BY <1>1, Fields, TiedIsState
<1> HIDE DEF new
<1>3. TypeOK'
  BY <1>1, <1>2 DEF TypeOK
<1>4. \A q \in Objects : obj'[q] = IF q = o THEN new ELSE obj[q]
  BY <1>1 DEF TypeOK
<1>5. OneOwner'
  <2>1. \A q \in Objects : obj'[q] # Dead =>
          /\ obj[q] # Dead /\ obj'[q].mem = obj[q].mem /\ obj'[q].size = obj[q].size
          /\ obj'[q].fill <= obj[q].size
    BY <1>1, <1>2, <1>4, LiveIsState DEF OneOwner, Live
  <2> QED
    BY <1>1, <2>1, OwnersKept
<1> QED
  BY <1>3, <1>5

\* read() and write() that fail.
LEMMA FailsOwner ==
  ASSUME TypeOK, OneOwner, NEW o \in Objects, obj[o] # Dead,
         NEW code \in {"none", "errno", "minus1"}, Fails(o, code)
  PROVE  TypeOK' /\ OneOwner'
<1> DEFINE new == Tied(obj[o], obj[o].fd, code)
<1>1. obj[o] \in States /\ obj' = [obj EXCEPT ![o] = new] /\ heap' = heap /\ ok' = FALSE
  BY LiveIsState DEF Fails
<1>2. new \in States /\ new.mem = obj[o].mem /\ new.size = obj[o].size /\ new.fill = obj[o].fill
  BY <1>1, Fields, TiedIsState
<1> HIDE DEF new
<1>3. TypeOK'
  BY <1>1, <1>2 DEF TypeOK
<1>4. \A q \in Objects : obj'[q] = IF q = o THEN new ELSE obj[q]
  BY <1>1 DEF TypeOK
<1>5. OneOwner'
  <2>1. \A q \in Objects : obj'[q] # Dead =>
          /\ obj[q] # Dead /\ obj'[q].mem = obj[q].mem /\ obj'[q].size = obj[q].size
          /\ obj'[q].fill <= obj[q].size
    BY <1>1, <1>2, <1>4, LiveIsState DEF OneOwner, Live
  <2> QED
    BY <1>1, <2>1, OwnersKept
<1> QED
  BY <1>3, <1>5

\* One object comes to own a new block; at most its own old one is freed.
LEMMA OwnersAdopt ==
  ASSUME TypeOK, OneOwner, NEW o \in Objects, NEW b \in Unused,
         obj'[o].mem = b, obj'[o].size # 0, obj'[o].fill <= obj'[o].size,
         \A q \in Objects \ {o} : obj'[q] # Dead =>
           /\ obj[q] # Dead /\ obj'[q].mem = obj[q].mem
           /\ obj'[q].size = obj[q].size /\ obj'[q].fill = obj[q].fill,
         b \in DOMAIN heap',
         \A q \in DOMAIN heap : q \in DOMAIN heap' \/ (obj[o] # Dead /\ q = obj[o].mem)
  PROVE  OneOwner'
<1>1. b # None /\ \A q \in Live : obj[q].mem # b
  BY ObjectAssumption DEF Unused, OneOwner
<1>2. \A q \in Live : q # o => obj[q].mem \in DOMAIN heap' \union {None}
  BY DEF OneOwner, Live
<1> QED
  BY <1>1, <1>2 DEF OneOwner, Live

\* One object comes to own nothing.
LEMMA OwnersNone ==
  ASSUME TypeOK, OneOwner, NEW o \in Objects, DOMAIN heap' = DOMAIN heap,
         obj'[o].mem = None, obj'[o].size = 0, obj'[o].fill = 0,
         \A q \in Objects \ {o} : obj'[q] # Dead =>
           /\ obj[q] # Dead /\ obj'[q].mem = obj[q].mem
           /\ obj'[q].size = obj[q].size /\ obj'[q].fill = obj[q].fill
  PROVE  OneOwner'
<1>1. \A q \in Live' : q # o => q \in Live
  BY DEF Live
<1> QED
  BY <1>1 DEF OneOwner, Live

\* One object hands its memory to another.
LEMMA OwnersMove ==
  ASSUME TypeOK, OneOwner, NEW o \in Objects, NEW s \in Objects, obj[s] # Dead,
         heap' = heap,
         obj'[s].mem = None, obj'[s].size = 0, obj'[s].fill = 0,
         o # s => /\ obj'[o].mem = obj[s].mem /\ obj'[o].size = obj[s].size
                  /\ obj'[o].fill = obj[s].fill,
         \A q \in Objects \ {o, s} : obj'[q] = obj[q]
  PROVE  OneOwner'
BY DEF OneOwner, Live

\* A copy gets a block of its own.
LEMMA CopyNewOwner ==
  ASSUME TypeOK, OneOwner, NEW o \in Objects, NEW s \in Objects, CopyNew(o, s)
  PROVE  TypeOK' /\ OneOwner'
<1> DEFINE fd == IF o \in IOObjects THEN obj[s].fd ELSE NoFd
<1>1. obj[o] = Dead /\ obj[s] # Dead /\ obj[s] \in States /\ ok' = ok
  BY LiveIsState DEF CopyNew, Quiet
<1>2. /\ fd \in Fds \union {NoFd} /\ obj[s].size \in {0, Size} /\ obj[s].fill \in 0 .. Size
      /\ obj[s].mem \in Blocks \union {None}
  BY <1>1, Fields
<1>3. s \in Live /\ obj[s].fill <= obj[s].size
  BY <1>1 DEF Live, OneOwner
<1>4. CASE obj[s].size # 0
  <2>1. PICK b \in Unused : /\ heap' = With(b, Copied(Raw, obj[s].mem, obj[s].fill))
                            /\ obj' = [obj EXCEPT ![o] = Object(b, obj[s].size, obj[s].fill, fd)]
    BY <1>4 DEF CopyNew
  <2> DEFINE new == Object(b, obj[s].size, obj[s].fill, fd)
  <2>2. b \in Blocks /\ b \in Blocks \union {None}
    BY DEF Unused
  <2>3. new \in States /\ new.mem = b /\ new.size = obj[s].size /\ new.fill = obj[s].fill
    BY <1>2, <2>2, ObjectIsState
  <2>4. Copied(Raw, obj[s].mem, obj[s].fill) \in Cells
    <3>1. obj[s].mem \in DOMAIN heap
      BY <1>3, <1>4 DEF OneOwner
    <3> QED
      BY <3>1, CopiesAreCells, RawIsCells
  <2> HIDE DEF new, fd
  <2>5. obj' = [obj EXCEPT ![o] = new]
    BY <2>1 DEF new
  <2>6. obj' \in [Objects -> States \union {Dead}]
    BY <2>3, <2>5 DEF TypeOK
  <2>7. TypeOK'
    BY <1>1, <2>1, <2>2, <2>4, <2>6, Heaps DEF TypeOK
  <2>8. \A q \in Objects : obj'[q] = IF q = o THEN new ELSE obj[q]
    BY <2>5 DEF TypeOK
  <2>9. DOMAIN heap' = DOMAIN heap \union {b}
    BY <2>1, <2>2, <2>4, Heaps
  <2>10. OneOwner'
    BY <1>3, <1>4, <2>3, <2>8, <2>9, OwnersAdopt
  <2> QED
    BY <2>7, <2>10
<1>5. CASE obj[s].size = 0
  <2> DEFINE new == Object(None, obj[s].size, obj[s].fill, fd)
  <2>1. heap' = heap /\ obj' = [obj EXCEPT ![o] = new]
    BY <1>5 DEF CopyNew
  <2>2. new \in States /\ new.mem = None /\ new.size = obj[s].size /\ new.fill = obj[s].fill
    BY <1>2, ObjectIsState
  <2> HIDE DEF new
  <2>3. TypeOK'
    BY <1>1, <2>1, <2>2 DEF TypeOK
  <2>4. \A q \in Objects : obj'[q] = IF q = o THEN new ELSE obj[q]
    BY <2>1 DEF TypeOK
  <2>5. OneOwner'
    BY <1>3, <1>5, <2>1, <2>2, <2>4 DEF OneOwner, Live
  <2> QED
    BY <2>3, <2>5
<1> QED
  BY <1>4, <1>5

\* A move takes the block over, and the source loses it.
LEMMA MoveNewOwner ==
  ASSUME TypeOK, OneOwner, NEW o \in Objects, NEW s \in Objects, MoveNew(o, s)
  PROVE  TypeOK' /\ OneOwner'
<1> DEFINE new == Object(obj[s].mem, obj[s].size, obj[s].fill, NoFd)
<1>1. /\ obj[o] = Dead /\ obj[s] # Dead /\ obj[s] \in States /\ ok' = ok /\ heap' = heap
      /\ obj' = [obj EXCEPT ![o] = new, ![s] = Robbed(obj[s])] /\ o # s
  BY LiveIsState DEF MoveNew, Quiet
<1>2. /\ obj[s].size \in {0, Size} /\ obj[s].fill \in 0 .. Size
      /\ obj[s].mem \in Blocks \union {None} /\ NoFd \in Fds \union {NoFd}
  BY <1>1, Fields
<1>3. /\ new \in States /\ new.mem = obj[s].mem /\ new.size = obj[s].size
      /\ new.fill = obj[s].fill
  <2>1. new \in States
    BY <1>2, ObjectIsState
  <2>2. new.mem = obj[s].mem
    BY DEF Object
  <2>3. new.size = obj[s].size
    BY DEF Object
  <2>4. new.fill = obj[s].fill
    BY DEF Object
  <2> QED
    BY <2>1, <2>2, <2>3, <2>4
<1> HIDE DEF new
<1>4. TypeOK'
  BY <1>1, <1>3, RobbedIsState DEF TypeOK
<1>5. obj'[o] = new /\ obj'[s] = Robbed(obj[s]) /\ \A q \in Objects \ {o, s} : obj'[q] = obj[q]
  BY <1>1 DEF TypeOK
<1>6. obj'[s].mem = None /\ obj'[s].size = 0 /\ obj'[s].fill = 0
  BY <1>1, <1>5, RobbedIsState
<1>7. OneOwner'
  BY <1>1, <1>3, <1>5, <1>6, OwnersMove
<1> QED
  BY <1>4, <1>7

\* What was in a Buffer before it is assigned by a move belongs to nobody afterwards, but
\* nothing belongs to two.
LEMMA MoveAssignOwner ==
  ASSUME TypeOK, OneOwner, NEW o \in Objects, NEW s \in Objects, MoveAssign(o, s)
  PROVE  TypeOK' /\ OneOwner'
<1> DEFINE new == Filled(obj[o], obj[s].mem, obj[s].size, obj[s].fill)
<1>1. /\ obj[o] # Dead /\ obj[s] # Dead /\ obj[o] \in States /\ obj[s] \in States
      /\ ok' = ok /\ heap' = heap
      /\ obj' = [obj EXCEPT ![o] = new, ![s] = Robbed(obj[s])]
  BY LiveIsState DEF MoveAssign, Quiet
<1>2. /\ obj[s].size \in {0, Size} /\ obj[s].fill \in 0 .. Size
      /\ obj[s].mem \in Blocks \union {None}
  BY <1>1, Fields
<1>3. /\ new \in States /\ new.mem = obj[s].mem /\ new.size = obj[s].size
      /\ new.fill = obj[s].fill
  <2>1. new \in States
    BY <1>1, <1>2 DEF Filled, States
  <2>2. new.mem = obj[s].mem
    BY DEF Filled
  <2>3. new.size = obj[s].size
    BY DEF Filled
  <2>4. new.fill = obj[s].fill
    BY DEF Filled
  <2> QED
    BY <2>1, <2>2, <2>3, <2>4
<1> HIDE DEF new
<1>4. TypeOK'
  BY <1>1, <1>3, RobbedIsState DEF TypeOK
<1>5. /\ o # s => obj'[o] = new
      /\ obj'[s] = Robbed(obj[s]) /\ \A q \in Objects \ {o, s} : obj'[q] = obj[q]
  BY <1>1 DEF TypeOK
<1>6. obj'[s].mem = None /\ obj'[s].size = 0 /\ obj'[s].fill = 0
  BY <1>1, <1>5, RobbedIsState
<1>7. OneOwner'
  BY <1>1, <1>3, <1>5, <1>6, OwnersMove
<1> QED
  BY <1>4, <1>7

\* The move of an IOBuffer is a copy, with a block of its own.
LEMMA MoveNewIOOwner ==
  ASSUME TypeOK, OneOwner, NEW o \in Objects, NEW s \in Objects, MoveNewIO(o, s)
  PROVE  TypeOK' /\ OneOwner'
<1> DEFINE old == Untied(obj[s])
<1>1. obj[o] = Dead /\ obj[s] # Dead /\ obj[s] \in States /\ ok' = ok /\ o # s
  BY LiveIsState DEF MoveNewIO, Quiet
<1>2. /\ obj[s].size \in {0, Size} /\ obj[s].fill \in 0 .. Size
      /\ obj[s].mem \in Blocks \union {None} /\ obj[s].fd \in Fds \union {NoFd}
  BY <1>1, Fields
<1>3. s \in Live /\ obj[s].fill <= obj[s].size
  BY <1>1 DEF Live, OneOwner
<1>4. old \in States /\ old.mem = obj[s].mem /\ old.size = obj[s].size /\ old.fill = obj[s].fill
  BY <1>1, UntiedIsState
<1>5. CASE obj[s].size # 0
  <2>1. PICK b \in Unused :
          /\ heap' = With(b, Copied(Raw, obj[s].mem, obj[s].fill))
          /\ obj' = [obj EXCEPT ![o] = Object(b, obj[s].size, obj[s].fill, obj[s].fd),
                                ![s] = Untied(obj[s])]
    BY <1>5 DEF MoveNewIO
  <2> DEFINE new == Object(b, obj[s].size, obj[s].fill, obj[s].fd)
  <2>2. b \in Blocks /\ b \in Blocks \union {None}
    BY DEF Unused
  <2>3. new \in States /\ new.mem = b /\ new.size = obj[s].size /\ new.fill = obj[s].fill
    BY <1>2, <2>2, ObjectIsState
  <2>4. Copied(Raw, obj[s].mem, obj[s].fill) \in Cells
    <3>1. obj[s].mem \in DOMAIN heap
      BY <1>3, <1>5 DEF OneOwner
    <3> QED
      BY <3>1, CopiesAreCells, RawIsCells
  <2> HIDE DEF new
  <2>5. obj' = [obj EXCEPT ![o] = new, ![s] = old]
    BY <1>1, <2>1 DEF new, TypeOK
  <2> HIDE DEF old
  <2>6. obj' \in [Objects -> States \union {Dead}]
    BY <1>4, <2>3, <2>5 DEF TypeOK
  <2>7. TypeOK'
    BY <1>1, <2>1, <2>2, <2>4, <2>6, Heaps DEF TypeOK
  <2>8. /\ obj'[o] = new /\ obj'[s] = old
        /\ \A q \in Objects \ {o, s} : obj'[q] = obj[q]
    BY <1>1, <2>5 DEF TypeOK
  <2>9. DOMAIN heap' = DOMAIN heap \union {b}
    BY <2>1, <2>2, <2>4, Heaps
  <2>10. OneOwner'
    BY <1>1, <1>3, <1>4, <1>5, <2>3, <2>8, <2>9, OwnersAdopt
  <2> QED
    BY <2>7, <2>10
<1>6. CASE obj[s].size = 0
  <2> DEFINE new == Object(None, obj[s].size, obj[s].fill, obj[s].fd)
  <2>1. heap' = heap /\ obj' = [obj EXCEPT ![o] = new, ![s] = old]
    BY <1>1, <1>6 DEF MoveNewIO, TypeOK
  <2>2. new \in States /\ new.mem = None /\ new.size = obj[s].size /\ new.fill = obj[s].fill
    <3>1. None \in Blocks \union {None}
      OBVIOUS
    <3> QED
      BY <1>2, <3>1, ObjectIsState
  <2> HIDE DEF new, old
  <2>3. TypeOK'
    BY <1>1, <1>4, <2>1, <2>2 DEF TypeOK
  <2>4. /\ obj'[o] = new /\ obj'[s] = old
        /\ \A q \in Objects \ {o, s} : obj'[q] = obj[q]
    BY <1>1, <2>1 DEF TypeOK
  <2>5. /\ obj'[o].mem = None /\ obj'[o].size = 0 /\ obj'[o].fill = 0
        /\ obj'[s].mem = obj[s].mem /\ obj'[s].size = obj[s].size
        /\ obj'[s].fill = obj[s].fill
    BY <1>2, <1>3, <1>4, <1>6, <2>2, <2>4
  <2>6. \A q \in Objects \ {o} : obj'[q] # Dead =>
          /\ obj[q] # Dead /\ obj'[q].mem = obj[q].mem
          /\ obj'[q].size = obj[q].size /\ obj'[q].fill = obj[q].fill
    BY <1>1, <2>4, <2>5
  <2>7. OneOwner'
    BY <2>1, <2>5, <2>6, OwnersNone
  <2> QED
    BY <2>3, <2>7
<1> QED
  BY <1>5, <1>6
\* An assignment by a copy, for objects of which only the other fields have changed.
LEMMA AssignedOwner ==
  ASSUME TypeOK, OneOwner, NEW o \in Objects, NEW s \in Objects,
         obj[o] \in States, obj[s] \in States, ok' = ok,
         NEW base \in [Objects -> States \union {Dead}], base[o] \in States,
         \A q \in Objects : base[q] # Dead =>
           /\ obj[q] # Dead /\ base[q].mem = obj[q].mem
           /\ base[q].size = obj[q].size /\ base[q].fill = obj[q].fill,
         Assigned(o, s, base)
  PROVE  TypeOK' /\ OneOwner'
<1>1. /\ obj[o].size \in {0, Size} /\ obj[o].fill \in 0 .. Size
      /\ obj[o].mem \in Blocks \union {None}
  BY Fields
<1>2. /\ obj[s].size \in {0, Size} /\ obj[s].fill \in 0 .. Size
      /\ obj[s].mem \in Blocks \union {None}
  BY Fields
<1>3. obj[o] # Dead /\ obj[s] # Dead /\ o \in Live /\ s \in Live
  BY Fields DEF Live
<1>4. /\ obj[s].fill <= obj[s].size /\ obj[o].fill <= obj[o].size
      /\ obj[s].size # 0 => obj[s].mem \in DOMAIN heap
      /\ obj[o].size # 0 => obj[o].mem \in DOMAIN heap
  BY <1>3 DEF OneOwner
<1>5. CASE obj[s].fill > obj[o].size
  <2>1. PICK b \in Unused :
          /\ obj' = [base EXCEPT ![o] = Filled(base[o], b, obj[s].size, obj[s].fill)]
          /\ heap' = [q \in (DOMAIN heap \union {b}) \ {obj[o].mem} |->
                        IF q = b THEN Copied(Raw, obj[s].mem, obj[s].fill) ELSE heap[q]]
    BY <1>5 DEF Assigned
  <2> DEFINE new == Filled(base[o], b, obj[s].size, obj[s].fill)
  <2>2. b \in Blocks /\ b \in Blocks \union {None} /\ b \notin DOMAIN heap /\ b # None
    BY ObjectAssumption DEF Unused
  <2>3. obj[s].size # 0 /\ obj[s].mem \in DOMAIN heap /\ b # obj[o].mem
    <3>1. obj[s].size # 0
      BY <1>1, <1>2, <1>4, <1>5, ObjectAssumption
    <3>2. obj[o].mem \in DOMAIN heap \union {None}
      BY <1>3 DEF OneOwner
    <3> QED
      BY <1>4, <2>2, <3>1, <3>2
  <2>4. new \in States /\ new.mem = b /\ new.size = obj[s].size /\ new.fill = obj[s].fill
    <3>1. new \in States
      BY <1>2, <2>2 DEF Filled, States
    <3>2. new.mem = b /\ new.size = obj[s].size
      BY DEF Filled
    <3>3. new.fill = obj[s].fill
      BY DEF Filled
    <3> QED
      BY <3>1, <3>2, <3>3
  <2>5. Copied(Raw, obj[s].mem, obj[s].fill) \in Cells
    BY <2>3, CopiesAreCells, RawIsCells
  <2> HIDE DEF new
  <2>6. obj' = [base EXCEPT ![o] = new]
    BY <2>1 DEF new
  <2>7. obj' \in [Objects -> States \union {Dead}]
    BY <2>4, <2>6
  <2>8. DOMAIN heap' \subseteq Blocks /\ \A q \in DOMAIN heap' : heap'[q] \in Cells
    BY <2>1, <2>2, <2>5 DEF TypeOK
  <2>9. TypeOK'
    BY <2>7, <2>8 DEF TypeOK
  <2>10. \A q \in Objects : obj'[q] = IF q = o THEN new ELSE base[q]
    BY <2>6
  <2>11. /\ b \in DOMAIN heap'
         /\ \A q \in DOMAIN heap : q \in DOMAIN heap' \/ q = obj[o].mem
    BY <2>1, <2>3
  <2>12. OneOwner'
    BY <1>3, <1>4, <2>3, <2>4, <2>10, <2>11, OwnersAdopt
  <2> QED
    BY <2>9, <2>12
<1>6. CASE ~(obj[s].fill > obj[o].size)
  <2> DEFINE new == Filled(base[o], obj[o].mem, obj[o].size, obj[s].fill)
             cells == Copied(heap[obj[o].mem], obj[s].mem, obj[s].fill)
  <2>1. /\ obj' = [base EXCEPT ![o] = new]
        /\ heap' = IF obj[s].fill = 0 THEN heap ELSE With(obj[o].mem, cells)
    BY <1>6 DEF Assigned
  <2>2. /\ new \in States /\ new.mem = obj[o].mem /\ new.size = obj[o].size
        /\ new.fill = obj[s].fill
    <3>1. new \in States
      BY <1>1, <1>2 DEF Filled, States
    <3>2. new.mem = obj[o].mem /\ new.size = obj[o].size
      BY DEF Filled
    <3>3. new.fill = obj[s].fill
      BY DEF Filled
    <3> QED
      BY <3>1, <3>2, <3>3
  <2> HIDE DEF new
  <2>3. obj' \in [Objects -> States \union {Dead}]
    BY <2>1, <2>2
  <2>4. /\ DOMAIN heap' = DOMAIN heap
        /\ DOMAIN heap' \subseteq Blocks /\ \A q \in DOMAIN heap' : heap'[q] \in Cells
    <3>1. CASE obj[s].fill # 0
      <4>1. obj[o].size # 0 /\ obj[s].size # 0
        BY <1>1, <1>2, <1>4, <1>6, <3>1, ObjectAssumption
      <4>2. obj[o].mem \in DOMAIN heap /\ obj[s].mem \in DOMAIN heap /\ obj[o].mem \in Blocks
        BY <1>4, <4>1 DEF TypeOK
      <4>3. heap[obj[o].mem] \in Cells
        BY <4>2 DEF TypeOK
      <4>4. cells \in Cells
        BY <4>2, <4>3, CopiesAreCells
      <4> HIDE DEF cells
      <4>5. heap' = With(obj[o].mem, cells)
        BY <2>1, <3>1
      <4> DEFINE p == obj[o].mem
      <4>6. p \in Blocks /\ p \in DOMAIN heap /\ heap' = With(p, cells)
        BY <4>2, <4>5
      <4> HIDE DEF p
      <4>7. DOMAIN heap' = DOMAIN heap \union {p}
        BY <4>4, <4>6, Heaps
      <4>8. DOMAIN heap' \subseteq Blocks /\ \A q \in DOMAIN heap' : heap'[q] \in Cells
        BY <4>4, <4>6, Heaps
      <4> QED
        BY <4>6, <4>7, <4>8
    <3>2. CASE obj[s].fill = 0
      BY <2>1, <3>2 DEF TypeOK
    <3> QED
      BY <3>1, <3>2
  <2>5. TypeOK'
    BY <2>3, <2>4 DEF TypeOK
  <2>6. \A q \in Objects : obj'[q] # Dead =>
          /\ obj[q] # Dead /\ obj'[q].mem = obj[q].mem /\ obj'[q].size = obj[q].size
          /\ obj'[q].fill <= obj[q].size
    <3>1. \A q \in Objects : obj'[q] = IF q = o THEN new ELSE base[q]
      BY <2>1
    <3>2. obj'[o].fill <= obj[o].size
      BY <1>1, <1>2, <1>6, <2>2, <3>1, ObjectAssumption
    <3>3. \A q \in Live : obj[q].fill <= obj[q].size
      BY DEF OneOwner
    <3> QED
      BY <1>3, <2>2, <3>1, <3>2, <3>3 DEF Live
  <2>7. OneOwner'
    BY <2>4, <2>6, OwnersKept
  <2> QED
    BY <2>5, <2>7
<1> QED
  BY <1>5, <1>6

\* An assignment writes to the block the object has.
LEMMA CopyAssignOwner ==
  ASSUME TypeOK, OneOwner, NEW o \in Objects, NEW s \in Objects, CopyAssign(o, s)
  PROVE  TypeOK' /\ OneOwner'
<1> DEFINE new == Tied(obj[o], obj[s].fd, "none")
           base == IF o \notin IOObjects THEN obj ELSE [obj EXCEPT ![o] = new]
<1>1. obj[o] \in States /\ obj[s] \in States /\ ok' = ok /\ Assigned(o, s, base)
  BY LiveIsState DEF CopyAssign, Quiet
<1>2. obj[s].fd \in Fds \union {NoFd} /\ obj[o] # Dead
  BY <1>1, Fields
<1>3. /\ new \in States /\ new.mem = obj[o].mem /\ new.size = obj[o].size
      /\ new.fill = obj[o].fill
  BY <1>1, <1>2, TiedIsState
<1> HIDE DEF new
<1>4. /\ base \in [Objects -> States \union {Dead}] /\ base[o] \in States
      /\ \A q \in Objects : base[q] # Dead =>
           /\ obj[q] # Dead /\ base[q].mem = obj[q].mem
           /\ base[q].size = obj[q].size /\ base[q].fill = obj[q].fill
  <2>1. CASE o \notin IOObjects
    BY <1>1, <2>1 DEF TypeOK
  <2>2. CASE o \in IOObjects
    <3>1. base = [obj EXCEPT ![o] = new]
      BY <2>2
    <3> HIDE DEF base
    <3>2. base \in [Objects -> States \union {Dead}]
      BY <1>3, <3>1 DEF TypeOK
    <3>3. \A q \in Objects : base[q] = IF q = o THEN new ELSE obj[q]
      BY <3>1 DEF TypeOK
    <3> QED
      BY <1>2, <1>3, <3>2, <3>3
  <2> QED
    BY <2>1, <2>2
<1> HIDE DEF base
<1> QED
  BY <1>1, <1>4, AssignedOwner

\* So does that of an IOBuffer by a move.
LEMMA MoveAssignIOOwner ==
  ASSUME TypeOK, OneOwner, NEW o \in Objects, NEW s \in Objects, MoveAssignIO(o, s)
  PROVE  TypeOK' /\ OneOwner'
<1> DEFINE new == Tied(obj[o], obj[s].fd, "none")
           mid == [obj EXCEPT ![o] = new]
           base == [mid EXCEPT ![s] = Untied(mid[s])]
<1>1. obj[o] \in States /\ obj[s] \in States /\ ok' = ok
  BY LiveIsState DEF MoveAssignIO, Quiet
<1>2. obj[s].fd \in Fds \union {NoFd} /\ obj[o] # Dead /\ obj[s] # Dead
  BY <1>1, Fields
<1>3. /\ new \in States /\ new.mem = obj[o].mem /\ new.size = obj[o].size
      /\ new.fill = obj[o].fill
  BY <1>1, <1>2, TiedIsState
<1>4. Assigned(o, s, base)
  BY DEF MoveAssignIO
<1> HIDE DEF new
<1>5. \A q \in Objects : mid[q] = IF q = o THEN new ELSE obj[q]
  BY DEF TypeOK
<1>6. /\ mid \in [Objects -> States \union {Dead}] /\ mid[s] \in States
      /\ mid[s].mem = obj[s].mem /\ mid[s].size = obj[s].size /\ mid[s].fill = obj[s].fill
  <2>1. mid \in [Objects -> States \union {Dead}]
    BY <1>3 DEF TypeOK
  <2> HIDE DEF mid
  <2> QED
    BY <1>1, <1>3, <1>5, <2>1
<1> HIDE DEF mid
<1>7. /\ Untied(mid[s]) \in States
      /\ Untied(mid[s]).mem = obj[s].mem /\ Untied(mid[s]).size = obj[s].size
      /\ Untied(mid[s]).fill = obj[s].fill
  BY <1>6, UntiedIsState
<1>8. base \in [Objects -> States \union {Dead}]
  BY <1>6, <1>7
<1>9. \A q \in Objects : base[q] = IF q = s THEN Untied(mid[s]) ELSE mid[q]
  BY <1>6
<1> HIDE DEF base
<1>10. base[o] \in States
  BY <1>3, <1>5, <1>7, <1>9
<1>11. \A q \in Objects : base[q] # Dead =>
         /\ obj[q] # Dead /\ base[q].mem = obj[q].mem
         /\ base[q].size = obj[q].size /\ base[q].fill = obj[q].fill
  BY <1>2, <1>3, <1>5, <1>7, <1>9
<1> QED
  BY <1>1, <1>4, <1>8, <1>10, <1>11, AssignedOwner

\* Reading fills a block.
LEMMA ReadOwner ==
  ASSUME TypeOK, OneOwner, NEW o \in Objects, Read(o)
  PROVE  TypeOK' /\ OneOwner'
<1>1. obj[o] # Dead /\ obj[o] \in States /\ o \in Live
  BY LiveIsState DEF Read, Live
<1>2. CASE ok' = FALSE /\ UNCHANGED <<obj, heap>>
  BY <1>2 DEF TypeOK, OneOwner, Live
<1>3. CASE Fails(o, "errno")
  BY <1>1, <1>3, FailsOwner
<1>4. CASE /\ obj[o].mem # None /\ ok' = TRUE
           /\ \E n \in 0 .. obj[o].size : \E s \in [1 .. n -> Chars] :
                /\ obj' = [obj EXCEPT ![o] = Object(obj[o].mem, obj[o].size, n, obj[o].fd)]
                /\ heap' = With(obj[o].mem,
                                [i \in 1 .. Size |-> IF i <= n THEN s[i] ELSE heap[obj[o].mem][i]])
  <2>1. PICK n \in 0 .. obj[o].size : \E s \in [1 .. n -> Chars] :
          /\ obj' = [obj EXCEPT ![o] = Object(obj[o].mem, obj[o].size, n, obj[o].fd)]
          /\ heap' = With(obj[o].mem,
                          [i \in 1 .. Size |-> IF i <= n THEN s[i] ELSE heap[obj[o].mem][i]])
    BY <1>4
  <2>2. PICK s \in [1 .. n -> Chars] :
          /\ obj' = [obj EXCEPT ![o] = Object(obj[o].mem, obj[o].size, n, obj[o].fd)]
          /\ heap' = With(obj[o].mem,
                          [i \in 1 .. Size |-> IF i <= n THEN s[i] ELSE heap[obj[o].mem][i]])
    BY <2>1
  <2> DEFINE p == obj[o].mem
             new == Object(p, obj[o].size, n, obj[o].fd)
             cells == [i \in 1 .. Size |-> IF i <= n THEN s[i] ELSE heap[p][i]]
  <2>3. /\ obj[o].size \in {0, Size} /\ n \in 0 .. Size /\ obj[o].fd \in Fds \union {NoFd}
        /\ p \in Blocks \union {None}
    <3>1. obj[o].size \in {0, Size} /\ obj[o].fd \in Fds \union {NoFd} /\ p \in Blocks \union {None}
      BY <1>1, Fields
    <3>2. n \in 0 .. Size
      BY <3>1, ObjectAssumption
    <3> QED
      BY <3>1, <3>2
  <2>4. new \in States /\ new.mem = p /\ new.size = obj[o].size /\ new.fill = n
    <3>1. new \in States
      BY <2>3 DEF Object, States
    <3>2. new.mem = p /\ new.size = obj[o].size /\ new.fill = n
      BY DEF Object
    <3> QED
      BY <3>1, <3>2
  <2>5. p \in DOMAIN heap /\ p \in Blocks
    BY <1>1, <1>4 DEF OneOwner, TypeOK
  <2>6. obj' = [obj EXCEPT ![o] = new] /\ heap' = With(p, cells)
    BY <2>2
  <2> HIDE DEF new, p
  <2>7. heap[p] \in Cells
    BY <2>5 DEF TypeOK
  <2>8. cells \in Cells
    <3>1. \A i \in 1 .. Size : cells[i] \in Chars \union {Junk}
      BY <2>7, <2>3, ObjectAssumption DEF Cells
    <3> QED
      BY <3>1 DEF Cells
  <2> HIDE DEF cells
  <2>9. DOMAIN heap' = DOMAIN heap \union {p}
    BY <2>5, <2>6, <2>8, Heaps
  <2>10. DOMAIN heap' \subseteq Blocks /\ \A q \in DOMAIN heap' : heap'[q] \in Cells
    BY <2>5, <2>6, <2>8, Heaps
  <2>11. obj' \in [Objects -> States \union {Dead}]
    BY <2>4, <2>6 DEF TypeOK
  <2>12. TypeOK'
    BY <1>4, <2>10, <2>11 DEF TypeOK
  <2>13. \A q \in Objects : obj'[q] = IF q = o THEN new ELSE obj[q]
    BY <2>6 DEF TypeOK
  <2>14. n <= obj[o].size
    BY <2>3, ObjectAssumption
  <2>15. \A q \in Objects : obj'[q] # Dead =>
           /\ obj[q] # Dead /\ obj'[q].mem = obj[q].mem /\ obj'[q].size = obj[q].size
           /\ obj'[q].fill <= obj[q].size
    <3>1. new.mem = obj[o].mem /\ new.size = obj[o].size /\ new.fill <= obj[o].size
      BY <2>4, <2>14 DEF p
    <3>2. \A q \in Live : obj[q].fill <= obj[q].size
      BY DEF OneOwner
    <3> QED
      BY <1>1, <2>13, <3>1, <3>2 DEF Live
  <2>16. DOMAIN heap' = DOMAIN heap
    BY <2>5, <2>9
  <2>17. OneOwner'
    BY <2>15, <2>16, OwnersKept
  <2> QED
    BY <2>12, <2>17
<1> QED
  BY <1>2, <1>3, <1>4 DEF Read

\* Writing takes from it.
LEMMA WriteOwner ==
  ASSUME TypeOK, OneOwner, NEW o \in Objects, Write(o)
  PROVE  TypeOK' /\ OneOwner'
<1>1. obj[o] # Dead /\ obj[o] \in States
  BY LiveIsState DEF Write
<1>2. CASE ok' \in BOOLEAN /\ UNCHANGED <<obj, heap>>
  BY <1>2 DEF TypeOK, OneOwner, Live
<1>3. CASE Fails(o, "minus1")
  BY <1>1, <1>3, FailsOwner
<1>4. CASE Fails(o, "none")
  BY <1>1, <1>4, FailsOwner
<1>5. CASE /\ obj' = [obj EXCEPT ![o] = Tied(obj[o], obj[o].fd, "none")]
           /\ UNCHANGED heap /\ ok' = TRUE
  <2> DEFINE new == Tied(obj[o], obj[o].fd, "none")
  <2>1. new \in States /\ new.mem = obj[o].mem /\ new.size = obj[o].size /\ new.fill = obj[o].fill
    <3>1. obj[o].fd \in Fds \union {NoFd} /\ "none" \in {"none", "errno", "minus1"}
      BY <1>1, Fields
    <3> QED
      BY <1>1, <3>1, TiedIsState
  <2>2. obj' = [obj EXCEPT ![o] = new] /\ heap' = heap /\ ok' = TRUE
    BY <1>5
  <2> HIDE DEF new
  <2>3. TypeOK'
    BY <2>1, <2>2 DEF TypeOK
  <2>4. \A q \in Objects : obj'[q] = IF q = o THEN new ELSE obj[q]
    BY <2>2 DEF TypeOK
  <2>5. \A q \in Objects : obj'[q] # Dead =>
          /\ obj[q] # Dead /\ obj'[q].mem = obj[q].mem /\ obj'[q].size = obj[q].size
          /\ obj'[q].fill <= obj[q].size
    BY <1>1, <2>1, <2>4, LiveIsState DEF OneOwner, Live
  <2> QED
    BY <2>2, <2>3, <2>5, OwnersKept
<1> QED
  BY <1>2, <1>3, <1>4, <1>5 DEF Write

-----------------------------------------------------------------------------
\* So does every step.
LEMMA OwnerStep ==
  ASSUME TypeOK, OneOwner, [Next]_vars
  PROVE  TypeOK' /\ OneOwner'
<1>1. CASE UNCHANGED vars
  BY <1>1 DEF vars, TypeOK, OneOwner, Live
<1>2. ASSUME NEW o \in Objects \ IOObjects, New(o, NoFd)
      PROVE  TypeOK' /\ OneOwner'
  <2>1. NoFd \in Fds \union {NoFd}
    OBVIOUS
  <2> QED
    BY <1>2, <2>1, NewOwner
<1>3. ASSUME NEW o \in IOObjects, NEW fd \in Fds \union {NoFd}, New(o, fd) \/ SetFd(o, fd)
      PROVE  TypeOK' /\ OneOwner'
  BY <1>3, ObjectAssumption, NewOwner, SetFdOwner
<1>4. ASSUME NEW o \in IOObjects, Read(o) \/ Write(o)
      PROVE  TypeOK' /\ OneOwner'
  BY <1>4, ObjectAssumption, ReadOwner, WriteOwner
<1>5. ASSUME NEW o \in Objects, NEW s \in Objects,
             \/ CopyNew(o, s) \/ MoveNew(o, s) \/ MoveNewIO(o, s)
             \/ CopyAssign(o, s) \/ MoveAssign(o, s) \/ MoveAssignIO(o, s)
      PROVE  TypeOK' /\ OneOwner'
  BY <1>5, CopyNewOwner, MoveNewOwner, MoveNewIOOwner, CopyAssignOwner, MoveAssignOwner,
     MoveAssignIOOwner
<1>6. ASSUME NEW o \in Objects, Delete(o)
      PROVE  TypeOK' /\ OneOwner'
  BY <1>6, DeleteOwner
<1> QED
  BY <1>1, <1>2, <1>3, <1>4, <1>5, <1>6 DEF Next

\* No object, no block.
LEMMA OwnerInit ==
  ASSUME Init
  PROVE  TypeOK /\ OneOwner
<1>1. /\ obj = [o \in Objects |-> Dead] /\ heap = <<>> /\ ok = TRUE
      /\ DOMAIN heap = {} /\ Live = {}
  BY DEF Init, Live
<1> QED
  BY <1>1 DEF TypeOK, OneOwner

\* An object is dead or has a state of its kind, and allocated memory holds characters, some of
\* which nobody may have written (Buffer and IOBuffer in buffer.hpp and iobuffer.hpp).
THEOREM TypeTheorem == Spec => []TypeOK
<1>1. Init => TypeOK /\ OneOwner
  BY OwnerInit
<1>2. TypeOK /\ OneOwner /\ [Next]_vars => TypeOK' /\ OneOwner'
  BY OwnerStep
<1> QED
  BY <1>1, <1>2, PTL DEF Spec

\* Each block of memory has at most one owner, and who owns one owns memory that is allocated,
\* of the size it says: no destructor frees twice and no copy reads what was freed, in any order
\* of the operations of buffer.cpp and iobuffer.cpp, on the same object and after a move too.
THEOREM OwnerTheorem == Spec => []OneOwner
<1>1. Init => TypeOK /\ OneOwner
  BY OwnerInit
<1>2. TypeOK /\ OneOwner /\ [Next]_vars => TypeOK' /\ OneOwner'
  BY OwnerStep
<1> QED
  BY <1>1, <1>2, PTL DEF Spec

-----------------------------------------------------------------------------
(* What the objects hold.                                                   *)

Text == Chars \union {Junk}

\* The first characters of equal memory are equal.
LEMMA SameText ==
  ASSUME NEW c \in Cells, NEW d \in Cells, NEW n \in 0 .. Size,
         \A i \in 1 .. n : c[i] = d[i]
  PROVE  SubSeq(c, 1, n) = SubSeq(d, 1, n)
<1>1. Size \in Nat /\ n \in Nat
  BY ObjectAssumption
<1>2. \A i \in 1 .. n : c[i] \in Text /\ d[i] \in Text
  BY <1>1 DEF Cells, Text
<1>3. /\ SubSeq(c, 1, n) \in Seq(Text) /\ SubSeq(d, 1, n) \in Seq(Text)
      /\ Len(SubSeq(c, 1, n)) = n /\ Len(SubSeq(d, 1, n)) = n
      /\ \A i \in 1 .. n : SubSeq(c, 1, n)[i] = c[i] /\ SubSeq(d, 1, n)[i] = d[i]
  <2>1. 1 \in Int /\ n \in Int /\ n - 1 + 1 = n
    BY <1>1
  <2>2. /\ SubSeq(c, 1, n) \in Seq(Text)
        /\ Len(SubSeq(c, 1, n)) = IF 1 <= n THEN n - 1 + 1 ELSE 0
        /\ \A i \in 1 .. n - 1 + 1 : SubSeq(c, 1, n)[i] = c[1 + i - 1]
    BY <1>2, <2>1, SubSeqProperties
  <2>3. /\ SubSeq(d, 1, n) \in Seq(Text)
        /\ Len(SubSeq(d, 1, n)) = IF 1 <= n THEN n - 1 + 1 ELSE 0
        /\ \A i \in 1 .. n - 1 + 1 : SubSeq(d, 1, n)[i] = d[1 + i - 1]
    BY <1>2, <2>1, SubSeqProperties
  <2> QED
    BY <1>1, <2>1, <2>2, <2>3
<1> QED
  BY <1>3, SeqEqual

\* What an object holds is text, and an object that exists is not one that does not.
LEMMA HeldIsText ==
  ASSUME TypeOK, OneOwner, NEW o \in Objects, obj[o] # Dead
  PROVE  /\ Content[o] = Held(o) /\ Held(o) \in Seq(Text) /\ Content[o] # Dead
         /\ obj[o].fill = 0 => Content[o] = <<>>
<1>1. obj[o] \in States /\ o \in Live
  BY LiveIsState DEF Live
<1>2. obj[o].fill \in 0 .. Size /\ Size \in Nat
  BY <1>1, Fields, ObjectAssumption
<1>3. Dead \notin Seq(Text) /\ <<>> \in Seq(Text)
  BY ObjectAssumption DEF Text
<1>4. Content[o] = Held(o)
  BY DEF Content
<1>5. CASE obj[o].mem = None
  <2>1. Held(o) = <<>>
    BY <1>5 DEF Held
  <2> QED
    BY <1>3, <1>4, <2>1
<1>6. CASE obj[o].mem # None
  <2> DEFINE c == heap[obj[o].mem]  n == obj[o].fill
  <2>1. c \in Cells
    BY <1>1, <1>6 DEF OneOwner, TypeOK
  <2>2. \A i \in 1 .. n : c[i] \in Text
    BY <1>2, <2>1 DEF Cells, Text
  <2>3. 1 \in Int /\ n \in Int
    BY <1>2
  <2> HIDE DEF c, n
  <2>4. SubSeq(c, 1, n) \in Seq(Text) /\ (n < 1 => SubSeq(c, 1, n) = <<>>)
    BY <2>2, <2>3, SubSeqProperties, SubSeqEmpty
  <2>5. Held(o) = SubSeq(c, 1, n)
    BY <1>6 DEF Held, c, n
  <2>6. n = 0 => Held(o) = <<>>
    BY <2>4, <2>5
  <2>7. obj[o].fill = 0 => Held(o) = <<>>
    BY <2>6 DEF n
  <2> QED
    BY <1>3, <1>4, <2>4, <2>5, <2>7
<1> QED
  BY <1>5, <1>6

\* The objects besides o keep their memory and what is in it.
Others(o) ==
  \A q \in Objects \ {o} :
    /\ obj'[q] = Dead <=> obj[q] = Dead
    /\ obj[q] # Dead =>
         /\ obj'[q].mem = obj[q].mem /\ obj'[q].fill = obj[q].fill
         /\ obj[q].mem # None => heap'[obj[q].mem] = heap[obj[q].mem]

\* The object o keeps its memory, or the memory is freed.
Keeps(o) ==
  obj[o] # Dead =>
    (obj'[o] # Dead /\ obj'[o].mem = obj[o].mem) \/ obj[o].mem \notin DOMAIN heap'

\* Memory that is owned and not freed is still owned.
NothingLost == \A b \in DOMAIN heap : Owned(b) /\ b \in DOMAIN heap' => Owned(b)'

\* An operation that does not touch the other objects leaves their values alone.
LEMMA OthersHold ==
  ASSUME NEW o \in Objects, Others(o)
  PROVE  \A q \in Objects \ {o} : Content'[q] = Content[q]
BY DEF Others, Content, Held

\* An operation that keeps the block of its object loses none.
LEMMA OthersOwn ==
  ASSUME NEW o \in Objects, Others(o), Keeps(o)
  PROVE  NothingLost
BY DEF Others, Keeps, NothingLost, Owned

\* The value of one object changes.
LEMMA ContentNext ==
  ASSUME NEW o \in Objects, Others(o), NEW v, Content'[o] = v
  PROVE  Content' = [Content EXCEPT ![o] = v]
<1>1. \A q \in Objects : Content'[q] = IF q = o THEN v ELSE Content[q]
  BY OthersHold
<1>2. Content' = [q \in Objects |-> Content'[q]] /\ Content = [q \in Objects |-> Content[q]]
  BY DEF Content
<1> QED
  BY <1>1, <1>2

\* An object that does not change its memory, in a heap that stays.
LEMMA SameHolds ==
  ASSUME NEW o \in Objects, Others(o), heap' = heap, obj[o] # Dead, obj'[o] # Dead,
         obj'[o].mem = obj[o].mem, obj'[o].fill = obj[o].fill
  PROVE  Content' = Content /\ Keeps(o)
<1>1. Content'[o] = Content[o]
  BY DEF Content, Held
<1>2. Content' = [Content EXCEPT ![o] = Content[o]]
  BY <1>1, ContentNext
<1> QED
  BY <1>2 DEF Content, Keeps

\* An object o comes to hold what s holds.
LEMMA HoldsCopy ==
  ASSUME TypeOK, OneOwner, TypeOK', OneOwner', NEW o \in Objects, NEW s \in Objects,
         obj[s] # Dead, obj'[o] # Dead, obj'[o].fill = obj[s].fill,
         obj[s].fill # 0 => \A i \in 1 .. obj[s].fill :
                              heap'[obj'[o].mem][i] = heap[obj[s].mem][i],
         Others(o)
  PROVE  Abstract!Copy(o, s)
<1>1. obj[s] \in States /\ s \in Live
  BY LiveIsState DEF Live
<1>2. obj[s].fill \in 0 .. Size /\ obj[s].size \in {0, Size}
  BY <1>1, Fields
<1>3. Content[s] = Held(s) /\ Content[s] # Dead
  BY HeldIsText
<1>4. Content'[o] = Held(o)'
  BY DEF Content
<1>5. CASE obj[s].fill = 0
  <2>1. Content[s] = <<>>
    BY <1>5, HeldIsText
  <2>2. Content'[o] = <<>>
    <3>1. SubSeq(heap'[obj'[o].mem], 1, 0) = <<>>
      BY SubSeqEmpty
    <3> QED
      BY <1>4, <1>5, <3>1 DEF Held
  <2> QED
    BY <1>3, <2>1, <2>2, ContentNext DEF Abstract!Copy, Abstract!Exists
<1>6. CASE obj[s].fill # 0
  <2>1. obj[s].mem # None /\ heap[obj[s].mem] \in Cells
    <3>1. obj[s].fill <= obj[s].size /\ obj[s].size # 0
      BY <1>1, <1>2, <1>6, ObjectAssumption DEF OneOwner
    <3> QED
      BY <1>1, <3>1 DEF OneOwner, TypeOK
  <2>2. obj'[o].mem # None /\ heap'[obj'[o].mem] \in Cells
    <3>1. obj'[o] \in States /\ o \in Live'
      BY ObjectAssumption DEF TypeOK, Live
    <3>2. obj'[o].size \in {0, Size}
      BY <3>1, Fields
    <3>3. obj'[o].fill <= obj'[o].size
      BY <3>1 DEF OneOwner
    <3>4. obj'[o].size # 0
      BY <1>2, <1>6, <3>2, <3>3, ObjectAssumption
    <3> QED
      BY <3>1, <3>4 DEF OneOwner, TypeOK
  <2>3. SubSeq(heap'[obj'[o].mem], 1, obj[s].fill) = SubSeq(heap[obj[s].mem], 1, obj[s].fill)
    BY <1>2, <1>6, <2>1, <2>2, SameText
  <2>4. Content'[o] = Content[s]
    BY <1>3, <1>4, <2>1, <2>2, <2>3 DEF Held
  <2> QED
    BY <1>3, <2>4, ContentNext DEF Abstract!Copy, Abstract!Exists
<1> QED
  BY <1>5, <1>6

-----------------------------------------------------------------------------
(* Each operation is one on values. *)

\* Each operation changes the values as Values says, and loses no block that the destructor
\* could still give back.  A new object has an empty value.
LEMMA NewValue ==
  ASSUME TypeOK, OneOwner, NEW o \in Objects, NEW fd \in Fds \union {NoFd}, New(o, fd)
  PROVE  Abstract!New(o) /\ NothingLost
<1>1. PICK b \in Unused : /\ heap' = With(b, Raw)
                          /\ obj' = [obj EXCEPT ![o] = Object(b, Size, 0, fd)]
  BY DEF New
<1> DEFINE new == Object(b, Size, 0, fd)
<1>2. /\ new \in States /\ new.mem = b /\ new.fill = 0 /\ new # Dead /\ obj[o] = Dead
      /\ b \in Blocks /\ b \notin DOMAIN heap
  <2>1. /\ b \in Blocks \union {None} /\ b \in Blocks /\ b \notin DOMAIN heap
        /\ Size \in {0, Size} /\ 0 \in 0 .. Size
    BY ObjectAssumption DEF Unused
  <2>2. new \in States /\ new.mem = b /\ new.fill = 0
    BY <2>1, ObjectIsState
  <2> QED
    BY <2>1, <2>2, Fields DEF New
<1> HIDE DEF new
<1>3. \A q \in Objects : obj'[q] = IF q = o THEN new ELSE obj[q]
  BY <1>1 DEF TypeOK, new
<1>4. \A p \in DOMAIN heap : heap'[p] = heap[p]
  BY <1>1, <1>2 DEF With
<1>5. Others(o) /\ Keeps(o)
  BY <1>2, <1>3, <1>4 DEF Others, Keeps, OneOwner, Live
<1>6. Content'[o] = <<>>
  <2>1. SubSeq(heap'[b], 1, 0) = <<>>
    BY SubSeqEmpty
  <2> QED
    BY <1>2, <1>3, <2>1 DEF Content, Held
<1>7. Content' = [Content EXCEPT ![o] = <<>>]
  BY <1>5, <1>6, ContentNext
<1>8. Content[o] = Dead
  BY <1>2 DEF Content
<1> QED
  BY <1>5, <1>7, <1>8, OthersOwn DEF Abstract!New, Abstract!Exists

\* A deleted one has none.
LEMMA DeleteValue ==
  ASSUME TypeOK, OneOwner, NEW o \in Objects, Delete(o)
  PROVE  Abstract!Delete(o) /\ NothingLost
<1>1. obj[o] # Dead /\ o \in Live /\ heap' = Without(obj[o].mem) /\ obj' = [obj EXCEPT ![o] = Dead]
  BY DEF Delete, Live
<1>2. \A q \in Objects : obj'[q] = IF q = o THEN Dead ELSE obj[q]
  BY <1>1 DEF TypeOK
<1>3. /\ DOMAIN heap' = DOMAIN heap \ {obj[o].mem}
      /\ \A p \in DOMAIN heap : p # obj[o].mem => heap'[p] = heap[p]
  BY <1>1 DEF Without
<1>4. Keeps(o)
  BY <1>3 DEF Keeps
<1>5. Others(o)
  <2> SUFFICES ASSUME NEW q \in Objects \ {o}, obj[q] # Dead, obj[q].mem # None
               PROVE  heap'[obj[q].mem] = heap[obj[q].mem]
    BY <1>2 DEF Others
  <2>1. q \in Live /\ obj[q].mem # obj[o].mem /\ obj[q].mem \in DOMAIN heap
    BY <1>1 DEF OneOwner, Live
  <2> QED
    BY <1>3, <2>1
<1>6. Content'[o] = Dead /\ Content[o] # Dead
  BY <1>1, <1>2, HeldIsText DEF Content
<1>7. Content' = [Content EXCEPT ![o] = Dead]
  BY <1>5, <1>6, ContentNext
<1> QED
  BY <1>4, <1>5, <1>6, <1>7, OthersOwn DEF Abstract!Delete, Abstract!Exists

\* The descriptor is no part of a value.
LEMMA SetFdValue ==
  ASSUME TypeOK, OneOwner, NEW o \in Objects, NEW fd \in Fds \union {NoFd}, SetFd(o, fd)
  PROVE  Content' = Content /\ NothingLost
<1> DEFINE new == Tied(obj[o], fd, obj[o].err)
<1>1. obj[o] \in States /\ obj' = [obj EXCEPT ![o] = new] /\ heap' = heap
  BY LiveIsState DEF SetFd
<1>2. /\ new \in States /\ new # Dead /\ obj[o] # Dead
      /\ new.mem = obj[o].mem /\ new.fill = obj[o].fill
  BY <1>1, Fields, TiedIsState
<1> HIDE DEF new
<1>3. \A q \in Objects : obj'[q] = IF q = o THEN new ELSE obj[q]
  BY <1>1 DEF TypeOK
<1>4. Others(o)
  BY <1>1, <1>3 DEF Others
<1> QED
  BY <1>1, <1>2, <1>3, <1>4, SameHolds, OthersOwn

\* A call of the system that moves nothing, whatever it returns.
LEMMA CallValue ==
  ASSUME TypeOK, OneOwner, NEW o \in Objects, obj[o] # Dead,
         NEW code \in {"none", "errno", "minus1"}, heap' = heap,
         obj' = [obj EXCEPT ![o] = Tied(obj[o], obj[o].fd, code)]
  PROVE  Content' = Content /\ NothingLost
<1> DEFINE new == Tied(obj[o], obj[o].fd, code)
<1>1. obj[o] \in States /\ obj' = [obj EXCEPT ![o] = new]
  BY LiveIsState
<1>2. /\ new \in States /\ new # Dead
      /\ new.mem = obj[o].mem /\ new.fill = obj[o].fill
  BY <1>1, Fields, TiedIsState
<1> HIDE DEF new
<1>3. \A q \in Objects : obj'[q] = IF q = o THEN new ELSE obj[q]
  BY <1>1 DEF TypeOK
<1>4. Others(o)
  BY <1>1, <1>3 DEF Others
<1> QED
  BY <1>1, <1>2, <1>3, <1>4, SameHolds, OthersOwn

\* Writing changes no value.
LEMMA WriteValue ==
  ASSUME TypeOK, OneOwner, NEW o \in Objects, Write(o)
  PROVE  Content' = Content /\ NothingLost
<1>1. obj[o] # Dead
  BY DEF Write
<1>2. CASE UNCHANGED <<obj, heap>>
  BY <1>2 DEF Content, Held, NothingLost, Owned
<1>3. CASE Fails(o, "minus1")
  BY <1>1, <1>3, CallValue DEF Fails
<1>4. CASE Fails(o, "none")
  BY <1>1, <1>4, CallValue DEF Fails
<1>5. CASE obj' = [obj EXCEPT ![o] = Tied(obj[o], obj[o].fd, "none")] /\ UNCHANGED heap
  BY <1>1, <1>5, CallValue
<1> QED
  BY <1>2, <1>3, <1>4, <1>5 DEF Write

\* A copy has the value of the source.
LEMMA CopyNewValue ==
  ASSUME TypeOK, OneOwner, TypeOK', OneOwner', NEW o \in Objects, NEW s \in Objects,
         CopyNew(o, s)
  PROVE  Abstract!Copy(o, s) /\ NothingLost
<1> DEFINE fd == IF o \in IOObjects THEN obj[s].fd ELSE NoFd
<1>1. obj[o] = Dead /\ obj[s] # Dead /\ obj[s] \in States /\ s \in Live
  BY LiveIsState DEF CopyNew, Live
<1>2. /\ obj[s].size \in {0, Size} /\ obj[s].fill \in 0 .. Size /\ obj[s].fill <= obj[s].size
      /\ fd \in Fds \union {NoFd}
  BY <1>1, Fields DEF OneOwner
<1>3. Keeps(o)
  BY <1>1 DEF Keeps
<1>4. CASE obj[s].size # 0
  <2>1. PICK b \in Unused : /\ heap' = With(b, Copied(Raw, obj[s].mem, obj[s].fill))
                            /\ obj' = [obj EXCEPT ![o] = Object(b, obj[s].size, obj[s].fill, fd)]
    BY <1>4 DEF CopyNew
  <2> DEFINE new == Object(b, obj[s].size, obj[s].fill, fd)
  <2>2. b \in Blocks \union {None} /\ b \notin DOMAIN heap
    BY DEF Unused
  <2>3. new \in States /\ new.mem = b /\ new.fill = obj[s].fill /\ new # Dead
    BY <1>2, <2>2, ObjectIsState, Fields
  <2> HIDE DEF new, fd
  <2>4. \A q \in Objects : obj'[q] = IF q = o THEN new ELSE obj[q]
    BY <2>1 DEF TypeOK, new
  <2>5. heap'[b] = Copied(Raw, obj[s].mem, obj[s].fill) /\ \A p \in DOMAIN heap : heap'[p] = heap[p]
    BY <2>1, <2>2 DEF With
  <2>6. Others(o)
    BY <1>1, <2>4, <2>5 DEF Others, OneOwner, Live
  <2>7. \A i \in 1 .. obj[s].fill : heap'[obj'[o].mem][i] = heap[obj[s].mem][i]
    BY <1>2, <2>3, <2>4, <2>5, ObjectAssumption DEF Copied
  <2> QED
    BY <1>1, <1>3, <2>3, <2>4, <2>6, <2>7, HoldsCopy, OthersOwn
<1>5. CASE obj[s].size = 0
  <2> DEFINE new == Object(None, obj[s].size, obj[s].fill, fd)
  <2>1. heap' = heap /\ obj' = [obj EXCEPT ![o] = new]
    BY <1>5 DEF CopyNew
  <2>2. new \in States /\ new.mem = None /\ new.fill = obj[s].fill /\ new # Dead
    <3>1. None \in Blocks \union {None}
      OBVIOUS
    <3> QED
      BY <1>2, <3>1, ObjectIsState, Fields
  <2> HIDE DEF new
  <2>3. \A q \in Objects : obj'[q] = IF q = o THEN new ELSE obj[q]
    BY <2>1 DEF TypeOK
  <2>4. Others(o) /\ obj[s].fill = 0
    BY <1>2, <1>5, <2>1, <2>3 DEF Others
  <2> QED
    BY <1>1, <1>3, <2>2, <2>3, <2>4, HoldsCopy, OthersOwn
<1> QED
  BY <1>4, <1>5

\* So has an IOBuffer that is constructed from another by a move.
LEMMA MoveNewIOValue ==
  ASSUME TypeOK, OneOwner, TypeOK', OneOwner', NEW o \in Objects, NEW s \in Objects,
         MoveNewIO(o, s)
  PROVE  Abstract!Copy(o, s) /\ NothingLost
<1> DEFINE old == Untied(obj[s])
<1>1. obj[o] = Dead /\ obj[s] # Dead /\ obj[s] \in States /\ s \in Live /\ o # s
  BY LiveIsState DEF MoveNewIO, Live
<1>2. /\ obj[s].size \in {0, Size} /\ obj[s].fill \in 0 .. Size /\ obj[s].fill <= obj[s].size
      /\ obj[s].fd \in Fds \union {NoFd}
  BY <1>1, Fields DEF OneOwner
<1>3. old \in States /\ old # Dead /\ old.mem = obj[s].mem /\ old.fill = obj[s].fill
  BY <1>1, UntiedIsState, Fields
<1>4. Keeps(o)
  BY <1>1 DEF Keeps
<1>5. CASE obj[s].size # 0
  <2>1. PICK b \in Unused :
          /\ heap' = With(b, Copied(Raw, obj[s].mem, obj[s].fill))
          /\ obj' = [obj EXCEPT ![o] = Object(b, obj[s].size, obj[s].fill, obj[s].fd),
                                ![s] = Untied(obj[s])]
    BY <1>5 DEF MoveNewIO
  <2> DEFINE new == Object(b, obj[s].size, obj[s].fill, obj[s].fd)
  <2>2. b \in Blocks \union {None} /\ b \notin DOMAIN heap
    BY DEF Unused
  <2>3. new \in States /\ new.mem = b /\ new.fill = obj[s].fill /\ new # Dead
    BY <1>2, <2>2, ObjectIsState, Fields
  <2> HIDE DEF new
  <2>4. obj' = [obj EXCEPT ![o] = new, ![s] = old]
    BY <2>1 DEF new
  <2> HIDE DEF old
  <2>5. obj'[o] = new /\ obj'[s] = old /\ \A q \in Objects \ {o, s} : obj'[q] = obj[q]
    BY <1>1, <2>4 DEF TypeOK
  <2>6. heap'[b] = Copied(Raw, obj[s].mem, obj[s].fill) /\ \A p \in DOMAIN heap : heap'[p] = heap[p]
    BY <2>1, <2>2 DEF With
  <2>7. \A q \in Live : obj[q].mem # None => heap'[obj[q].mem] = heap[obj[q].mem]
    BY <2>6 DEF OneOwner
  <2>8. Others(o)
    BY <1>1, <1>3, <2>5, <2>7 DEF Others, Live
  <2>9. \A i \in 1 .. obj[s].fill : heap'[obj'[o].mem][i] = heap[obj[s].mem][i]
    BY <1>2, <2>3, <2>5, <2>6, ObjectAssumption DEF Copied
  <2> QED
    BY <1>1, <1>4, <2>3, <2>5, <2>8, <2>9, HoldsCopy, OthersOwn
<1>6. CASE obj[s].size = 0
  <2> DEFINE new == Object(None, obj[s].size, obj[s].fill, obj[s].fd)
  <2>1. heap' = heap /\ obj' = [obj EXCEPT ![o] = new, ![s] = old]
    BY <1>6 DEF MoveNewIO
  <2>2. new \in States /\ new.mem = None /\ new.fill = obj[s].fill /\ new # Dead
    <3>1. None \in Blocks \union {None}
      OBVIOUS
    <3>2. new \in States
      BY <1>2, <3>1 DEF Object, States
    <3>3. new.mem = None /\ new.fill = obj[s].fill
      BY DEF Object
    <3> QED
      BY <3>2, <3>3, Fields
  <2> HIDE DEF new, old
  <2>3. obj'[o] = new /\ obj'[s] = old /\ \A q \in Objects \ {o, s} : obj'[q] = obj[q]
    BY <1>1, <2>1 DEF TypeOK
  <2>4. Others(o) /\ obj[s].fill = 0
    <3>1. obj[s].fill = 0
      BY <1>2, <1>6, ObjectAssumption
    <3>2. Others(o)
      BY <1>1, <1>3, <2>1, <2>3 DEF Others
    <3> QED
      BY <3>1, <3>2
  <2> QED
    BY <1>1, <1>4, <2>2, <2>3, <2>4, HoldsCopy, OthersOwn
<1> QED
  BY <1>5, <1>6

\* One object takes the memory of another, which is left with none.
LEMMA HoldsMove ==
  ASSUME TypeOK, OneOwner, NEW o \in Objects, NEW s \in Objects, obj[s] # Dead, heap' = heap,
         obj'[s] # Dead, obj'[s].mem = None,
         o # s => obj'[o] # Dead /\ obj'[o].mem = obj[s].mem /\ obj'[o].fill = obj[s].fill,
         \A q \in Objects \ {o, s} : obj'[q] = obj[q]
  PROVE  Abstract!Move(o, s)
<1>1. Content'[s] = <<>>
  BY DEF Content, Held
<1>2. o # s => Content'[o] = Content[s]
  BY DEF Content, Held
<1>3. \A q \in Objects \ {o, s} : Content'[q] = Content[q]
  BY DEF Content, Held
<1>4. Content[s] # Dead
  BY HeldIsText
<1>5. Content' = [Content EXCEPT ![o] = Content[s], ![s] = <<>>]
  <2>1. \A q \in Objects :
          Content'[q] = IF q = s THEN <<>> ELSE IF q = o THEN Content[s] ELSE Content[q]
    BY <1>1, <1>2, <1>3
  <2>2. /\ Content' = [q \in Objects |-> Content'[q]]
        /\ Content = [q \in Objects |-> Content[q]]
    BY DEF Content
  <2> QED
    BY <2>1, <2>2
<1> QED
  BY <1>4, <1>5 DEF Abstract!Move, Abstract!Exists

\* A move gives the value away.
LEMMA MoveNewValue ==
  ASSUME TypeOK, OneOwner, NEW o \in Objects, NEW s \in Objects, MoveNew(o, s)
  PROVE  Abstract!Move(o, s) /\ NothingLost
<1> DEFINE new == Object(obj[s].mem, obj[s].size, obj[s].fill, NoFd)
<1>1. /\ obj[o] = Dead /\ obj[s] # Dead /\ obj[s] \in States /\ heap' = heap
      /\ obj' = [obj EXCEPT ![o] = new, ![s] = Robbed(obj[s])] /\ o # s
  BY LiveIsState DEF MoveNew
<1>2. /\ obj[s].size \in {0, Size} /\ obj[s].fill \in 0 .. Size
      /\ obj[s].mem \in Blocks \union {None} /\ NoFd \in Fds \union {NoFd}
  BY <1>1, Fields
<1>3. new \in States
  BY <1>2, ObjectIsState
<1>4. new.mem = obj[s].mem /\ new.fill = obj[s].fill
  BY DEF Object
<1>5. new # Dead
  BY <1>3, Fields
<1>6. Robbed(obj[s]) # Dead /\ Robbed(obj[s]).mem = None
  <2>1. Robbed(obj[s]) \in States /\ Robbed(obj[s]).mem = None
    BY <1>1, RobbedIsState
  <2> QED
    BY <2>1, Fields
<1> HIDE DEF new
<1>7. obj'[o] = new /\ obj'[s] = Robbed(obj[s]) /\ \A q \in Objects \ {o, s} : obj'[q] = obj[q]
  BY <1>1 DEF TypeOK
<1>8. Abstract!Move(o, s)
  BY <1>1, <1>4, <1>5, <1>6, <1>7, HoldsMove
<1>9. NothingLost
  BY <1>1, <1>4, <1>5, <1>7 DEF NothingLost, Owned
<1> QED
  BY <1>8, <1>9

\* The only operation that loses memory: what o had.
LEMMA MoveAssignValue ==
  ASSUME TypeOK, OneOwner, NEW o \in Objects, NEW s \in Objects, MoveAssign(o, s)
  PROVE  /\ Abstract!Move(o, s)
         /\ \A b \in DOMAIN heap : Owned(b) /\ ~Owned(b)' => obj[o] # Dead /\ obj[o].mem = b
<1> DEFINE new == Filled(obj[o], obj[s].mem, obj[s].size, obj[s].fill)
<1>1. /\ obj[o] # Dead /\ obj[s] # Dead /\ obj[o] \in States /\ obj[s] \in States
      /\ heap' = heap
      /\ obj' = [obj EXCEPT ![o] = new, ![s] = Robbed(obj[s])]
  BY LiveIsState DEF MoveAssign
<1>2. /\ obj[s].size \in {0, Size} /\ obj[s].fill \in 0 .. Size
      /\ obj[s].mem \in Blocks \union {None}
  BY <1>1, Fields
<1>3. new \in States
  BY <1>1, <1>2 DEF Filled, States
<1>4. new.mem = obj[s].mem /\ new.fill = obj[s].fill
  BY DEF Filled
<1>5. new # Dead
  BY <1>3, Fields
<1>6. Robbed(obj[s]) # Dead /\ Robbed(obj[s]).mem = None
  <2>1. Robbed(obj[s]) \in States /\ Robbed(obj[s]).mem = None
    BY <1>1, RobbedIsState
  <2> QED
    BY <2>1, Fields
<1> HIDE DEF new
<1>7. /\ o # s => obj'[o] = new
      /\ obj'[s] = Robbed(obj[s]) /\ \A q \in Objects \ {o, s} : obj'[q] = obj[q]
  BY <1>1 DEF TypeOK
<1>8. Abstract!Move(o, s)
  BY <1>1, <1>4, <1>5, <1>6, <1>7, HoldsMove
<1>9. ASSUME NEW b, NEW q \in Objects, obj[q] # Dead, obj[q].mem = b, q # o
      PROVE  Owned(b)'
  BY <1>1, <1>4, <1>5, <1>7, <1>9 DEF Owned
<1> QED
  BY <1>1, <1>8, <1>9 DEF Owned

\* An assignment by a copy, for objects of which only the other fields have changed.
LEMMA AssignedValue ==
  ASSUME TypeOK, OneOwner, TypeOK', OneOwner', NEW o \in Objects, NEW s \in Objects,
         obj[o] \in States, obj[s] \in States,
         NEW base \in [Objects -> States \union {Dead}], base[o] \in States,
         \A q \in Objects : /\ base[q] = Dead <=> obj[q] = Dead
                            /\ base[q] # Dead =>
                                 /\ base[q].mem = obj[q].mem /\ base[q].size = obj[q].size
                                 /\ base[q].fill = obj[q].fill,
         Assigned(o, s, base)
  PROVE  Abstract!Copy(o, s) /\ NothingLost
<1>1. /\ obj[o].size \in {0, Size} /\ obj[o].fill \in 0 .. Size
      /\ obj[o].mem \in Blocks \union {None}
      /\ obj[s].size \in {0, Size} /\ obj[s].fill \in 0 .. Size
      /\ obj[s].mem \in Blocks \union {None} /\ Size \in Nat
  BY Fields, ObjectAssumption
<1>2. obj[o] # Dead /\ obj[s] # Dead /\ o \in Live /\ s \in Live
  BY Fields DEF Live
<1>3. /\ obj[s].fill <= obj[s].size /\ obj[o].fill <= obj[o].size
      /\ obj[s].size # 0 => obj[s].mem \in DOMAIN heap
      /\ obj[o].size # 0 => obj[o].mem \in DOMAIN heap
      /\ obj[o].mem \in DOMAIN heap \union {None}
      /\ \A q \in Live : /\ obj[q].mem \in DOMAIN heap \union {None}
                         /\ q # o => obj[q].mem # obj[o].mem \/ obj[q].mem = None
  BY <1>2 DEF OneOwner
<1>4. CASE obj[s].fill > obj[o].size
  <2>1. PICK b \in Unused :
          /\ obj' = [base EXCEPT ![o] = Filled(base[o], b, obj[s].size, obj[s].fill)]
          /\ heap' = [q \in (DOMAIN heap \union {b}) \ {obj[o].mem} |->
                        IF q = b THEN Copied(Raw, obj[s].mem, obj[s].fill) ELSE heap[q]]
    BY <1>4 DEF Assigned
  <2> DEFINE new == Filled(base[o], b, obj[s].size, obj[s].fill)
  <2>2. b \in Blocks /\ b \notin DOMAIN heap /\ b # None /\ b # obj[o].mem
    BY <1>3, ObjectAssumption DEF Unused
  <2>3. new \in States
    BY <1>1, <2>2 DEF Filled, States
  <2>4. new.mem = b /\ new.fill = obj[s].fill
    BY DEF Filled
  <2>5. new # Dead
    BY <2>3, Fields
  <2> HIDE DEF new
  <2>6. \A q \in Objects : obj'[q] = IF q = o THEN new ELSE base[q]
    BY <2>1 DEF new
  <2>7. /\ heap'[b] = Copied(Raw, obj[s].mem, obj[s].fill)
        /\ \A p \in DOMAIN heap : p # obj[o].mem => heap'[p] = heap[p]
        /\ obj[o].mem \notin DOMAIN heap'
    BY <2>1, <2>2
  <2>8. \A q \in Objects \ {o} : obj[q] # Dead /\ obj[q].mem # None =>
          heap'[obj[q].mem] = heap[obj[q].mem]
    BY <1>3, <2>7 DEF Live
  <2>9. Others(o) /\ Keeps(o)
    BY <2>6, <2>7, <2>8 DEF Others, Keeps
  <2>10. \A i \in 1 .. obj[s].fill : heap'[obj'[o].mem][i] = heap[obj[s].mem][i]
    BY <1>1, <2>4, <2>6, <2>7 DEF Copied
  <2> QED
    BY <1>2, <2>4, <2>5, <2>6, <2>9, <2>10, HoldsCopy, OthersOwn
<1>5. CASE ~(obj[s].fill > obj[o].size)
  <2> DEFINE new == Filled(base[o], obj[o].mem, obj[o].size, obj[s].fill)
             cells == Copied(heap[obj[o].mem], obj[s].mem, obj[s].fill)
  <2>1. /\ obj' = [base EXCEPT ![o] = new]
        /\ heap' = IF obj[s].fill = 0 THEN heap ELSE With(obj[o].mem, cells)
    BY <1>5 DEF Assigned
  <2>2. new \in States
    BY <1>1 DEF Filled, States
  <2>3. new.mem = obj[o].mem /\ new.fill = obj[s].fill
    BY DEF Filled
  <2>4. new # Dead
    BY <2>2, Fields
  <2> HIDE DEF new
  <2>5. \A q \in Objects : obj'[q] = IF q = o THEN new ELSE base[q]
    BY <2>1
  <2>6. /\ \A p \in DOMAIN heap : p # obj[o].mem => heap'[p] = heap[p]
        /\ obj[s].fill # 0 => heap'[obj[o].mem] = cells
    BY <2>1 DEF With
  <2>7. \A q \in Objects \ {o} : obj[q] # Dead /\ obj[q].mem # None =>
          heap'[obj[q].mem] = heap[obj[q].mem]
    BY <1>3, <2>6 DEF Live
  <2>8. Others(o) /\ Keeps(o)
    BY <2>3, <2>4, <2>5, <2>7 DEF Others, Keeps
  <2>9. obj[s].fill # 0 =>
          \A i \in 1 .. obj[s].fill : heap'[obj'[o].mem][i] = heap[obj[s].mem][i]
    BY <1>1, <2>3, <2>5, <2>6 DEF Copied
  <2> QED
    BY <1>2, <2>3, <2>4, <2>5, <2>8, <2>9, HoldsCopy, OthersOwn
<1> QED
  BY <1>4, <1>5

\* An assignment overwrites the value.
LEMMA CopyAssignValue ==
  ASSUME TypeOK, OneOwner, TypeOK', OneOwner', NEW o \in Objects, NEW s \in Objects,
         CopyAssign(o, s)
  PROVE  Abstract!Copy(o, s) /\ NothingLost
<1> DEFINE new == Tied(obj[o], obj[s].fd, "none")
           base == IF o \notin IOObjects THEN obj ELSE [obj EXCEPT ![o] = new]
<1>1. obj[o] \in States /\ obj[s] \in States /\ Assigned(o, s, base) /\ obj[o] # Dead
  BY LiveIsState DEF CopyAssign
<1>2. obj[s].fd \in Fds \union {NoFd}
  BY <1>1, Fields
<1>3. /\ new \in States /\ new.mem = obj[o].mem /\ new.size = obj[o].size
      /\ new.fill = obj[o].fill
  BY <1>1, <1>2, TiedIsState
<1>4. new # Dead
  BY <1>3, Fields
<1> HIDE DEF new
<1>5. /\ base \in [Objects -> States \union {Dead}] /\ base[o] \in States
      /\ \A q \in Objects : /\ base[q] = Dead <=> obj[q] = Dead
                            /\ base[q] # Dead =>
                                 /\ base[q].mem = obj[q].mem /\ base[q].size = obj[q].size
                                 /\ base[q].fill = obj[q].fill
  <2>1. CASE o \notin IOObjects
    BY <1>1, <2>1 DEF TypeOK
  <2>2. CASE o \in IOObjects
    <3>1. base = [obj EXCEPT ![o] = new]
      BY <2>2
    <3> HIDE DEF base
    <3>2. base \in [Objects -> States \union {Dead}]
      BY <1>3, <3>1 DEF TypeOK
    <3>3. \A q \in Objects : base[q] = IF q = o THEN new ELSE obj[q]
      BY <3>1 DEF TypeOK
    <3> QED
      BY <1>1, <1>3, <1>4, <3>2, <3>3
  <2> QED
    BY <2>1, <2>2
<1> HIDE DEF base
<1> QED
  BY <1>1, <1>5, AssignedValue

\* The assignment of an IOBuffer by a move is a copy too.
LEMMA MoveAssignIOValue ==
  ASSUME TypeOK, OneOwner, TypeOK', OneOwner', NEW o \in Objects, NEW s \in Objects,
         MoveAssignIO(o, s)
  PROVE  Abstract!Copy(o, s) /\ NothingLost
<1> DEFINE new == Tied(obj[o], obj[s].fd, "none")
           mid == [obj EXCEPT ![o] = new]
           base == [mid EXCEPT ![s] = Untied(mid[s])]
<1>1. obj[o] \in States /\ obj[s] \in States /\ obj[o] # Dead /\ obj[s] # Dead
  BY LiveIsState DEF MoveAssignIO
<1>2. obj[s].fd \in Fds \union {NoFd}
  BY <1>1, Fields
<1>3. /\ new \in States /\ new.mem = obj[o].mem /\ new.size = obj[o].size
      /\ new.fill = obj[o].fill
  BY <1>1, <1>2, TiedIsState
<1>4. Assigned(o, s, base)
  BY DEF MoveAssignIO
<1> HIDE DEF new
<1>5. \A q \in Objects : mid[q] = IF q = o THEN new ELSE obj[q]
  BY DEF TypeOK
<1>6. /\ mid \in [Objects -> States \union {Dead}] /\ mid[s] \in States
      /\ mid[s].mem = obj[s].mem /\ mid[s].size = obj[s].size /\ mid[s].fill = obj[s].fill
  <2>1. mid \in [Objects -> States \union {Dead}]
    BY <1>3 DEF TypeOK
  <2> HIDE DEF mid
  <2> QED
    BY <1>1, <1>3, <1>5, <2>1
<1> HIDE DEF mid
<1>7. /\ Untied(mid[s]) \in States
      /\ Untied(mid[s]).mem = obj[s].mem /\ Untied(mid[s]).size = obj[s].size
      /\ Untied(mid[s]).fill = obj[s].fill
  BY <1>6, UntiedIsState
<1>8. base \in [Objects -> States \union {Dead}]
  BY <1>6, <1>7
<1>9. \A q \in Objects : base[q] = IF q = s THEN Untied(mid[s]) ELSE mid[q]
  BY <1>6
<1> HIDE DEF base
<1>10. base[o] \in States /\ new # Dead /\ Untied(mid[s]) # Dead
  BY <1>3, <1>5, <1>7, <1>9, Fields
<1>11. \A q \in Objects : /\ base[q] = Dead <=> obj[q] = Dead
                          /\ base[q] # Dead =>
                               /\ base[q].mem = obj[q].mem /\ base[q].size = obj[q].size
                               /\ base[q].fill = obj[q].fill
  BY <1>1, <1>3, <1>5, <1>7, <1>9, <1>10
<1> QED
  BY <1>1, <1>4, <1>8, <1>10, <1>11, AssignedValue

\* What read() has put into a buffer is what was read, and nothing else.
LEMMA ReadValue ==
  ASSUME TypeOK, OneOwner, NEW o \in Objects, Read(o)
  PROVE  (IF ok' THEN Abstract!Fill(o) ELSE Content' = Content) /\ NothingLost
<1>1. obj[o] # Dead /\ obj[o] \in States /\ o \in Live
  BY LiveIsState DEF Read, Live
<1>2. CASE UNCHANGED <<obj, heap>> /\ ok' = FALSE
  BY <1>2 DEF Content, Held, NothingLost, Owned
<1>3. CASE Fails(o, "errno")
  BY <1>1, <1>3, CallValue DEF Fails
<1>4. CASE /\ obj[o].mem # None /\ ok' = TRUE
           /\ \E n \in 0 .. obj[o].size : \E s \in [1 .. n -> Chars] :
                /\ obj' = [obj EXCEPT ![o] = Object(obj[o].mem, obj[o].size, n, obj[o].fd)]
                /\ heap' = With(obj[o].mem,
                                [i \in 1 .. Size |-> IF i <= n THEN s[i] ELSE heap[obj[o].mem][i]])
  <2>1. PICK n \in 0 .. obj[o].size : \E s \in [1 .. n -> Chars] :
          /\ obj' = [obj EXCEPT ![o] = Object(obj[o].mem, obj[o].size, n, obj[o].fd)]
          /\ heap' = With(obj[o].mem,
                          [i \in 1 .. Size |-> IF i <= n THEN s[i] ELSE heap[obj[o].mem][i]])
    BY <1>4
  <2>2. PICK s \in [1 .. n -> Chars] :
          /\ obj' = [obj EXCEPT ![o] = Object(obj[o].mem, obj[o].size, n, obj[o].fd)]
          /\ heap' = With(obj[o].mem,
                          [i \in 1 .. Size |-> IF i <= n THEN s[i] ELSE heap[obj[o].mem][i]])
    BY <2>1
  <2> DEFINE p == obj[o].mem
             new == Object(p, obj[o].size, n, obj[o].fd)
             cells == [i \in 1 .. Size |-> IF i <= n THEN s[i] ELSE heap[p][i]]
  <2>3. /\ obj[o].size \in {0, Size} /\ n \in 0 .. Size /\ obj[o].fd \in Fds \union {NoFd}
        /\ p \in Blocks \union {None}
    <3>1. obj[o].size \in {0, Size} /\ obj[o].fd \in Fds \union {NoFd} /\ p \in Blocks \union {None}
      BY <1>1, Fields
    <3>2. n \in 0 .. Size
      BY <3>1, ObjectAssumption
    <3> QED
      BY <3>1, <3>2
  <2>4. new \in States /\ new.mem = p /\ new.fill = n
    <3>1. new \in States
      BY <2>3 DEF Object, States
    <3>2. new.mem = p /\ new.fill = n
      BY DEF Object
    <3> QED
      BY <3>1, <3>2
  <2>5. p \in DOMAIN heap /\ p # None
    BY <1>1, <1>4 DEF OneOwner
  <2>6. obj' = [obj EXCEPT ![o] = new] /\ heap' = With(p, cells) /\ new # Dead
    BY <2>2, <2>4, Fields
  <2>7. \A i \in 1 .. n : cells[i] = s[i]
    BY <2>3, ObjectAssumption
  <2>8. \A q \in Live : q # o => obj[q].mem # p \/ obj[q].mem = None
    BY <1>1 DEF OneOwner
  <2> HIDE DEF cells, new
  <2>9. \A q \in Objects : obj'[q] = IF q = o THEN new ELSE obj[q]
    BY <2>6 DEF TypeOK
  <2>10. heap'[p] = cells /\ \A q \in DOMAIN heap : q # p => heap'[q] = heap[q]
    BY <2>6 DEF With
  <2>11. \A q \in Live : q # o /\ obj[q].mem # None => heap'[obj[q].mem] = heap[obj[q].mem]
    BY <2>8, <2>10 DEF OneOwner
  <2>12. Others(o)
    BY <2>9, <2>11 DEF Others, Live
  <2>13. Keeps(o)
    BY <2>4, <2>6, <2>9 DEF Keeps
  <2>14. Content'[o] = SubSeq(cells, 1, n)
    BY <2>4, <2>5, <2>6, <2>9, <2>10 DEF Content, Held
  <2>15. SubSeq(cells, 1, n) \in Seq(Chars)
    <3>1. 1 \in Int /\ n \in Int /\ \A i \in 1 .. n : cells[i] \in Chars
      BY <2>3, <2>7
    <3> QED
      BY <3>1, SubSeqProperties
  <2>16. Content' = [Content EXCEPT ![o] = Content'[o]]
    BY <2>12, <2>14, ContentNext
  <2>17. Content[o] # Dead
    BY <1>1, HeldIsText
  <2>18. Abstract!Fill(o)
    BY <2>14, <2>15, <2>16, <2>17 DEF Abstract!Fill, Abstract!Exists
  <2> QED
    BY <1>4, <2>12, <2>13, <2>18, OthersOwn
<1> QED
  BY <1>2, <1>3, <1>4 DEF Read

-----------------------------------------------------------------------------
\* What one step does, with the object that is assigned by a move as the only exception.
Losing ==
  \E o, s \in Objects :
    /\ MoveAssign(o, s)
    /\ \A b \in DOMAIN heap : Owned(b) /\ ~Owned(b)' => obj[o] # Dead /\ obj[o].mem = b

\* So does every step; only the assignment of a Buffer by a move may lose a block.
LEMMA ValueStep ==
  ASSUME TypeOK, OneOwner, [Next]_vars
  PROVE  [Abstract!Next]_Content /\ (NothingLost \/ Losing)
<1>0. TypeOK' /\ OneOwner'
  BY OwnerStep
<1>1. CASE UNCHANGED vars
  BY <1>1 DEF vars, Content, Held, NothingLost, Owned
<1>2. ASSUME NEW o \in Objects, NEW fd \in Fds \union {NoFd}, New(o, fd) \/ SetFd(o, fd)
      PROVE  [Abstract!Next]_Content /\ NothingLost
  BY <1>2, NewValue, SetFdValue DEF Abstract!Next
<1>3. ASSUME NEW o \in Objects, Read(o) \/ Write(o)
      PROVE  [Abstract!Next]_Content /\ NothingLost
  BY <1>3, ReadValue, WriteValue DEF Abstract!Next
<1>4. ASSUME NEW o \in Objects, NEW s \in Objects,
             CopyNew(o, s) \/ MoveNewIO(o, s) \/ CopyAssign(o, s) \/ MoveAssignIO(o, s)
      PROVE  Abstract!Next /\ NothingLost
  <2>1. Abstract!Copy(o, s) /\ NothingLost
    BY <1>0, <1>4, CopyNewValue, MoveNewIOValue, CopyAssignValue, MoveAssignIOValue
  <2> QED
    BY <2>1 DEF Abstract!Next
<1>5. ASSUME NEW o \in Objects, NEW s \in Objects, MoveNew(o, s)
      PROVE  Abstract!Next /\ NothingLost
  BY <1>5, MoveNewValue DEF Abstract!Next
<1>6. ASSUME NEW o \in Objects, NEW s \in Objects, MoveAssign(o, s)
      PROVE  Abstract!Next /\ Losing
  <2>1. /\ Abstract!Move(o, s)
        /\ \A b \in DOMAIN heap : Owned(b) /\ ~Owned(b)' => obj[o] # Dead /\ obj[o].mem = b
    BY <1>6, MoveAssignValue
  <2> QED
    BY <1>6, <2>1 DEF Abstract!Next, Losing
<1>7. ASSUME NEW o \in Objects, Delete(o)
      PROVE  Abstract!Next /\ NothingLost
  BY <1>7, DeleteValue DEF Abstract!Next
<1>8. IOObjects \subseteq Objects /\ NoFd \in Fds \union {NoFd}
  BY ObjectAssumption
<1> QED
  BY <1>1, <1>2, <1>3, <1>4, <1>5, <1>6, <1>7, <1>8 DEF Next

\* Each operation does to the values what it promises.
LEMMA PromisedStep ==
  ASSUME TypeOK, OneOwner, [Next]_vars
  PROVE  [Promised]_vars
<1> SUFFICES ASSUME Next PROVE Promised
  OBVIOUS
<1>1. TypeOK' /\ OneOwner'
  BY OwnerStep
<1>2. ASSUME NEW o \in Objects
      PROVE  /\ (\E fd \in Fds \union {NoFd} : New(o, fd)) => Abstract!New(o)
             /\ Delete(o) => Abstract!Delete(o)
             /\ Read(o) => IF ok' THEN Abstract!Fill(o) ELSE UNCHANGED Content
             /\ Write(o) \/ (\E fd \in Fds \union {NoFd} : SetFd(o, fd)) => UNCHANGED Content
  BY <1>2, NewValue, DeleteValue, ReadValue, WriteValue, SetFdValue
<1>3. ASSUME NEW o \in Objects, NEW s \in Objects
      PROVE  CopyNew(o, s) \/ CopyAssign(o, s) \/ MoveNewIO(o, s) \/ MoveAssignIO(o, s)
               => Abstract!Copy(o, s)
  BY <1>1, <1>3, CopyNewValue, CopyAssignValue, MoveNewIOValue, MoveAssignIOValue
<1>4. ASSUME NEW o \in Objects, NEW s \in Objects
      PROVE  MoveNew(o, s) \/ MoveAssign(o, s) => Abstract!Move(o, s)
  BY <1>4, MoveNewValue, MoveAssignValue
<1> QED
  BY <1>2, <1>3, <1>4 DEF Promised

\* Memory is lost by an assignment by a move and by nothing else: in every other step the block
\* an object owned is freed or belongs to an object afterwards (buffer.cpp, lines 34-81, and
\* iobuffer.cpp, whose moves are copies).
THEOREM LossTheorem == Spec => LostOnlyByMove
<1>1. Spec => [](TypeOK /\ OneOwner)
  BY TypeTheorem, OwnerTheorem, PTL
<1>2. TypeOK /\ OneOwner /\ [Next]_vars =>
        [\A b \in DOMAIN heap :
           Owned(b) /\ b \in DOMAIN heap' /\ ~Owned(b)' =>
             \E o, s \in Objects : obj[o] # Dead /\ obj[o].mem = b /\ MoveAssign(o, s)]_vars
  BY ValueStep DEF NothingLost, Losing
<1> QED
  BY <1>1, <1>2, PTL DEF Spec, LostOnlyByMove

\* Buffers implement values: whatever is constructed, copied, moved, assigned, read and
\* destroyed, in any order, a copy holds what its source holds, a move hands it on, only a read
\* brings anything new, and no operation on one object shows in another; what nobody wrote
\* into memory is never part of what a buffer holds (buffer.cpp and iobuffer.cpp).
THEOREM ValueTheorem == Spec => BuffersAreValues
<1>1. Spec => [](TypeOK /\ OneOwner)
  BY TypeTheorem, OwnerTheorem, PTL
<1>2. Init => Abstract!Init
  <2> SUFFICES ASSUME Init PROVE Content = [o \in Objects |-> Dead]
    BY DEF Abstract!Init
  <2>1. \A o \in Objects : obj[o] = Dead
    BY DEF Init
  <2> QED
    BY <2>1 DEF Content
<1>3. TypeOK /\ OneOwner /\ [Next]_vars => [Abstract!Next]_Content
  BY ValueStep
<1>4. TypeOK /\ OneOwner /\ [Next]_vars => [Promised]_vars
  BY PromisedStep
<1> QED
  BY <1>1, <1>2, <1>3, <1>4, PTL DEF Spec, BuffersAreValues, Abstract!Spec
=============================================================================
