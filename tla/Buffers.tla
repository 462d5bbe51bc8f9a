------------------------------- MODULE Buffers -------------------------------
(***************************************************************************)
(* Buffer and IOBuffer as C++ objects (buffer.cpp, iobuffer.cpp): who owns  *)
(* which block of memory when buffers are created, copied, moved, assigned, *)
(* filled and destroyed in any order.                                       *)
(*                                                                         *)
(* IOBuffer inherits the memory from Buffer.  Its move operations pass      *)
(* their argument on by name, so that the copy operations of Buffer run:    *)
(* an IOBuffer is never robbed of its memory by another IOBuffer.  It is    *)
(* when a Buffer is made of it by a move.                                   *)
(*                                                                         *)
(* Left out: exceptions of operator new, which leave everything as it was;  *)
(* EINTR, which only repeats a call.                                        *)
(***************************************************************************)
EXTENDS Integers, Sequences

CONSTANTS
  Objects,    \* the variables of the program
  IOObjects,  \* those of class IOBuffer
  Blocks,     \* addresses of memory blocks
  None,       \* the null pointer
  Chars,      \* what the memory holds
  Size,       \* DEFAULT_BUFFER_SIZE
  Fds,        \* open file descriptors
  Dead,       \* the state of an object that does not exist
  Junk        \* what memory holds that nobody has written

NoFd == -1

ASSUME ObjectAssumption ==
  /\ IOObjects \subseteq Objects /\ None \notin Blocks
  /\ Size \in Nat \ {0} /\ Junk \notin Chars /\ NoFd \notin Fds
  /\ Dead \notin [mem : Blocks \union {None}, size : {0, Size}, fill : 0 .. Size,
                  fd : Fds \union {NoFd}, err : {"none", "errno", "minus1"}]
  /\ Dead \notin Seq(Chars \union {Junk})

VARIABLES
  obj,   \* the objects: memory, memSize, memFill; of an IOBuffer fd and err too
  heap,  \* the blocks that are allocated, and what they hold
  ok     \* what the last read() or write() returned

vars == <<obj, heap, ok>>

Init ==
  /\ obj = [o \in Objects |-> Dead]
  /\ heap = <<>> /\ ok = TRUE

Live == {o \in Objects : obj[o] # Dead}
Unused == Blocks \ DOMAIN heap

Cells == [1 .. Size -> Chars \union {Junk}]
Raw == [i \in 1 .. Size |-> Junk]
Held(o) == IF obj[o].mem = None THEN <<>> ELSE SubSeq(heap[obj[o].mem], 1, obj[o].fill)

\* memcpy of the first n characters of block p over what is in `old`.
Copied(old, p, n) == [i \in 1 .. Size |-> IF i <= n THEN heap[p][i] ELSE old[i]]

With(b, cells) == [q \in DOMAIN heap \union {b} |-> IF q = b THEN cells ELSE heap[q]]
Without(b) == [q \in DOMAIN heap \ {b} |-> heap[q]]

Object(mem, size, fill, fd) ==
  [mem |-> mem, size |-> size, fill |-> fill, fd |-> fd, err |-> "none"]

\* The state r with other memory, and with another descriptor.
Filled(r, mem, size, fill) ==
  [mem |-> mem, size |-> size, fill |-> fill, fd |-> r.fd, err |-> r.err]
Tied(r, fd, err) ==
  [mem |-> r.mem, size |-> r.size, fill |-> r.fill, fd |-> fd, err |-> err]

Robbed(r) == Filled(r, None, 0, 0)
Untied(r) == Tied(r, NoFd, r.err)

Quiet == UNCHANGED ok

-----------------------------------------------------------------------------
(* Constructors and destructor. *)

New(o, fd) ==
  /\ obj[o] = Dead
  /\ \E b \in Unused :
       heap' = With(b, Raw) /\ obj' = [obj EXCEPT ![o] = Object(b, Size, 0, fd)]
  /\ Quiet

\* Mutant: the copy shares the memory.
CopyNew_Shared(o, s) ==
  /\ obj[o] = Dead /\ obj[s] # Dead
  /\ o \in IOObjects => s \in IOObjects
  /\ obj' = [obj EXCEPT ![o] = [obj[s] EXCEPT !.err = "none"]]
  /\ UNCHANGED heap /\ Quiet

\* Buffer( const Buffer& ), IOBuffer( const IOBuffer& ).
CopyNew(o, s) ==
  LET fd == IF o \in IOObjects THEN obj[s].fd ELSE NoFd
  IN  /\ obj[o] = Dead /\ obj[s] # Dead
      /\ o \in IOObjects => s \in IOObjects
      /\ IF obj[s].size # 0
         THEN \E b \in Unused :
                /\ heap' = With(b, Copied(Raw, obj[s].mem, obj[s].fill))
                /\ obj' = [obj EXCEPT ![o] = Object(b, obj[s].size, obj[s].fill, fd)]
         ELSE /\ UNCHANGED heap
              /\ obj' = [obj EXCEPT ![o] = Object(None, obj[s].size, obj[s].fill, fd)]
      /\ Quiet

\* Buffer( Buffer&& ).
MoveNew(o, s) ==
  /\ o \notin IOObjects /\ obj[o] = Dead /\ obj[s] # Dead
  /\ obj' = [obj EXCEPT ![o] = Object(obj[s].mem, obj[s].size, obj[s].fill, NoFd),
                        ![s] = Robbed(obj[s])]
  /\ UNCHANGED heap /\ Quiet

\* IOBuffer( IOBuffer&& ): a copy that takes over the descriptor.
MoveNewIO(o, s) ==
  /\ o \in IOObjects /\ s \in IOObjects /\ obj[o] = Dead /\ obj[s] # Dead
  /\ IF obj[s].size # 0
     THEN \E b \in Unused :
            /\ heap' = With(b, Copied(Raw, obj[s].mem, obj[s].fill))
            /\ obj' = [obj EXCEPT ![o] = Object(b, obj[s].size, obj[s].fill, obj[s].fd),
                                  ![s] = Untied(obj[s])]
     ELSE /\ UNCHANGED heap
          /\ obj' = [obj EXCEPT ![o] = Object(None, obj[s].size, obj[s].fill, obj[s].fd),
                                ![s] = Untied(obj[s])]
  /\ Quiet

Delete(o) ==
  /\ obj[o] # Dead
  /\ heap' = Without(obj[o].mem)
  /\ obj' = [obj EXCEPT ![o] = Dead]
  /\ Quiet

-----------------------------------------------------------------------------
(* Assignments. *)

\* Mutant: src.memFill is compared with memFill where it is tested for zero, so that memory
\* that is filled as far already keeps what is in it.
Assigned_KeepsOld(o, s, base) ==
  IF obj[s].fill > obj[o].size
  THEN \E b \in Unused :
         /\ obj' = [base EXCEPT ![o] = Filled(base[o], b, obj[s].size, obj[s].fill)]
         /\ heap' = [q \in (DOMAIN heap \union {b}) \ {obj[o].mem} |->
                       IF q = b THEN Copied(Raw, obj[s].mem, obj[s].fill) ELSE heap[q]]
  ELSE /\ obj' = [base EXCEPT ![o] = Filled(base[o], obj[o].mem, obj[o].size, obj[s].fill)]
       /\ heap' = IF obj[s].fill <= obj[o].fill THEN heap
                  ELSE With(obj[o].mem, Copied(heap[obj[o].mem], obj[s].mem, obj[s].fill))

\* Buffer::operator=( const Buffer& ), for objects whose other fields have become
\* those of `base`.
Assigned(o, s, base) ==
  IF obj[s].fill > obj[o].size
  THEN \E b \in Unused :
         /\ obj' = [base EXCEPT ![o] = Filled(base[o], b, obj[s].size, obj[s].fill)]
         /\ heap' = [q \in (DOMAIN heap \union {b}) \ {obj[o].mem} |->
                       IF q = b THEN Copied(Raw, obj[s].mem, obj[s].fill) ELSE heap[q]]
  ELSE /\ obj' = [base EXCEPT ![o] = Filled(base[o], obj[o].mem, obj[o].size, obj[s].fill)]
       /\ heap' = IF obj[s].fill = 0 THEN heap
                  ELSE With(obj[o].mem, Copied(heap[obj[o].mem], obj[s].mem, obj[s].fill))

CopyAssign(o, s) ==
  /\ obj[o] # Dead /\ obj[s] # Dead
  /\ o \in IOObjects => s \in IOObjects
  /\ Assigned(o, s, IF o \notin IOObjects THEN obj
                    ELSE [obj EXCEPT ![o] = Tied(obj[o], obj[s].fd, "none")])
  /\ Quiet

\* Buffer::operator=( Buffer&& ): the memory of o is forgotten.
MoveAssign(o, s) ==
  /\ o \notin IOObjects /\ obj[o] # Dead /\ obj[s] # Dead
  /\ obj' = [obj EXCEPT ![o] = Filled(obj[o], obj[s].mem, obj[s].size, obj[s].fill),
                        ![s] = Robbed(obj[s])]
  /\ UNCHANGED heap /\ Quiet

\* Mutant: the memory moves, as the name of the operation says.
MoveAssignIO_Moves(o, s) ==
  /\ o \in IOObjects /\ s \in IOObjects /\ obj[o] # Dead /\ obj[s] # Dead
  /\ obj' = [obj EXCEPT ![o] = Filled(Tied(obj[o], obj[s].fd, "none"),
                                      obj[s].mem, obj[s].size, obj[s].fill),
                        ![s] = Untied(Robbed(obj[s]))]
  /\ UNCHANGED heap /\ Quiet

\* IOBuffer::operator=( IOBuffer&& ): again a copy.
MoveAssignIO(o, s) ==
  /\ o \in IOObjects /\ s \in IOObjects /\ obj[o] # Dead /\ obj[s] # Dead
  /\ LET tied == [obj EXCEPT ![o] = Tied(obj[o], obj[s].fd, "none")]
     IN  Assigned(o, s, [tied EXCEPT ![s] = Untied(tied[s])])
  /\ Quiet

-----------------------------------------------------------------------------
(* read() and write() of IOBuffer. *)

SetFd(o, fd) ==
  /\ obj[o] # Dead
  /\ obj' = [obj EXCEPT ![o] = Tied(obj[o], fd, obj[o].err)]
  /\ UNCHANGED heap /\ Quiet

\* The call of the system fails: on a descriptor that is not open it does.
Fails(o, code) ==
  obj' = [obj EXCEPT ![o] = Tied(obj[o], obj[o].fd, code)] /\ ok' = FALSE /\ UNCHANGED heap

\* Mutant: one character too many is asked for.
Read_OffByOne(o) ==
  /\ obj[o] # Dead
  /\ obj[o].mem # None /\ obj[o].fd # NoFd
  /\ \E n \in 0 .. obj[o].size + 1 : \E s \in [1 .. n -> Chars] :
       /\ obj' = [obj EXCEPT ![o].err = "none", ![o].fill = n]
       /\ heap' = With(obj[o].mem,
                       [i \in 1 .. Size |-> IF i <= n THEN s[i] ELSE heap[obj[o].mem][i]])
       /\ ok' = TRUE

Read(o) ==
  /\ obj[o] # Dead
  /\ \/ /\ obj[o].mem = None \/ obj[o].size = 0
        /\ ok' = FALSE /\ UNCHANGED <<obj, heap>>
     \/ /\ obj[o].mem # None /\ obj[o].size # 0
        /\ Fails(o, "errno")
     \/ /\ obj[o].mem # None /\ obj[o].fd # NoFd
        /\ \E n \in 0 .. obj[o].size : \E s \in [1 .. n -> Chars] :
             /\ obj' = [obj EXCEPT ![o] = Object(obj[o].mem, obj[o].size, n, obj[o].fd)]
             /\ heap' = With(obj[o].mem,
                             [i \in 1 .. Size |->
                                IF i <= n THEN s[i] ELSE heap[obj[o].mem][i]])
             /\ ok' = TRUE

\* A write that stops early fails without an error; the code of a failure is -1.
Write(o) ==
  /\ obj[o] # Dead
  /\ \/ /\ obj[o].mem = None
        /\ ok' = FALSE /\ UNCHANGED <<obj, heap>>
     \/ /\ obj[o].mem # None /\ obj[o].fill = 0
        /\ ok' = TRUE /\ UNCHANGED <<obj, heap>>
     \/ /\ obj[o].mem # None /\ obj[o].fill # 0
        /\ Fails(o, "minus1")
     \/ /\ obj[o].mem # None /\ obj[o].fill # 0 /\ obj[o].fd # NoFd
        /\ Fails(o, "none")
     \/ /\ obj[o].mem # None /\ obj[o].fill # 0 /\ obj[o].fd # NoFd
        /\ obj' = [obj EXCEPT ![o] = Tied(obj[o], obj[o].fd, "none")] /\ UNCHANGED heap
        /\ ok' = TRUE

Next ==
  \/ \E o \in Objects \ IOObjects : New(o, NoFd)
  \/ \E o \in IOObjects, fd \in Fds \union {NoFd} : New(o, fd) \/ SetFd(o, fd)
  \/ \E o \in IOObjects : Read(o) \/ Write(o)
  \/ \E o, s \in Objects :
       CopyNew(o, s) \/ MoveNew(o, s) \/ MoveNewIO(o, s)
         \/ CopyAssign(o, s) \/ MoveAssign(o, s) \/ MoveAssignIO(o, s)
  \/ \E o \in Objects : Delete(o)

Spec == Init /\ [][Next]_vars

-----------------------------------------------------------------------------
(* The state as values. *)

Content == [o \in Objects |-> IF obj[o] = Dead THEN Dead ELSE Held(o)]

Abstract == INSTANCE Values WITH val <- Content, Gone <- Dead

-----------------------------------------------------------------------------
(* Properties. *)

States ==
  [mem : Blocks \union {None}, size : {0, Size}, fill : 0 .. Size,
   fd : Fds \union {NoFd}, err : {"none", "errno", "minus1"}]

TypeOK ==
  /\ obj \in [Objects -> States \union {Dead}]
  /\ DOMAIN heap \subseteq Blocks /\ \A b \in DOMAIN heap : heap[b] \in Cells
  /\ ok \in BOOLEAN

(***************************************************************************)
(* No two buffers own the same memory and none owns memory that was freed,  *)
(* whatever is copied, moved and assigned, to itself too and after a move:  *)
(* destructors free each block once.  What a buffer calls its size is what  *)
(* it owns (buffer.cpp, lines 34-81).                                       *)
(***************************************************************************)
OneOwner ==
  /\ \A o \in Live :
       /\ obj[o].mem \in DOMAIN heap \union {None}
       /\ obj[o].mem = None <=> obj[o].size = 0
       /\ obj[o].fill <= obj[o].size
  /\ \A o, s \in Live : obj[o].mem = obj[s].mem => o = s \/ obj[o].mem = None

(***************************************************************************)
(* Memory is lost in one place only: when a Buffer is assigned by a move,   *)
(* what it had before is never freed (buffer.cpp, lines 76-81).             *)
(***************************************************************************)
Owned(b) == \E o \in Objects : obj[o] # Dead /\ obj[o].mem = b

LostOnlyByMove ==
  [][\A b \in DOMAIN heap :
       Owned(b) /\ b \in DOMAIN heap' /\ ~Owned(b)' =>
         \E o, s \in Objects : obj[o] # Dead /\ obj[o].mem = b /\ MoveAssign(o, s)]_vars

(***************************************************************************)
(* What each operation of the code does to the values: copies, and the      *)
(* moves between IOBuffers, give equal contents and leave the source; the   *)
(* moves of Buffer hand the content on; only a read that succeeds brings    *)
(* new content, and one that fails, a write and setFd() change nothing      *)
(* (buffer.cpp, lines 34-81; iobuffer.cpp, lines 30-110).                    *)
(***************************************************************************)
Promised ==
  /\ \A o \in Objects :
       /\ (\E fd \in Fds \union {NoFd} : New(o, fd)) => Abstract!New(o)
       /\ Delete(o) => Abstract!Delete(o)
       /\ Read(o) => IF ok' THEN Abstract!Fill(o) ELSE UNCHANGED Content
       /\ Write(o) \/ (\E fd \in Fds \union {NoFd} : SetFd(o, fd)) => UNCHANGED Content
  /\ \A o, s \in Objects :
       /\ CopyNew(o, s) \/ CopyAssign(o, s) \/ MoveNewIO(o, s) \/ MoveAssignIO(o, s)
            => Abstract!Copy(o, s)
       /\ MoveNew(o, s) \/ MoveAssign(o, s) => Abstract!Move(o, s)

(***************************************************************************)
(* Buffers are values: every operation does to the value of its own object  *)
(* what it promises, and nothing that happens to one object shows in        *)
(* another; memory that was never written is never part of a content.  An   *)
(* IOBuffer assigned to itself by a move keeps its content; a Buffer is     *)
(* left empty (buffer.cpp, lines 76-81), which is what Values says of it.   *)
(***************************************************************************)
BuffersAreValues == Abstract!Spec /\ [][Promised]_vars
=============================================================================
