# A TLA+ model of yulark

yulark is a FORTH virtual machine in x86-64 assembly (`fvm_asm.nasm`), a library for it
written in FORTH (`fvm_library.f`), the beginning of a language engine on top of that
(`fvm_yulark.f`), and some C and C++ around them.  It is one sequential process: no
threads, no persistent state.  What is hard here is not concurrency but the absence of
any structure between a program and the machine: every assembly word places its own
bounds checks, control structures share the return stack with the interpreter, `EVAL`
redirects the input under the feet of the words that read it, and FORTH code allocates
and frees memory by hand.

This directory holds the model: TLA+ modules that follow the code, TLC configurations
that check them on small instances, and proofs for TLAPS.  `PROJECT.json` relates each
definition to the lines it models and lists the runs, the mutants, the hazards and the
findings.

## 1. Inventory

### 1.1 The virtual machine nucleus (`fvm_asm.nasm`)

**Memory and bounds.**  State: one block from the caller of `fvm_run`, cut into the
dictionary space (upwards, register DP), the parameter stack (downwards, PSP) and the
return stack (at the top, RSP).  Operations: all assembly words; each uses the check
macros `CHKOVF`, `CHKUNF`, `RCHKOVF`, `RCHKUNF`, `DSPCOVF`, and a failed check leaves
through `ERREND` and ends `fvm_run`.  Hard: some 200 hand-placed checks, counts taken
from the stack (`PICK`, `ROLL`, `ALLOT`, `CALLC`), sizes that wrap, padding of names.
Correct means: the registers never leave their regions, no word uses a cell outside of
its region, and what lies or is promised at HERE stays reserved.

**Input and evaluation.**  State: the `INP` buffer (256 bytes), the current input
(`EVALBUF`, `EVALSIZE`, `EVALPOS`, `PUTBACKCHAR`), a stack of seven interrupted inputs,
the `NAME` buffer (31 characters).  Operations: `INPREAD`, `INPGETCH`, `SKIPSPC`,
`?WORD`, `WORD`, the comment words, `EVAL`.  Hard: `EVAL` does not run a text but
pushes the input; the input is popped as a side effect of asking for `>IN`, between the
look at the putback character and the next character; reads may be short or fail.
Correct means: a program runs exactly the words of its input, in order, with the words
of evaluated texts in their place, however reads cut the input; the stack of inputs is
bounded; every input ends.

**Compiler and inner interpreter.**  State: dictionary headers with the flags hidden
and immediate, compiled cells, compile mode, WP and the return stack.  Operations: `:`
`;` `[` `]` `IMMEDIATE` `HIDE` `UNHIDE`, `IF` ... `REPEAT`, `[COMPILE]`, `FIND`,
`INTERPRET`, and `fvm_docol`, `EXIT`, `JUMP`, `?JUMP`; also `CREATE`, `DOES>`,
`CONSTANT`, `VARIABLE`, `LITERAL`, `'`.  Hard: the marks of open structures lie on the
return stack on top of the interpreter's own return addresses; immediate words run in
the middle of a definition; a name means what was visible when it was compiled.
Correct means: compiled code does what the text says, every jump goes into its own
definition, structures never touch the interpreter's frame.

**Numbers.**  State: `BASE`, `MANTISSA`, `FRACTION`, `EXPONENT`, the FPU control word.
Operations: `DIGIT`, `DSEQNCONV`, `SSEQNCONV`, `GETREAL`, `?MATCHNUM`, `F.` with
`ZERORUN`, `NINERUN`, `FIXUPEXP`, and `FRNDMODE`.  Hard: signs of values between -1 and
0, wrap of 64-bit sequences, rounding that carries over a run of nines, bases above
ten, the rounding mode left behind.  Correct means: parsing and printing agree, the
rounding mode is restored.

### 1.2 The FORTH library (`fvm_library.f`)

State: `STRBUF` (255 bytes), the SGR sequence buffer, regular expression literals.
Operations: `STRLIT` and the words `."` `S"` `Z"` `C"`, the SGR words, dumps, `RECHR`,
`RELIT`, `RE/`.  It interacts with the input through `INPGETCH`, `>IN` and
`>PUTBACK`.  Hard: it steps `>IN` back, which is wrong after the input was popped;
a literal without a closing quote reads on in the parent input.

### 1.3 The Yulark engine (`fvm_yulark.f`)

**AST.**  State: nodes of ten branches on the C heap.  Operations: `YU-ASTN-ALLOC`,
`-CREATE`, `-DELETE`, `-ADDBR`.  Hard: ownership, partial failure of allocation, growth
beyond the tenth branch.

**Trough and ring buffer.**  State: a ring of 64 bytes with the recent characters, the
line number, one character put back, a trough of 1023 characters and its NUL.
Operations: `YU-RB-PUTCH`, `YU-RB-GETCH`, `YU-RB-PRINT`, `YU-RDCH`, `YU-FILL-TROUGH`,
`?YU-TROUGH-EMPTY`, `YU-CHOMP`, `YU-CHUCK`, `YU-EAT-WHTSPC`, `YU-TROUGH-EAT?` and the
eaters of tokens.  Hard: the full ring, two writers of the character put back, tokens
across the end of the trough, several attempts at one token that may each fill the
trough, the blocks each match leaves.  Correct means: characters reach the tokens in
order and once, and a token word gives the token that comes next.

### 1.4 C and C++ support

`fvm_aux.c` (regular expression objects, allocation wrappers behind `CALLC`): who frees
a match.  `Buffer` and `IOBuffer` own memory and can be copied, moved and assigned;
correct means one owner for each block, and objects that behave like values.  `Infile`
reads a file through an `IOBuffer`, `TextInfile` puts lines together with
`autoScaleAppend`; hard are lines across buffer ends, short reads, failures and closes
between two lines, sizes near their limit.  Correct means: from an open to the next, whole
lines, in order, once.
`Keyword` (a table filled on first use), `ForthVM` (empty).

### 1.5 Build tools and tests

`compressf.c` strips comments from FORTH source before it becomes a C string
(`compf2src.c`): its quote state decides what is a comment, while the interpreter that
reads the result goes by words.  Correct means: the interpreter reads the same program.
`test_*.c` and
`fvm_retest.f` drive the machine; they give the sizes of the block (1 MiB, 64 KiB of
it return stack) and the first text to evaluate.

### 1.6 How the parts interact

`fvm_run` receives the block and a first text; `INTERPRET` reads words through the
input, looks them up, and compiles or runs them; a running word may call `EVAL`, which
changes what `INTERPRET` reads next; the control structures compile through DP and keep
marks on the return stack; `CALLC` leaves the machine for the C support; the Yulark
engine is loaded as FORTH source by the same interpreter and reads its own text through
the same `INPGETCH`.

## 2. What is modelled, and how

| Module | Part | Role |
|---|---|---|
| `ForthMemory` | memory and bounds | state machine |
| `ForthMemoryProofs` | memory and bounds | theorems |
| `MCForthMemory` | | constants for TLC |
| `WordStream` | what the input promises | abstract specification |
| `ForthInput` | input and evaluation | state machine, refines `WordStream` |
| `ForthInputProofs` | the same | theorems |
| `MCForthInput` | | files, evaluated texts |
| `SourceForth` | what a program's text means | abstract specification |
| `ForthCompiler` | compiler, inner interpreter | state machine, refines `SourceForth` |
| `MCForthCompiler` | | programs |
| `ForthCompilerProofs` | the same | theorems |
| `Forest` | what syntax trees promise | abstract specification |
| `YuAst` | Yulark AST | state machine, refines `Forest` |
| `YuAstProofs` | the same | theorems |
| `MCYuAst` | | five nodes |
| `YuTrough` | trough, ring, tokens, regular expressions | state machine |
| `YuTroughProofs` | the same | theorems |
| `MCYuTrough` | | texts |
| `LineReader` | what a text file promises | abstract specification |
| `TextInput` | `TextInfile`, `Infile`, `autoScaleAppend` | state machine, refines `LineReader` |
| `TextInputProofs` | the same | theorems |
| `MCTextInput` | | files |
| `Values` | what buffer objects promise | abstract specification |
| `Buffers` | `Buffer`, `IOBuffer` | state machine, refines `Values` |
| `BuffersProofs` | the same | theorems |
| `MCBuffers` | | three objects, two blocks |
| `SourceBuild` | `compressf`, `compf2src`, and the readers of their output | state machine |
| `SourceBuildProofs` | the same | theorems |
| `MCSourceBuild` | | sources |

### 2.1 `ForthMemory`

The state is the three registers, the cells that the last word used relative to each
of them (`ptouch`, `rtouch`, `dtouch`; `picked` the one PICK copies, `allotted` those that
ALLOT was asked for), and why the machine stopped.  A word whose
effect on the registers is fixed is a *signature*, a record of the counts it gives to
the check macros and of the cells it then pops, pushes and compiles; `Exec(w)` runs any
of them.  Words whose effect depends on a value are actions of their own: `Pick`,
`Roll`, `CallC`, `DoUser` (`fvm_douser`), `Create` (`_CREATE`), `Allot`.  Words defined
in FORTH terms inside the nucleus (a `DOCOL` list) are sequences of these.  What cells
hold is left out, so a program is *any* sequence of words.  `FailedCheck` keeps the order
of the checks, which decides the message.

A count that a word takes from the stack is any word of the machine, negative ones as
huge unsigned ones, and the checks compute addresses modulo the word (`Wrap`), as `lea`
does: they see one end only, so a count that wraps around passes.  `Pick` then reads
whatever cell that is, and goes on or faults; `Roll` and `CallC`, which walk over all of
their cells, run out of the memory of the process (`WalksOff`) and stop with `fault`.
A word that drops its count before the check that stops it leaves PSP moved (`StopAt`).

### 2.2 `ForthInput` and `WordStream`

One step is one call of `INPGETCH` with what its caller (`SKIPSPC`, `?WORD`, `(` or
`\`) does with the character, the execution of a word (`Execute`), or one `EVAL` in it
(`Eval`; `texts` is what the word still has to evaluate, and each `EVAL` finds room on
the stack or stops the machine, also in the middle of a word).  `in` holds the registers
of the input; `GetCh` is `INPGETCH`, `Settle` the popping loop of `>IN`, `Refills` all
that `INPREAD` can leave behind (any shorter read, the end of the file, an error),
`EvalPush` is `_evalpush` with its transition record of one space.  Words do nothing
here but evaluate texts (`macro`) and skip comments.

Reads may fail (`MaxErrors`) for the files in `Failing`; the abstract specification has
an action for it, `ReadFails`, which cuts the word that is being read in two or passes
between two words, and a count `errors` that ties it to the failure.

`WordStream` has no characters and no buffers: a sequence of words to run, each
replaced by the words it evaluates.  The refinement mapping lexes the characters still
to come, in all interrupted inputs, the buffer and the file, with a lexer that knows no
buffers and no lookahead (`Scan`).

### 2.3 `ForthCompiler` and `SourceForth`

One action per word that the interpreter runs at once, and one per kind of cell that
the inner interpreter executes.  The return stack starts with the addresses that
`fvm_run` and `INTERPRET` leave on it (`Frame`), and the marks of the control
structures are pushed above.  Memory is a sequence of cells; a write to an address that
is not a cell of the program is a write to the read-only system and stops the model
with `fault`.  `x` and `flag` stand for the words that only act and that leave a value,
here an arbitrary truth value; `DROP` takes one.  What runs is the same whether the
interpreter or compiled code runs it: `System` and `Invoke` are given the next token of
the text and the place to go on at.

The machine also stops where the code reads or runs what nobody defined: a `:` without a
name ends with the text, and a call whose codeword was overwritten by a stray mark
faults.  A text may do everything else in any order, except that `:` and `]` are used
outside of definitions and that names differ from the system's words
(`TextAssumption`; at a definition that would be named like one of them the model has no
step).

`CREATE` and `VARIABLE` add a word with the codeword `fvm_douser` and an empty code
pointer; `Does` pops its own return address into the code pointer of LATEST, if that was
made by them, and leaves the word it stands in.  A made word leaves the address of its
field and then runs that code.  In the abstract specification `made` maps the token that
named a word to the token behind its `DOES>`, without cells or addresses; that
LATEST, read when `DOES>` runs, is the word the text means is part of `RunsTheText`.

`SourceForth` gives the meaning by the text alone: which definition a name stands for
(`Found`, `Meaning`), where a structure continues (`CloserOf`, `Middles`), what runs
while a definition is compiled.  The mapping replaces addresses by the tokens they were
compiled for, and the two steps of a test, `?FALSE` and `?JUMP`, count as one, taken at
the first.  To texts that are not well formed (unbalanced structures, structures or
`DOES>` outside of definitions, words made inside of one, a definition that begins inside
of another) the abstract specification gives no meaning; the runs include such texts, so
that the error paths of the code are walked.

The last of these rules comes from the proof of `JumpsResolved`.  Behind a `[` the
interpreter takes a `:` as anywhere else, and the outer definition ends where the inner
one begins, whatever structures it has open: in
`: f UNHIDE flag IF THEN [ : g x ; f` the jump of `f` goes to the cell behind the code of
`f`, which becomes the codeword of `g`, and `f` can be called.  The text has its place among
the ill-formed ones of the run.

### 2.4 `YuAst` and `Forest`

`node` and `block` are the live blocks of the C heap: the five cells of a node (type and
data are left out) and the cells of its branches.  `Create` and `AddBr` are words;
`YU-ASTN-DELETE` is recursive and takes a step for each branch (`DeleteBranch`) and one
for the end of each call (`DeleteEnd`), with the active calls in `calls`.  `AddBr` reads
the allocated room where the code reads it, in the branch (`2 PICK`, line 186).  A store
outside of a branch block, or through its null pointer, stops the model with `fault`.
`XALLOC` and `XREALLOC` end the program when memory is out, and so does a recursion that
fills the return stack.  No parser calls these words yet; the caller is assumed to build
trees (`MayAdd`: a branch is a root, not the root of its own tree), in any order.
`WithinBlocks` says that no store leaves its block and is violated; `FaultsByRoomOnly` says
what is left of it: the comparison of the wrong room is the only cause.  `Forest` is the
same without memory; a branch that is being deleted belongs to its node until it is gone,
and its `Fail` covers the stop at a branch that does not fit.

### 2.5 `YuTrough`

The input is a constant text; `at` counts what was read of it and `done` what is behind
the trough, so that every property compares the program's variables with the text.  A
step is one call of `YU-RDCH` with what its caller does (`Look`, `FillTrough`), one
match (`EatSpace`, `Match`) or one bite (`Bite`).  A token word is a list of kinds to
try, `YU-EAT-NUM` the list of five; each attempt begins again at `?YU-TROUGH-EMPTY`.
A character stands for its class, and a kind for the shortest expression that keeps the
ways in which tokens begin, continue and end: fractions, exponents and escapes are left
out.  `Blank` is what the bracket expression of `YU-RE-WHTSPC` means to `regcomp`, not
what it looks like.  `heap` counts the live blocks of each sort that `fvm_aux.c`
allocates; the array for `regexec` that a successful `match_reinfo` never frees is
counted in `matches`.  Any allocation may end the process (`Exit`).

### 2.6 `TextInput` and `LineReader`

`Infile` and its `IOBuffer` are one record of variables (their descriptors are set
together).  The caller opens, closes, asks for the position and for lines in any order;
`readLine` takes a step for each pass of its loop and one for each read.  A line is
the concatenation of the pieces that successive buffers held, each appended by
`autoScaleAppend` with the arithmetic of `size_t` (`Minus`) and the growth of
`std::string` as the C++ library does it (`Grown`).  `ReadOk` returns what fits, as a
regular file does.  `LineReader` knows lines only; its mapping concatenates the piece of
the current line, the rest of the buffer and, while the file is open, the rest of the
file.

### 2.7 `Buffers` and `Values`

`obj` holds the fields of each object, `heap` the blocks with what was written to them;
`Junk` is memory nobody wrote.  There is one action per constructor, assignment and
operation; `Assigned` is `Buffer::operator=( const Buffer& )`, which the move assignment
of `IOBuffer` calls as well, because its argument has a name.  A copy of an `IOBuffer`
keeps the descriptor, a move takes it over.  In `Values` an object is its content:
what happens to one never shows in another.  `BuffersAreValues` ties each operation to
the one of `Values` it promises (`Promised`): copies, and the moves between `IOBuffer`s, to
`Copy`; the moves of `Buffer` to `Move`, which leaves the source empty also when an object
is assigned to itself; only a `read()` that succeeds to `Fill`, which brings new content.

### 2.8 `SourceBuild`

One step is one call of `rdch0` with what `rdch1` and `main` do with the character, or
one turn of the loop of `compf2src`.  The two readers of the result are operators:
`Compiled` is what the C compiler makes of the literals, `WordsOf` what the interpreter
makes of a text (words, comments, strings, the name in a definition).  The quote that
is put back and read a second time is the `<<r.ch>> \o r.inp` of `Skip`.

`Conventional` says how a source for `compressf` is written, by the state of the
interpreter at each character and by the quotes that the author counts (`Quoted`): text
between two quotes, in a string or behind a defined name that ends in one, stays on its
line and holds no comment, except the comment with the second quote "for compressor";
elsewhere, `( ` and `\ ` stand only where a comment begins, no comment word is followed by a
tab, every string is between quotes, and a quote that begins a word has white space before
it; comments and strings end.  It says nothing of what `compressf` does.  `fvm_library.f` and
`fvm_yulark.f` follow it: they are too long for TLC, a transcription of `Conventional` was
run over them; TLC evaluates it on the sources of the run.

## 3. The runs

| Run | Shows | Bounds |
|---|---|---|
| `memory` | `InBounds`: DP, PSP and RSP stay in their regions; `OneCellSlack`: no word uses more than one cell beyond its stack, and none but `PICK` a cell below it; `DictionaryGrows`: HERE never moves back, and only cells above it are compiled | 8 + 8 + 4 cells, the middle of the block off a cell boundary; 9-bit words, with counts that are negative and that wrap around |
| `memory_bounds` | `BoundsChecked`, the README's promise without slack, is violated, one cell above the stacks and, by `PICK`, below | as above |
| `memory_allot` | `CellsReserved`, the comment on `ALLOT`, is violated by a count that wraps to a shorter reservation | as above |
| `input` | `RunsTheWords`: refinement of `WordStream`; `EvalStackSound`; `PromptOnce`; `Terminates` | all files of up to 3 characters over 7, 7 longer ones; buffer of 2; words of 3; 7 records; seven tables of evaluated texts; one failing read |
| `compiler` | `RunsTheText`: refinement of `SourceForth`; `JumpsResolved`; `MarksMatchText` | every nesting of two control structures, programs with redefinition, recursion, hidden, immediate and created words, ill-formed texts; 6 return stack cells, 2 parameter cells |
| `ast` | `IsForest`: refinement of `Forest`; `FaultsByRoomOnly`: a store leaves its block only by the comparison of the wrong room; `RoomNoted`; `NoLeak` | five nodes, up to three branches each in blocks of two and of four, any order; trees of four levels can be deleted, a chain of five overflows the return stack |
| `ast_room` | `WithinBlocks` is violated when a node that has branches is added | as above |
| `trough` | `InOrder`: characters reach the tokens once and in order; `RingIsRecent`; `LinesCounted`; `AnswerIsNext`: a token word gives the longest token that comes next, with two exceptions it names; `OnlyMatchesLeak` | texts of up to 4 characters over three alphabets, three longer ones; trough of 3, ring of 3; file and terminal |
| `text_input` | `DeliversLines`: refinement of `LineReader`; `BufferIsFile`; `ReadLineReturns` | every text of up to 6 characters, buffer of 2; two opens, the second of which may start anywhere, one failing call |
| `text_max` | `LineWithinMax`, the comment on the size maximum, is violated | one line of 24, buffer of 4, maximum of 15 |
| `buffers` | `OneOwner`; `LostOnlyByMove`: the one place where memory is lost; `BuffersAreValues`: refinement of `Values`, operation by operation | two `IOBuffer`s and a `Buffer`, two blocks of two characters, two different characters |
| `build` | `LoadsTheSame`: the compressed source means what the source means; `LiteralsAreText`: C gets the compressed text back; `BuildEnds` | sources of two of 26 items and a third of 6, and all files of up to 4 characters; lines of 3 |

Why the bounds are enough.  *memory*: the largest use of a stack by one word is seven
cells (`FIXUPEXP`), so on eight cells every check both passes and fails, at its exact
boundary; `NameLens` has the lengths around each padding boundary and around the limit
of 31; a word of nine bits, of which the block fills the lower half, has counts that are
negative, that wrap to each region and in front of the block, and that ALLOT's shift turns
into nothing, one cell or a negative size; the width is a parameter.  *input*: a file
longer than the buffer is read in at least two pieces, cut at every place because any shorter read is allowed;
words reach and exceed `NameMax`; four nested evaluations are one more than the seven
records hold (the code's own number).  Where reads fail (`MCFailing`) words are not
longer than `NameMax` and do not end in a comment word, so that every cut is that of
a read; one failure reaches every place of `INPREAD`'s callers.  *compiler*: a third
level of nesting adds only marks below the ones a structure looks at; the stack of six
cells is full with four of them, and a program with five and one with a recursion
overflow it; with two made words `DOES>` meets LATEST as the word just made, as another
made word, as a definition and as nothing of the program.  *ast*: with five
nodes there are trees with branches at two levels and chains one level too deep; with three
branches a block of two is doubled, when the branch that is added has the same room, and
such trees are deleted as well.  Callers that leave a block stop there.  *trough*: a token
of four characters does not fit the trough of three, a text of four wraps the ring of
three, and the texts hold tokens before, on and behind the end of the trough; the
proofs below cover every size.  *text_input*: lines lie in one, two, three and four
buffers, and a text ends at each place of a buffer with and without newline; texts are
shorter than `maxBufferSize`, as with its default.  *buffers*: two objects suffice for
every operation with itself and with another, the third keeps a bystander.  With two blocks
any two of the objects own memory at a time, and one block is left when the other is lost;
two characters tell a content from another of the same length, so that a copy that
copies nothing and a write that shows elsewhere are seen.  *build*: a comment, string or
quote matters to what follows through one flag, so that pairs of items with a third to
read the flag cover the ways it can be left wrong, and all of them are `Conventional`
(`MCConventional`); a margin of 3 puts an escape at each column.

Deadlock is not checked: all these machines stop.

**Fairness.**  `ForthInput` assumes weak fairness of its next step: the interpreter is
a sequential program, and it goes on as long as its reads return.  `SourceBuild` does
for the same reason.  `TextInput` assumes it of the steps of `readLine` only: a call
that has begun goes on, but nobody has to call.  The other modules state safety only
and assume no fairness.

**Type invariants and mutants.**  Every property of a passing run has a mutant in
`PROJECT.json`: a definition changed in the way a plausible bug would change the code
(a missing check, a check for one cell less, a transition record that is forgotten, an
operand patched too early, a shared block, a full ring taken for an empty one), under
which TLC finds the property violated.

### Findings

1. `PICK` (line 929), `ROLL` (2263), `FEXTRACT` (4832) and `REPEAT` (3667) check one
   cell less than they use (`memory_bounds`; the trace is that of `FEXTRACT`).  `PICK`
   violates the same property at the other end: its check (line 930) compares the upper end
   only, so a count that is negative or wraps around reads below the stack.
2. `ALLOT` (line 3408) loses the top three bits of its count: a count of 2^61 reserves
   nothing, and no message says so (`memory_allot`).
3. `YU-ASTN-ADDBR` compares the number of branches of the node with the room of the
   branch (line 186 of `fvm_yulark.f`, `ast_room`): trees cannot be built from the leaves
   up, and a node cannot have more than ten leaves.
4. `autoScaleAppend` (`utilities.cpp`) does not keep to the maximum (`text_max`).  In the
   trace the line exceeds it first because the string has spare capacity, which is filled
   without a look at the maximum (lines 54-55); once it is longer, the subtraction of
   line 61 wraps, and the line grows without bound.

Met while modelling and kept in the models, without a run of their own: `YU-RE-WHTSPC`
(line 63 of `fvm_yulark.f`) is space, backslash, t, r and n, because in a bracket expression
of POSIX the backslash is a character, so identifiers lose their first letters, against
line 66, and tabs and line feeds are no white space (`Blank`); a text that ends
inside a comment tears the next word of the file, although lines 1351-1353 call the return from
it smooth (the evaluated texts of `MCMacroTables` close their comments); `[COMPILE]` (3192)
is not immediate; the array of a successful `match_reinfo` and the memory of a `Buffer`
that is assigned by a move are never freed; `YU-EAT-NUM` and `YU-EAT-STR` overlook a
token when the trough is filled between two of their attempts (`late`); after a close
and an open, `TextInfile` reads from the old position in the new buffer, which is why
`LineReader` lets a second open start anywhere; a `Buffer` that is assigned to itself by a
move is left empty, which is why `Move` of `Values` says so.

## 4. What is proved

### 4.1 `ForthMemoryProofs`

For every block, every size of the return stack, every width of a word, every set of
counts, negative and huge ones among them, and every program:

* `Inductive`, `BoundsTheorem`: the dictionary, the parameter stack and the return stack
  never overlap.
* `SlackTheorem`: no word uses a cell more than one above its stack, and none but `PICK` one
  below it; a word that would, because its count wraps around, faults.
* `TypeTheorem`: the registers and the cells used are addresses; the machine stops for
  one of the known reasons.
* `DictionaryTheorem`: HERE never moves back, and a word that goes on compiles between the
  old and the new HERE only, whatever count `ALLOT` is given.
* `ReservedTheorem`: the cells `ALLOT` was asked for lie in the dictionary and below HERE,
  provided that no count loses a bit in the multiplication by eight (`AllotExact`).  Without
  the proviso it is false, as `memory_allot` shows; the theorem says that the lost bits
  are the only reason.

The assumptions are `MemoryAssumption` (the block is aligned and holds the return
stack, which has at least one cell; it lies in the lower half of the address space and not
in its first two cells; a word holds whole bytes) and `InputAssumption` (counts are words).

The inductive invariant `IInv` adds to `InBounds` that DP lies on a cell boundary.
Without it `_CREATE` would break the bound: it checks the size of the header rounded up
from zero, but moves DP to the sum rounded up as an address; the two agree only from an
aligned DP (`RoundUpAligned`).  The rest of the argument is a table: `CheckedSound`
goes through the signatures once and shows that the checks of each word cover what it
does, and `ParamStep`, `ReturnStep` and `DictStep` turn covered signatures into bounds.
`REPEAT` and `FEXTRACT` are not covered and are treated by themselves.  Checks with small
counts do not wrap, which the place of the block in the address space gives
(`ChecksPassed`); for the words with a count from the stack a check that wraps has to be
taken as it is.  The cells used follow from the same checks (`Use`, one lemma per action,
`WalkFacts` for the walks); what the dictionary keeps follows from the distance each action
moves DP (`CreateMoves`, `AllotMoves`, `GrowsNext`).

### 4.2 `YuTroughProofs`

For every text, every size of the trough and of the ring, every list of kinds and every
sequence of calls: all six properties of the run `trough` (`TypeTheorem`,
`OrderTheorem`, `RingTheorem`, `LinesTheorem`, `BlocksTheorem`, `AnswerTheorem`).  The
assumptions are `TextAssumption` (the input holds no NUL), `SizeAssumption` (the trough
holds a character, the ring two) and `CallAssumption`.

`InOrder` is not inductive alone: that an empty trough starts with a NUL and a trough
with characters does not (`EmptyMeansNone` in the proofs) decides in `?YU-TROUGH-EMPTY`
whether it is filled, and follows from the text having no NUL.  The ring is treated
in linear form: `Back(i)` is the cell of the i-th last character, and one write shifts
all of them by one, except that a full ring forgets the oldest.  `LinesCounted` adds one
element to a finite set when a line feed is read first.  `AnswerIsNext` needs the most:
`AInv` says which kinds have been tried (`Suffix`, `Tried`), that no tried kind matches
what the trough held when it was tried, that the token chosen is the longest in the
trough (`GotIsLongest`), and where the trough ends (`Ends`): at the size from where it was
filled, at a line feed of the terminal, or at the end of the text.

### 4.3 `BuffersProofs`

For any number of objects, blocks and descriptors, any size, and any order of
operations: all four properties of the run `buffers`.

* `TypeTheorem`, `OwnerTheorem`: each block has one owner, every owner owns allocated
  memory of the size it says.  `TypeOK /\ OneOwner` is inductive.  The proof goes by what a
  step does to ownership: `OwnersKept` (nobody gets or loses a block), `OwnersAdopt` (one
  object gets a new one), `OwnersNone`, `OwnersMove`; the actions are then matched to
  these.  A move of an object to itself is the case o = s of `OwnersMove`.
* `ValueTheorem`: the implementation of `Values`, operation by operation.  An operation on one
  object leaves the blocks of the others alone (`Others`, `OthersHold`), so that their contents are the
  same; what becomes of the object itself is one lemma per operation (`CopyNewValue` and so
  on).  `OneOwner` is what makes a write to one block invisible in all other objects.
* `LossTheorem`: memory is lost by the move assignment of a `Buffer` and nowhere else.  The
  same lemmas show for each other operation that it keeps the block of its object or
  frees it (`Keeps`, `OthersOwn`).

The assumption is `ObjectAssumption`: null is no address, the size is positive, and the
mark for a dead object is neither the fields of a live one nor a content.

### 4.4 `YuAstProofs`

For any set of nodes and of blocks, any first room, any number of branches and any depth of
the return stack, and for *any* caller that builds trees, also one that runs into the bug of
finding 3 (the machine then stops with `fault` before a field is wrong):

* `TypeCorrect`, `RoomIsNoted` and `NothingLeaks`.
* `FaultsTheorem` (`FaultsByRoomOnly`): a branch is stored outside of its block only when
  the two nodes of `YU-ASTN-ADDBR` have different rooms, and a deletion finds every branch
  alive.  With equal rooms the comparison is the right one however often a block was doubled.
* `Refinement`: the implementation of `Forest`.

The inductive invariant `Inv` adds to `TypeOK` and `RoomNoted` the shape of the heap: no
block has two nodes (`Unshared`) and none is without (`Used`), a node without branches has
no block unless it is being deleted (`BlockForBranches`), branches are live nodes
(`Links`) and no node is the branch of two (`OneParent`); and that of a recursion: the
calls are for different nodes and agree with them (`Frames`), each is for the branch
behind those that its caller has left (`Chain`), and the first one is for a root
(`FromRoot`).  `BlockForBranches` is what `NoLeak` needs of `YU-ASTN-DELETE`, which looks at the
count before the loop and frees the block after it.

The refinement needs one more fact: whatever is being deleted lies in the tree of the
root whose deletion was asked for (`Reached`), which follows along the calls; the forest's
`doomed` node is the outermost call.  `AddBr` reads the room of the branch instead of that
of the node, so a store may find the block too small: the outcomes are told apart first
(`AddBrCases`), and each is a step of the forest, `Attach` or `Fail`.

### 4.5 `TextInputProofs`

For any set of files, any size of the buffer, any capacity and maximum of the string, and any
number of opens and failures:

* `TypeCorrect`, `BufferTheorem`: the buffer of an open file is what lies in front of the
  kernel's position.
* `DeliversTheorem`: the implementation of `LineReader`, under `FilesFit`: no file is longer
  than `maxBufferSize` (with its default nearly all of the address space).  The run `text_max`
  shows what happens to a longer line.  Lines are whole and in order from where an open
  starts; where a second open starts is left open.

The inductive invariant `Inv` adds to `TypeOK` the buffer as a window on the file, which
is at the end of the file when it is not full (`Window`; this is what lets `readLine` take
a short buffer for the end), that `readLine` reads only when the buffer is used up
(`UsedUp`), that the piece of a line it has holds no newline (`Unbroken`), and that the
line, the rest of the buffer and the rest of the file are together no longer than
the file (`InFile`), so that nothing is cut.  The refinement describes what is still to be
delivered as three parts (`RestIs`: line, buffer, file); a step of `readLine` moves the
borders between them (`Splits`), and delivers when the first part is complete
(`NowIdle`) or leaves the whole as it was (`StillBusy`).

### 4.6 `ForthInputProofs`

For every program (first text, file, and texts that words evaluate), every size of the
buffer, of NAME and of the evaluation stack, and however reads cut the file:

* `TypeCorrect`: the positions of all inputs, read or interrupted, stay inside their
  texts, a read inside the buffer and the file, a word inside NAME.
* `EvalStackTheorem`: the evaluation stack stays in its memory; only its outermost input
  can be the file or the first text, and the file is not touched before the first text is
  read; what an interrupted input has put back is a space.
* `PromptTheorem`: OKAY answers a line at most once.
* `RunsTheWordsTheorem`: the interpreter runs the words of its input as `WordStream` says.

The first three hold also when reads fail.

The assumption is `InputAssumption`: texts and files are sequences of characters, the buffer
holds one and NAME two.  `IInv` adds to these two facts about the words that read:
a word being collected is shorter than NAME and begins empty (`NameFits`), and what is put
back is a space except for the first character of a word between SKIPSPC and ?WORD
(`PutBackIsSpace`), which is why no `EVAL` can save anything else.  `Fine` states the shape
of the inputs as one list, the one that is read first (`All`): `>IN` keeps a tail of it
(`SettleFacts`), `EVAL` puts two records in front (`EvalPushFacts`), and a read moves the
first (`FineKept`).  For the prompts the newlines that wait in any of the inputs
(`Pending`) count with those answered: a push shifts them, a pop may drop some, and a
character read, put back or taken again moves one across (`PendingPut`, `GetChFacts`).

`RunsTheWordsTheorem` (`RunsTheWords`): `ForthInput` implements `WordStream`.  Two
hypotheses.  `TextsClosed`: every evaluated text closes the comments it opens; the run
evaluates it for its programs.  (A text that does not goes on in the comment when the
input it interrupted is read, so its words cannot be told apart from those behind it.)
`ReadsReturn`: no read fails.  With failing reads the property needs files in which a cut does
no harm, as the run has them: a read that fails behind the first of two backslashes, or
in a word longer than NAME, makes other words.

The argument: `LexNow` is the state of the lexer, which reads the flat text, that goes with
a state of the machine, and `Todo` is what the lexer makes of the characters to come
(`TodoIs`).  A character that is read moves both by one (`NextReads`, `TakenReads`), one
that is put back puts the lexer where it reads it again (`ReturnedReads`, `SpaceEnds`), so
`SKIPSPC`, `?WORD` and the comment words leave `Todo` alone; a word that runs is the first of
`Todo`; and an `EVAL` puts the words of its text in front of the others
(`PushReads`, `ClosedWords`).  What can go wrong is at the seams.  `>IN` pops an
input that is used up with the character it had put back, which nobody reads before the
next character: that is harmless only between words.  So the invariant `WInv`
has to say that a text ends outside of comments, and outside of words, before the input below
is read: `Laid`, between a text and the input it interrupted lies a transition of which
nothing was read; `ClosedAt`, the lexer is in no comment at the end of the text
that is read; `InWord`, a word under way was begun in the input that is read now, so that its
end is the transition's blank (`SettleLaid`).  Only the first text may end in a
word or a comment, which then goes on in the file.

That the recursive functions `Scan`, `Rests` and `WordsOfAll` exist and do what their
definitions say (`Recursive`, `SeqRecursion`) is proved by induction over lengths,
where the least number without a property gives the contradiction (`Induct`); facts
about all texts are then proved for the set of the texts that have them (`SeqInduct`).

### 4.7 `ForthCompilerProofs`

`TypeCorrect`: for every set of texts, balanced or not, and every size of the stacks, the
stacks stay within their sizes, every header has its codeword in memory, a compiled call
is a call of a cell, and behind a jump or the codeword of a created word stands the
cell that it uses.  So the inner interpreter never takes an address from a cell that
was not compiled, and `FIND` never leads to a word without code.  The assumptions are
`SizeAssumption` (the return stack has room for the two addresses of the interpreter) and
`TextAssumption`.

`Inv` says the same with lengths in the place of domains (`Sound`, `Headed`,
`Registers`), in a form in which it can be used for memories that do not exist yet: a word
that compiles appends whole sequences of cells (`AppendSound`), each of which brings the
cell it needs, and then patches one.  The patch is the interesting case, as a stray mark
may point to any cell: it turns that cell into an operand, which needs nothing behind
it, and leaves the others alone (`PatchSound`), so it can break a program but not the
invariant.  The words that run in the interpreter as well as in compiled code
(`System`, `Invoke`) have one lemma each, used by `Word` and by `RunSystem` and `RunCall`.

`MarksTheorem` (`MarksMatchText`): whenever the interpreter reads a token of a
well-formed text, the return stack holds the two addresses of the interpreter and
one mark for each structure open in the text, two for a loop with `WHILE`, for texts
and nestings of any length.  The proof has two halves.

The first is about the text alone.  `Depth(g, h)` is how many structures are open behind
token h of those that begin at g or later; a structure is open as long as its depth is
positive (`OpenAtIs`), a closing token closes the innermost one (`OpenAtCloser`), and that
is the one whose `CloserOf` it is (`CloserFits`), so the condition `Balanced`, which speaks
of openers and their closers, says at each closing token whether a `WHILE` belongs to
it.  From that the number of marks `Open(i)` changes from token to token as the words change
the stack: `OpenAdds`, `OpenAddsWhile`, `OpenElse`, `OpenTakes` (two for `REPEAT`),
`OpenStays`.  That every structure stands in a definition that ends, which is where
balance is stated, follows from `Compiling` (`InDefinition`, `StructureFacts`).

The second is the invariant `Marks`: in a text built well enough (`WellBuilt`, part of
`WellFormed`) the state has `Shape`.  `MarksMatchText` says nothing while a word runs,
so `Shape` has to: between the marks and the return addresses of compiled code lies the
address of the interpreter (`Running`), and the return addresses above are positive, so
`EXIT` and `DOES>` come back to the interpreter exactly when no word is left
(`CallPushed`, `CallPopped`).  It also has the mode in step with the text, as `IF` and
`;` count on it, and clean memory: no cell holds a negative address, or a jump could
reach the interpreter's own code, and no `[COMPILE]`, which would take tokens of the
text.  `DOES>` run by the interpreter itself would pop a mark; in a well-formed text it is
compiled, and that is where the mode is needed (`WordShape`).

`JumpsTheorem` (`JumpsResolved`): in a definition of a well-formed text that its `;` has
completed, no operand of a jump is left open, and every jump goes to code of the same
definition: not to its codeword, not to an operand, not to another word.  The property
speaks of completed definitions only and says nothing of the ones being compiled; the
invariant is about those, and it is the conjunction of four.

- `Inv` and `Marks`, as above.
- `Links`, what memory, headers and marks have to do with each other in a text that is
  `Laid`.  `Led` has two sets of marks on the return stack: the addresses of open loops
  (those of `BEGIN`, `LoopsOf`) and those of open operands (of `IF`, `UNLESS`, `ELSE` and
  `WHILE`, `HolesOf`).  A loop's address is that of a cell that code can be entered at, or
  will begin at; an open operand's is that of an operand; both lie behind every codeword.
  And every jump in memory either has its operand among the open ones or lands in the code
  of its own word, where the cell behind the last one will do as long as the definition
  goes on: the target of `THEN` is not compiled yet when it patches the jump.
  `Ordered`: words lie in memory in the order of their headers, so that a word's code ends
  where the next begins.  `Orderly`: no word is made while a definition is open, as
  its cells would split the code and its jumps.
- `Begins`: the name behind every `:` that was taken was taken as well, so that a text at
  whose end no `;` is to come is in no definition (`BehindAll`).

What the words do to `Led` is a handful of facts: cells are appended (`LedGrows`), with
or without a jump (`LedPlain`, `LedJump`), an open operand is filled (`LedFilled`), a mark
appears or goes (`LedMark`, `LedFewer`).  Which marks are on the stack is the other half.
An open token is looked up at its place from the bottom of the stack (`MarkAt`), which is
that of the number of marks open where it begins (`MarkingOrder`: the marks lie in the
order of their tokens, that of `WHILE` above that of its `BEGIN`), so a step that pushes,
pops or exchanges marks leaves the ones below alone (`MarksSame`, `MarksPushed`,
`MarksTaken`, `MarksTakenTwo`, `MarksSwapped`), and a closing token finds the mark of the
structure it closes and no other: `AGAIN` and `UNTIL` one of `LoopsOf`, `ELSE` and `THEN` one of
`HolesOf`, `REPEAT` one of each (`ClosesKind`, which follows from `Balanced`).  That a completed definition
has no open operand is then arithmetic: open operands lie behind every codeword, also
that of the next word; and in the last word of all, no structure is open when no
definition is (`NothingOpen`).

### 4.8 `SourceBuildProofs`

For every file and every width of a line of the C file:

* `TypeCorrect`: the tools put out characters only, also when a comment, a string or an escape
  is cut short by the end of the file, and the column of `compf2src` stays below the margin.
* `LiteralsTheorem` (`LiteralsAreText`): when no newline is left in the compressed text, the C
  compiler gets exactly that text back from the literals, and `compf2src` writes its length.
* `LoadsTheorem` (`LoadsTheSame`): for every source that is `Conventional`, the interpreter
  reads the same words and strings from what the C compiler gets as from the source, no
  newline is left, and the flag of `compressf` is off at the end.

The assumption is `BuildAssumption`: files are sequences of characters, a line has room for one.
The invariant `Written` is the state of a reader of C who has read what is written so
far: in a literal exactly when the column is not 0, behind no backslash, with the part of the
text that was taken.  What that reader makes of one character more (`CompiledAppend`) needs
that the recursive function in `Compiled` exists and that two of them agree on a common
beginning (`RunExists`, `RunsAgree`), by induction over the length; the induction is one
over sets of numbers (`Induct`), from the least element of a set.

The invariant for `LoadsTheorem` is `Carried`: the reader of what `compressf` has written
stands where the reader of the source stood after its first k characters, for some k, and
`inp` is the rest.  In `rdch1` before white space, the flag is then the author's
(`InStep`), with what is known about the next character, or it is one toggle ahead because a
quote was put back (`PutBack`); behind white space or a comment, one space more brings the
reader to the same place (`Between`), or does so behind the newline that ends a line comment
(`SkipsAt`).  `CommentCloses` says that a comment in such a source has an end and changes
nothing (by induction over its characters, `InComment`); `Reads` and `Skips` go through the
outcomes of `rdch0` in `Read` and in `Skip`.  TLC checked `Carried` before, as an invariant,
for all conventional sources of up to five characters.  The conditions of `Conventional` are what
each case needed; sources that break one (a string without its quote, a tab behind `\`) are in
the run as well and need not load the same.

### 4.9 Only model-checked

`RunsTheText` of `ForthCompiler`: beyond `JumpsTheorem`, which says where jumps may
go, its invariant has to say of every cell which token it stands for and of every operand
which token it continues at, for memory that is half compiled; that is not written.
`RunsTheWords` where reads fail: what a failing read may cut is a condition on
files, of which the run has a list.  `Terminates`, `ReadLineReturns` and `BuildEnds` are liveness.

## 5. What is not modelled

Left out for good: the x87 arithmetic, the dump and colour words of the library, the
text of messages, `ForthVM` (empty) and `Keyword` (a lookup in a table that is filled
once), the test programs.  EINTR, which repeats a call in `IOBuffer` without touching
anything; exceptions of `operator new`, which leave the objects as they were; NUL
characters in the input of the trough; the value of `getFilePos`; reads of a file that
return less than there is before its end, which `TextInfile` takes for the end.  The interpreter and
the trough read the same input through `INPGETCH`; `YuTrough` has the input for itself,
from the moment a token word is called until the last one returns.

Not modelled yet: the conversion of numbers (`GETREAL`, `F.`) and the rounding mode, the
string literals of the library; of the compiler the words that compile or read data
(`LITERAL`, `COMPILE`, `CONSTANT`, `,`, `@`, `!`, the tick words) and those that use the
return stack (`>R`, `R>`).  In `ForthCompiler` the system's own words leave no trace on
the stacks while they run, so an overflow inside one of them is not seen (the bound itself
is that of `ForthMemory`).  In `ForthInput` a word longer than `NameMax` counts as
the words it is cut into, as in the code.

## 6. Plan

1. `ForthNumbers`: parsing and rounding as functions against a reference.
2. String literals of the library in `ForthInput` (`>IN DECR`).
3. Data in `ForthCompiler`: `CONSTANT`, `,`, `'`, `LITERAL`.
4. Proofs: `RunsTheText`, on the invariant of `JumpsTheorem`.
