------------------------------ MODULE YuTrough ------------------------------
(***************************************************************************)
(* The input of the Yulark engine (fvm_yulark.f, 28-95 and 223-625): the   *)
(* ring buffer of recent characters, the character put back, the trough    *)
(* that is filled from the input, and the words that eat tokens from it;   *)
(* with the heap blocks of regular expressions and strings (fvm_aux.c,     *)
(* 52-66 and 110-244).                                                     *)
(*                                                                         *)
(* The input is an immutable text: `at` characters have been read, the     *)
(* first `done` are eaten or dropped. A character stands for its class;    *)
(* fractions, exponents and escapes are left out of the tokens. The text   *)
(* has no NUL, which would make the trough look empty. An allocation may   *)
(* fail at any time: then the process exits.                               *)
(***************************************************************************)
EXTENDS Integers, Sequences, FiniteSets

CONSTANTS
  Texts,     \* the inputs
  UPB,       \* YU-TR-SIZE-UPB: characters the trough holds (1023)
  RingSize,  \* cells of the ring buffer (64)
  Calls,     \* the token words that are called: sequences of kinds to try
  MaxHeld,   \* bound of the model: strings a caller keeps
  MaxMade,   \* bound of the model: regular expressions made by a caller
  MaxLost    \* bound of the model: lost blocks are counted up to here

NUL == "NUL"
EOF == "EOF"
LF  == "LF"
Letter == {"a", "n"}
Digit  == {"1"}
Char   == Letter \union Digit \union {" ", LF, "$", "%", "@", "#", "'", "q"}

ASSUME TextAssumption == Texts \subseteq Seq(Char)
ASSUME SizeAssumption ==
  /\ UPB \in Nat \ {0} /\ RingSize \in Nat \ {0, 1}
  /\ MaxHeld \in Nat /\ MaxMade \in Nat /\ MaxLost \in Nat

-----------------------------------------------------------------------------
(* The regular expressions. *)

\* YU-RE-WHTSPC, [ \t\r\n]: between brackets POSIX gives the backslash no meaning,
\* so the set is space, backslash and the letters t, r, n.
Blank == {" ", "n"}

All(w, i, S) == Len(w) >= i /\ \A j \in i .. Len(w) : w[j] \in S

\* w is matched from end to end by the expression of kind k, YU-RE-IDENT and so on
\* ("q" is the double quote, "a" a letter that is a hexadecimal digit).
Matches(k, w) ==
  CASE k = "ident" -> All(w, 1, Letter \union Digit) /\ w[1] \in Letter
    [] k = "dec"   -> All(w, 1, Digit)
    [] k = "oct"   -> All(w, 2, Digit) /\ w[1] = "@"
    [] k = "bin"   -> All(w, 2, Digit) /\ w[1] = "%"
    [] k = "hex"   -> All(w, 2, Digit \union {"a"}) /\ w[1] = "$"
    [] k = "base"  -> /\ Len(w) >= 4 /\ w[1] = "#"
                      /\ \E i \in 3 .. Len(w) - 1 :
                           /\ w[i] = "#" /\ \A j \in 2 .. i - 1 : w[j] \in Digit
                           /\ All(w, i + 1, Letter \union Digit)
    [] k = "str1"  -> /\ Len(w) >= 2 /\ w[1] = "q" /\ w[Len(w)] = "q"
                      /\ \A j \in 2 .. Len(w) - 1 : w[j] # "q"
    [] k = "str2"  -> /\ Len(w) >= 2 /\ w[1] = "'" /\ w[Len(w)] = "'"
                      /\ \A j \in 2 .. Len(w) - 1 : w[j] # "'"
    [] OTHER       -> FALSE

\* YU-EAT-NUM, YU-EAT-STR: the kinds in the order they are tried.
NumKinds == <<"hex", "bin", "oct", "dec", "base">>
StrKinds == <<"str1", "str2">>
Kinds == {"ident", "white", "hex", "bin", "oct", "dec", "base", "str1", "str2"}
ASSUME CallAssumption == Calls \subseteq Seq(Kinds)

None == [kind |-> "none", from |-> 0, len |-> 0]

VARIABLES
  text,     \* the whole input
  tty,      \* YU-IS-A-TTY
  at,       \* characters that INPGETCH has delivered
  done,     \* characters that are behind the trough
  putback, line, ring, rpos, wpos, trough, fill,   \* the variables of the program
  phase,    \* where the running word is
  todo,     \* the kinds that the running word still has to try
  got,      \* the token that was eaten last, or None
  heap,     \* live blocks of each sort
  held,     \* strings that callers keep
  made,     \* regular expressions that exist
  asked, late, base, shown    \* history: the kinds of the last call, whether the trough
            \* was filled after its first attempt, the position at which the trough
            \* was last filled, the position of the last YU-RB-PRINT

input == <<at, putback, line, ring, rpos, wpos>>
store == <<done, trough, fill>>
call  == <<phase, todo, got, asked, late>>
const == <<text, tty>>
memory == <<heap, held, made>>
vars == <<const, input, store, call, memory, base, shown>>

Init ==
  /\ text \in Texts /\ tty \in BOOLEAN
  /\ at = 0 /\ putback = EOF /\ line = 0
  /\ ring \in {[i \in 0 .. RingSize - 1 |-> NUL]} /\ rpos = 0 /\ wpos = 0
  /\ done = 0 /\ fill = 0 /\ trough \in {[i \in 0 .. UPB |-> NUL]}
  /\ phase = "idle" /\ todo = <<>> /\ got = None
  /\ heap = [reinfo |-> 9, pattern |-> 9, matches |-> 0, result |-> 0, string |-> 0]
  /\ held = 0 /\ made = 9
  /\ asked = <<>> /\ late = FALSE /\ base = 0 /\ shown = 0

-----------------------------------------------------------------------------
(* Reading. *)

Up(p) == IF p = RingSize - 1 THEN 0 ELSE p + 1

\* Mutant: a full ring is not told from an empty one.
RbPutch_Full(c) ==
  /\ ring' = [ring EXCEPT ![wpos] = c] /\ wpos' = Up(wpos) /\ rpos' = rpos

\* YU-RB-PUTCH.
RbPutch(c) ==
  /\ ring' = [ring EXCEPT ![wpos] = c]
  /\ wpos' = Up(wpos)
  /\ rpos' = IF Up(wpos) = rpos THEN Up(rpos) ELSE rpos

NextChar ==
  IF putback # EOF THEN putback ELSE IF at < Len(text) THEN text[at + 1] ELSE EOF

\* Mutant: a line feed that was put back is counted again.
RdCh_CountsAgain(pb) ==
  /\ putback' = pb /\ line' = IF NextChar = LF THEN line + 1 ELSE line
  /\ IF putback # EOF \/ at = Len(text)
     THEN UNCHANGED <<at, ring, rpos, wpos>>
     ELSE at' = at + 1 /\ RbPutch(text[at + 1])

\* YU-RDCH, after which the caller leaves `pb` in the variable of the character put
\* back.
RdCh(pb) ==
  /\ putback' = pb
  /\ IF putback # EOF \/ at = Len(text)
     THEN UNCHANGED <<at, line, ring, rpos, wpos>>
     ELSE /\ at' = at + 1
          /\ line' = IF text[at + 1] = LF THEN line + 1 ELSE line
          /\ RbPutch(text[at + 1])

\* YU-RB-PRINT: YU-RB-GETCH until the positions meet.
RbPrint ==
  /\ phase = "idle"
  /\ rpos' = wpos /\ shown' = at
  /\ UNCHANGED <<const, at, putback, line, ring, wpos, store, call, memory, base>>

-----------------------------------------------------------------------------
(* The callers. *)

Begin(kinds) ==
  /\ phase = "idle" /\ held < MaxHeld
  /\ phase' = "look" /\ todo' = kinds /\ asked' = kinds /\ got' = None /\ late' = FALSE
  /\ UNCHANGED <<const, input, store, memory, base, shown>>

\* YU-EAT-IDENT, -DEC, -OCT, -BIN, -HEX, -BASE, -STRSEQ1, -STRSEQ2, YU-EAT-NUM, -STR.
Eat == \E kinds \in Calls : Begin(kinds)
EatWhite == Begin(<<"white">>)
AskEmpty == Begin(<<>>)

\* XFREE of a string that a caller was given.
Free ==
  /\ phase = "idle" /\ held > 0
  /\ held' = held - 1 /\ heap' = [heap EXCEPT !.string = @ - 1]
  /\ UNCHANGED <<const, input, store, call, made, base, shown>>

\* exit( EXIT_FAILURE ): no memory, or an expression that regcomp does not accept.
Exit ==
  /\ phase' = "exit"
  /\ UNCHANGED <<const, input, store, todo, got, asked, late, memory, base, shown>>

\* REINIT (create_reinfo) and REFREE (delete_reinfo) by a caller that uses RE/ outside
\* of a definition.
MakeRegex ==
  /\ phase = "idle" /\ made < 9 + MaxMade
  /\ \/ Exit
     \/ /\ made' = made + 1
        /\ heap' = [heap EXCEPT !.reinfo = @ + 1, !.pattern = @ + 1]
        /\ UNCHANGED <<const, input, store, call, held, base, shown>>
FreeRegex ==
  /\ phase = "idle" /\ made > 9
  /\ made' = made - 1
  /\ heap' = [heap EXCEPT !.reinfo = @ - 1, !.pattern = @ - 1]
  /\ UNCHANGED <<const, input, store, call, held, base, shown>>

-----------------------------------------------------------------------------
(* Filling the trough. *)

\* What a word does after ?YU-TROUGH-EMPTY has answered.
AfterLook(empty) ==
  CASE todo = <<>> -> "idle"
    [] todo # <<>> /\ empty -> "match"
    [] OTHER -> "space"

\* ?YU-TROUGH-EMPTY, up to the call of YU-FILL-TROUGH.
Look ==
  /\ phase = "look"
  /\ IF trough[0] # NUL \/ NextChar = EOF
     THEN /\ phase' = AfterLook(trough[0] = NUL)
          /\ UNCHANGED <<input, done, late, base>>
     ELSE /\ RdCh(IF NextChar = LF THEN EOF ELSE NextChar)
          /\ done' = IF NextChar = LF THEN done + 1 ELSE done
          /\ base' = done' /\ late' = (todo # asked)
          /\ phase' = "fill"
  /\ UNCHANGED <<const, trough, fill, todo, got, asked, memory, shown>>

\* Mutants.  The character that did not fit is lost:
FillEnds_Loses ==
  /\ RdCh(EOF)
  /\ trough' = [trough EXCEPT ![fill] = NUL]
  /\ phase' = AfterLook(fill = 0)
  /\ UNCHANGED fill

\* the last byte is taken for a character too:
FillStops_Late == NextChar = EOF \/ (NextChar = LF /\ tty) \/ fill > UPB

\* The condition that ends the loop of YU-FILL-TROUGH.
FillStops == NextChar = EOF \/ (NextChar = LF /\ tty) \/ fill >= UPB

\* The lines after the loop: the character that was read last is put back.
FillEnds ==
  /\ RdCh(NextChar)
  /\ trough' = [trough EXCEPT ![fill] = NUL]
  /\ phase' = AfterLook(fill = 0)
  /\ UNCHANGED fill

FillTrough ==
  /\ phase = "fill"
  /\ IF FillStops THEN FillEnds
     ELSE /\ RdCh(EOF)
          /\ trough' = [trough EXCEPT ![fill] = NextChar]
          /\ fill' = fill + 1
          /\ UNCHANGED phase
  /\ UNCHANGED <<const, done, todo, got, asked, late, memory, base, shown>>

-----------------------------------------------------------------------------
(* Eating. *)

\* The first n characters in the trough.
Window(n) == [i \in 1 .. n |-> trough[i - 1]]

\* What REEXEC finds at the beginning of the trough: the longest match.
Found(k, n) ==
  /\ n \in 1 .. fill /\ Matches(k, Window(n))
  /\ \A m \in n + 1 .. fill : ~Matches(k, Window(m))

\* match_reinfo: the array for regexec is freed when there is no match, and never when
\* there is one; the array of the result belongs to the caller.
Lose(n) == IF n = MaxLost THEN n ELSE n + 1
Matched == [heap EXCEPT !.matches = Lose(@), !.result = @ + 1]

\* YU-CHUCK and the second half of YU-CHOMP: n is limited to what there is, and the
\* rest moves down with its NUL.
Chuck(n0) ==
  LET n == IF n0 > fill THEN fill ELSE n0
  IN  /\ trough' = [i \in 0 .. UPB |-> IF i <= fill - n THEN trough[i + n] ELSE trough[i]]
      /\ fill' = fill - n
      /\ done' = done + n

\* YU-EAT-WHTSPC when the trough is not empty: it matches, if only nothing.
EatSpace ==
  /\ phase = "space"
  /\ \/ Exit
     \/ \E n \in 0 .. fill :
          /\ \A i \in 0 .. n - 1 : trough[i] \in Blank
          /\ n < fill => trough[n] \notin Blank
          /\ heap' = [Matched EXCEPT !.result = @ - 1]
          /\ Chuck(n)
          /\ phase' = "match"
          /\ UNCHANGED <<const, input, todo, got, asked, late, held, made, base, shown>>

\* Mutant: no attempt follows the first one.
Miss_GivesUp ==
  /\ todo' = <<>> /\ phase' = "idle"
  /\ UNCHANGED <<const, input, store, got, asked, late, memory, base, shown>>

\* No match: the next alternative starts over with the whitespace.
Miss ==
  /\ todo' = Tail(todo) /\ phase' = IF Len(todo) = 1 THEN "idle" ELSE "look"
  /\ UNCHANGED <<const, input, store, got, asked, late, memory, base, shown>>

\* YU-TROUGH-EAT?, up to the call of REEXEC and its answer.
Match ==
  /\ phase = "match"
  /\ \/ Exit
     \/ (\A n \in 1 .. fill : ~Matches(Head(todo), Window(n))) /\ Miss
     \/ \E n \in 1 .. fill :
          /\ Found(Head(todo), n)
          /\ heap' = Matched
          /\ got' = [kind |-> Head(todo), from |-> done, len |-> n]
          /\ phase' = "bite"
          /\ UNCHANGED <<const, input, store, todo, asked, late, held, made, base, shown>>

\* Mutant: after a success the other kinds are tried as well.
Bite_TriesOn ==
  /\ phase = "bite"
  /\ heap' = [heap EXCEPT !.result = @ - 1, !.string = @ + 1]
  /\ held' = IF Len(todo) = 1 THEN held + 1 ELSE held
  /\ Chuck(got.len)
  /\ todo' = Tail(todo) /\ phase' = IF Len(todo) = 1 THEN "idle" ELSE "look"
  /\ UNCHANGED <<const, input, got, asked, late, made, base, shown>>

\* The rest of YU-TROUGH-EAT?: XFREE, then YU-CHOMP with ZSTRCRT; the string goes to
\* the caller.
Bite ==
  /\ phase = "bite"
  /\ \/ Exit
     \/ /\ heap' = [heap EXCEPT !.result = @ - 1, !.string = @ + 1]
        /\ held' = held + 1
        /\ Chuck(got.len)
        /\ todo' = <<>> /\ phase' = "idle"
        /\ UNCHANGED <<const, input, got, asked, late, made, base, shown>>

Next ==
  \/ Eat \/ EatWhite \/ AskEmpty \/ Free \/ MakeRegex \/ FreeRegex \/ RbPrint
  \/ Look \/ FillTrough \/ EatSpace \/ Match \/ Bite

Spec == Init /\ [][Next]_vars

-----------------------------------------------------------------------------
(* Properties. *)

TypeOK ==
  /\ text \in Seq(Char) /\ tty \in BOOLEAN
  /\ at \in 0 .. Len(text) /\ done \in Nat /\ putback \in Char \union {EOF}
  /\ line \in Nat
  /\ ring \in [0 .. RingSize - 1 -> Char \union {NUL}]
  /\ rpos \in 0 .. RingSize - 1 /\ wpos \in 0 .. RingSize - 1
  /\ trough \in [0 .. UPB -> Char \union {NUL}] /\ fill \in 0 .. UPB
  /\ phase \in {"idle", "look", "fill", "space", "match", "bite", "exit"}
  /\ todo \in Seq(Kinds) /\ (phase \in {"space", "match", "bite"} => todo # <<>>)
  /\ got \in [kind : Kinds \union {"none"}, from : Nat, len : Nat]
  /\ asked \in Seq(Kinds) /\ late \in BOOLEAN /\ base \in Nat
  /\ shown \in 0 .. at

(***************************************************************************)
(* The characters reach the tokens in order, each once: what lies between  *)
(* `done` and `at` is in the trough and in the variable of the character   *)
(* put back, although that variable is written by two words and the line   *)
(* feed of a terminal is read twice (fvm_yulark.f, lines 285-395), and the *)
(* NUL is where the fill count says.                                       *)
(***************************************************************************)
InOrder ==
  /\ at = done + fill + (IF putback = EOF THEN 0 ELSE 1)
  /\ putback # EOF => putback = text[at]
  /\ \A i \in 0 .. fill - 1 : trough[i] = text[done + i + 1]
  /\ phase # "fill" => trough[fill] = NUL

\* How many characters the ring holds, and the place of the one i before the end.
Kept == IF at - shown < RingSize THEN at - shown ELSE RingSize - 1
Back(i) == IF wpos >= i THEN wpos - i ELSE wpos - i + RingSize

(***************************************************************************)
(* YU-RB-PRINT shows the last 63 characters that were read since it was    *)
(* called before, in order, each once although some were put back          *)
(* (fvm_yulark.f, lines 226-308).                                          *)
(***************************************************************************)
RingIsRecent ==
  /\ rpos = Back(Kept)
  /\ \A i \in 1 .. Kept : ring[Back(i)] = text[at - i + 1]

(***************************************************************************)
(* The line number counts each line feed once, when it is read first       *)
(* (fvm_yulark.f, lines 299-302): it is that of the end of the trough.     *)
(***************************************************************************)
LinesCounted == line = Cardinality({i \in 1 .. at : text[i] = LF})

Ahead(p, n) == [i \in 1 .. n |-> text[p + i]]

\* The trough is full, or a line of the terminal is over.
WindowEnds ==
  \/ done + fill = base + UPB
  \/ tty /\ done + fill < Len(text) /\ text[done + fill + 1] = LF

(***************************************************************************)
(* A token word answers with the longest token that the input goes on      *)
(* with, and with 0 only when there is none (fvm_yulark.f, lines 513-625). *)
(* There are two exceptions: a token that reaches past the end of the      *)
(* trough, which is where 1023 characters or a line of a terminal end, is  *)
(* cut or overlooked; and a number or string is overlooked when the trough *)
(* ran empty and was filled again between two attempts.                    *)
(***************************************************************************)
AnswerIsNext ==
  phase = "idle" =>
    IF got = None
    THEN \A i \in DOMAIN asked : \A n \in 1 .. Len(text) - done :
           Matches(asked[i], Ahead(done, n)) => late \/ (n > fill /\ WindowEnds)
    ELSE /\ Matches(got.kind, Ahead(got.from, got.len))
         /\ \A n \in got.len + 1 .. Len(text) - got.from :
              Matches(got.kind, Ahead(got.from, n)) =>
                got.from + n > done + fill /\ WindowEnds

(***************************************************************************)
(* The blocks of expressions, results and strings have an owner: a result  *)
(* lives while a word uses it, a string until its caller frees it          *)
(* (fvm_yulark.f, lines 517-625).  The arrays of match_reinfo are the only *)
(* blocks that are lost (fvm_aux.c, lines 160-200).                        *)
(***************************************************************************)
OnlyMatchesLeak ==
  phase # "exit" =>
    /\ heap.reinfo = made /\ heap.pattern = made
    /\ heap.result = IF phase = "bite" THEN 1 ELSE 0
    /\ heap.string = held
=============================================================================
