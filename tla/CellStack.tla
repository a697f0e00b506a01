----------------------------- MODULE CellStack ------------------------------
(***************************************************************************)
(* The data stack and the return stack of AskForth.                        *)
(*                                                                         *)
(* The data stack is an array of bytes that is read as cells of 1, 2, 4 or *)
(* 8 bytes; BITS changes the width while cells are on the stack.  A word   *)
(* moves cells through registers of full width that live as long as the    *)
(* machine: c00 .. c03 for native words, vm for the executor.  A pop       *)
(* writes only the low bytes of its register, so that the other bytes are  *)
(* those of whatever value the register had before.                        *)
(*                                                                         *)
(* A number is a tuple of bytes, the least significant one first.          *)
(***************************************************************************)
EXTENDS Integers, Sequences, SequencesExt

CONSTANTS
  Base,       \* how many values a byte has (256)
  Full,       \* bytes of a register and of the widest cell (8)
  Widths,     \* the widths of cells in bytes ({1, 2, 4, 8})
  Limit,      \* Limit[w]: cells of w bytes the stack may hold (64, 48, 32, 16)
  Size,       \* bytes of the array (128)
  RLimit,     \* registers on the return stack (16)
  BitsOf,     \* BitsOf[w]: the number BITS takes for width w (8 * w)
  Literals,   \* the numbers of the program text
  Vocabulary  \* the words the program uses

Byte == 0 .. Base - 1
Registers == [1 .. Full -> Byte]

ASSUME WidthAssumption ==
  /\ Base \in Nat \ {0, 1} /\ Full \in Nat \ {0} /\ Size \in Nat /\ RLimit \in Nat
  /\ Widths \subseteq 1 .. Full /\ Full \in Widths
  /\ Limit \in [Widths -> Byte \ {0}]
  /\ \A w \in Widths : Limit[w] * w <= Size
  /\ BitsOf \in [Widths -> Byte]
  /\ \A v, w \in Widths : BitsOf[v] = BitsOf[w] => v = w
  /\ Literals \subseteq Registers

VARIABLES
  mem,     \* stack->cells, its bytes
  width,   \* stack->cell_scale / 8
  index,   \* stack->index
  reg,     \* the registers
  rstack,  \* the return stack; its cells always have full width
  failed,  \* a word has failed and the debugger waits
  taken    \* the last 0branch was taken

vars == <<mem, width, index, reg, rstack, failed, taken>>

Names == {"vm", "c00", "c01", "c02", "c03"}

Number(n) == [b \in 1 .. Full |-> IF b = 1 THEN n ELSE 0]
Zero == Number(0)
Flag(holds) == [b \in 1 .. Full |-> IF holds THEN Base - 1 ELSE 0]

-----------------------------------------------------------------------------
(* Stack operations, as functions of the stack s: the array, the index and *)
(* the registers.                                                          *)

Now == [mem |-> mem, index |-> index, reg |-> reg]

\* askf_stack_pop: an empty stack leaves the register as it is.
Pop(r, s) ==
  IF s.index = 0 THEN s
  ELSE LET at == (s.index - 1) * width
       IN  [s EXCEPT !.index = @ - 1,
                     !.reg[r] = [b \in 1 .. Full |->
                                   IF b <= width THEN s.mem[at + b] ELSE s.reg[r][b]]]

\* askf_stack_push: a value that has no room is dropped.
Push(r, s) ==
  LET at == s.index * width
  IN  IF s.index >= Limit[width] THEN s
      ELSE [s EXCEPT !.index = @ + 1,
                     !.mem = [a \in 1 .. Size |->
                                IF a \in at + 1 .. at + width THEN s.reg[r][a - at] ELSE s.mem[a]]]

\* The code writes all of the register.
Set(r, v, s) == [s EXCEPT !.reg[r] = v]

Becomes(s) == mem' = s.mem /\ index' = s.index /\ reg' = s.reg

Runs(word) == ~failed /\ word \in Vocabulary
Succeeds == UNCHANGED failed
Fails == failed' = TRUE

\* A word that looks for its n cells first and does nothing without them.
Expects(n, s) ==
  IF index < n THEN Fails /\ Becomes(Now) ELSE Succeeds /\ Becomes(s)

-----------------------------------------------------------------------------
(* Words that move cells.                                                  *)

Shuffles ==
  {"dup", "drop", "swap", "over", "nip", "tuck", "rot", "2dup", "2drop", "2swap", "2over"}

Pop2(r1, r2, s) == Pop(r2, Pop(r1, s))
Push2(r1, r2, s) == Push(r2, Push(r1, s))
Pop4(r1, r2, r3, r4, s) == Pop2(r3, r4, Pop2(r1, r2, s))

Need(w) ==
  CASE w \in {"dup", "drop"} -> 1
    [] w = "rot" -> 3
    [] w \in {"2swap", "2over"} -> 4
    [] OTHER -> 2

\* Mutant: ROT leaves ( c a b ).
RotBackwards(s) == Push("c01", Push2("c02", "c00", Pop("c00", Pop2("c02", "c01", s))))

Rot(s) == Push("c00", Push2("c01", "c02", Pop("c00", Pop2("c02", "c01", s))))

After(w, s) ==
  CASE w = "dup"   -> Push2("c00", "c00", Pop("c00", s))
    [] w = "drop"  -> Pop("c00", s)
    [] w = "swap"  -> Push2("c00", "c01", Pop2("c00", "c01", s))
    [] w = "over"  -> Push("c01", Push2("c01", "c00", Pop2("c00", "c01", s)))
    [] w = "nip"   -> Push("c01", Pop2("c01", "c00", s))
    [] w = "tuck"  -> Push("c01", Push2("c01", "c00", Pop2("c01", "c00", s)))
    [] w = "rot"   -> Rot(s)
    [] w = "2dup"  -> Push2("c00", "c01", Push2("c00", "c01", Pop2("c01", "c00", s)))
    [] w = "2drop" -> Pop2("c00", "c00", s)
    [] w = "2swap" -> Push2("c00", "c01", Push2("c02", "c03", Pop4("c03", "c02", "c01", "c00", s)))
    [] w = "2over" -> Push2("c03", "c02", Push2("c01", "c00", Push2("c03", "c02",
                        Pop4("c00", "c01", "c02", "c03", s))))

\* SWAP and OVER report a missing cell and go on with what is in the registers.
Shuffle(w) ==
  /\ Runs(w)
  /\ IF w \in {"swap", "over"}
     THEN failed' = (index < 2) /\ Becomes(After(w, Now))
     ELSE Expects(Need(w), After(w, Now))
  /\ UNCHANGED <<width, rstack, taken>>

-----------------------------------------------------------------------------
(* Words and operations that put a value on the stack.                     *)

\* A number, compiled or not.
Literal(v) ==
  /\ Runs("number")
  /\ Becomes(Push("vm", Set("vm", v, Now))) /\ Succeeds
  /\ UNCHANGED <<width, rstack, taken>>

\* TRUE and FALSE.
Truth(holds) ==
  /\ Runs("true")
  /\ Becomes(Push("c00", Set("c00", Flag(holds), Now))) /\ Succeeds
  /\ UNCHANGED <<width, rstack, taken>>

\* DEPTH writes one byte of the register.
Depth ==
  /\ Runs("depth")
  /\ Becomes(Push("c00", Set("c00", [reg["c00"] EXCEPT ![1] = index], Now))) /\ Succeeds
  /\ UNCHANGED <<width, rstack, taken>>

WhatBits ==
  /\ Runs("whatbits")
  /\ Becomes(Push("c00", Set("c00", Number(BitsOf[width]), Now))) /\ Succeeds
  /\ UNCHANGED <<width, rstack, taken>>

-----------------------------------------------------------------------------
(* Words that look at values: they read whole registers.                   *)

MaybeDup ==
  /\ Runs("?dup")
  /\ LET popped == Pop("c00", Now)
         pushed == Push("c00", popped)
     IN  Expects(1, IF popped.reg["c00"] = Zero THEN pushed ELSE Push("c00", pushed))
  /\ UNCHANGED <<width, rstack, taken>>

\* Mutant: the flag of the other comparison.
EqualsConfused(yes) ==
  /\ Runs("=")
  /\ LET popped == Pop2("c00", "c01", Now)
     IN  Expects(2, Push("c00", Set("c00", Flag(popped.reg["c01"] = popped.reg["c00"]), popped)))
  /\ UNCHANGED <<width, rstack, taken>>

\* = and <>.
Equals(yes) ==
  /\ Runs("=")
  /\ LET popped == Pop2("c00", "c01", Now)
         holds == (popped.reg["c01"] = popped.reg["c00"]) = yes
     IN  Expects(2, Push("c00", Set("c00", Flag(holds), popped)))
  /\ UNCHANGED <<width, rstack, taken>>

\* 0= and 0<>.
EqualsZero(yes) ==
  /\ Runs("0=")
  /\ LET popped == Pop("c00", Now)
         holds == (popped.reg["c00"] = Zero) = yes
     IN  Expects(1, Push("c00", Set("c00", Flag(holds), popped)))
  /\ UNCHANGED <<width, rstack, taken>>

\* The executor's operation behind IF, WHILE and UNTIL.
ZeroBranch ==
  /\ Runs("0branch")
  /\ LET popped == Pop("vm", Now)
     IN  /\ Expects(1, popped)
         /\ taken' = IF index < 1 THEN taken ELSE popped.reg["vm"] = Zero
  /\ UNCHANGED <<width, rstack>>

-----------------------------------------------------------------------------
(* The return stack.                                                       *)

\* Mutant: a full return stack is not noticed.
PushRstackUnchecked ==
  /\ Runs(">r")
  /\ LET popped == Pop("c00", Now)
     IN  /\ Expects(1, popped)
         /\ rstack' = IF index < 1 THEN rstack ELSE Append(rstack, popped.reg["c00"])
  /\ UNCHANGED <<width, taken>>

PushRstack ==
  /\ Runs(">r")
  /\ LET popped == Pop("c00", Now)
     IN  /\ Expects(1, popped)
         /\ rstack' = IF index < 1 \/ Len(rstack) >= RLimit THEN rstack
                      ELSE Append(rstack, popped.reg["c00"])
  /\ UNCHANGED <<width, taken>>

PopRstack ==
  /\ Runs("r>")
  /\ IF rstack = << >>
     THEN Fails /\ Becomes(Now) /\ UNCHANGED rstack
     ELSE /\ Becomes(Push("c00", Set("c00", Last(rstack), Now)))
          /\ rstack' = Front(rstack)
          /\ Succeeds
  /\ UNCHANGED <<width, taken>>

PeekRstack ==
  /\ Runs("r@")
  /\ IF rstack = << >>
     THEN Fails /\ Becomes(Now)
     ELSE Becomes(Push("c00", Set("c00", Last(rstack), Now))) /\ Succeeds
  /\ UNCHANGED <<width, rstack, taken>>

-----------------------------------------------------------------------------
(* The width of cells.                                                     *)

\* Mutants: a cell that is cut in two is lost; the index is not capped.
RescaledDown(n, w) == LET cells == (n * width) \div w
                      IN  IF cells > Limit[w] THEN Limit[w] ELSE cells
RescaledUncapped(n, w) == (n * width + w - 1) \div w

\* The index for cells of w bytes; cells beyond the limit are lost.
Rescaled(n, w) ==
  LET cells == (n * width + w - 1) \div w
  IN  IF w = width THEN n ELSE IF cells > Limit[w] THEN Limit[w] ELSE cells

\* BITS and askf_vm_change_cell_scale.
Bits ==
  /\ Runs("bits")
  /\ LET popped == Pop("c00", Now)
         sizes == {w \in Widths : popped.reg["c00"] = Number(BitsOf[w])}
     IN  \/ /\ index < 1
            /\ Fails /\ Becomes(Now) /\ UNCHANGED width
         \/ /\ index >= 1 /\ sizes = {}
            /\ Fails /\ Becomes(popped) /\ UNCHANGED width
         \/ /\ index >= 1
            /\ \E w \in sizes :
                 /\ width' = w
                 /\ Becomes([popped EXCEPT !.index = Rescaled(@, w)])
            /\ Succeeds
  /\ UNCHANGED <<rstack, taken>>

-----------------------------------------------------------------------------
\* 0SP
ClearStack ==
  /\ Runs("0sp")
  /\ index' = 0 /\ Succeeds
  /\ UNCHANGED <<mem, width, reg, rstack, taken>>

Abort ==
  /\ Runs("abort")
  /\ index' = 0 /\ rstack' = << >> /\ Succeeds
  /\ UNCHANGED <<mem, width, reg, taken>>

\* The end of a line of input: REFILL pushes a flag, and askf_exec takes one
\* cell off.
LineEnd ==
  /\ Runs("line")
  /\ LET filled == Push("c00", Set("c00", Flag(TRUE), Now))
     IN  Becomes([filled EXCEPT !.index = @ - 1])
  /\ Succeeds
  /\ UNCHANGED <<width, rstack, taken>>

\* At the end of a file it pushes what c00 holds, before it is set.
FileEnd ==
  /\ Runs("eof")
  /\ LET filled == Set("c00", Flag(FALSE), Push("c00", Now))
     IN  Becomes([filled EXCEPT !.index = @ - 1])
  /\ Succeeds
  /\ UNCHANGED <<width, rstack, taken>>

\* The debugger's continue and abort leave both stacks as they are.
Recover ==
  /\ failed /\ failed' = FALSE
  /\ UNCHANGED <<mem, width, index, reg, rstack, taken>>

Init ==
  /\ mem = [a \in 1 .. Size |-> 0] /\ width = Full /\ index = 0
  /\ reg = [r \in Names |-> Zero]
  /\ rstack = << >> /\ failed = FALSE /\ taken = FALSE

Next ==
  \/ \E w \in Shuffles : Shuffle(w)
  \/ \E v \in Literals : Literal(v)
  \/ \E b \in BOOLEAN : Truth(b) \/ Equals(b) \/ EqualsZero(b)
  \/ Depth \/ WhatBits \/ MaybeDup \/ ZeroBranch
  \/ PushRstack \/ PopRstack \/ PeekRstack
  \/ Bits \/ ClearStack \/ LineEnd \/ FileEnd \/ Abort \/ Recover

Spec == Init /\ [][Next]_vars

-----------------------------------------------------------------------------
(* Properties.                                                             *)

\* The type invariant: the index never passes the limit of the current width,
\* whatever BITS, a full stack or a missing cell did, so that every access
\* stays in the array (stack/stack.h:4-17, vm/forth_vm.c:482-485).
TypeOK ==
  /\ mem \in [1 .. Size -> Byte]
  /\ width \in Widths
  /\ index \in 0 .. Limit[width]
  /\ reg \in [Names -> Registers]
  /\ rstack \in Seq(Registers) /\ Len(rstack) <= RLimit
  /\ failed \in BOOLEAN /\ taken \in BOOLEAN

\* The stack as the program sees it, and what it is promised of it.
Cells == [i \in 1 .. index |-> [b \in 1 .. width |-> mem[(i - 1) * width + b]]]

Promise == INSTANCE ValueStack WITH stack <- Cells

\* At every width, on a full stack and on a short one, a word that moves cells
\* leaves what its stack comment says, and a number leaves itself: the shared
\* registers, of which a pop writes only a part, never show
\* (words/askforth_words.c:209-413).
MovesCells ==
  [][/\ \A w \in Shuffles : Shuffle(w) => Promise!Shuffle(w)
     /\ \A v \in Literals : Literal(v) => Promise!Put(v)]_vars

\* Where a cell fills a register, what a word or a branch decides depends on the
\* value of the cells it takes and on nothing a register had before
\* (words/askforth_words.c:221, 813-843, 973-1004, vm/forth_vm.c:149-162).
DecidesByValue ==
  [][/\ \A b \in BOOLEAN : Truth(b) => Promise!Put(Flag(b))
     /\ width = Full =>
          /\ MaybeDup => Promise!MaybeDup
          /\ \A b \in BOOLEAN : /\ Equals(b) => Promise!Equals(b)
                                /\ EqualsZero(b) => Promise!EqualsZero(b)
          /\ ZeroBranch => Promise!ZeroBranch]_vars

\* A cell that went to the return stack comes back as it was, though the two
\* stacks need not have the same width (words/askforth_words.c:2757-2790).
ReturnsCells ==
  [][/\ PushRstack => Promise!PushRstack
     /\ PopRstack => Promise!PopRstack
     /\ PeekRstack => Promise!PeekRstack]_vars

\* A BITS that succeeds loses no byte that has room at the new width, moves
\* none, and leaves as many cells as hold them, no more: the return stack and
\* stale registers make no difference (README.md:48, vm/forth_vm.c:457-488).
RecutsBytes == [][Bits /\ ~failed' => Promise!Bits]_vars

\* IF takes a cell that is zero for false (GUIDE/05-control-flow.md:55).
ZeroIsFalse ==
  [][ZeroBranch /\ ~failed' => (taken' <=> Promise!Value(Last(Cells)) = Zero)]_vars
=============================================================================
