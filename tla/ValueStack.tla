----------------------------- MODULE ValueStack -----------------------------
(***************************************************************************)
(* What the data stack of AskForth promises to a program: a stack of cells *)
(* of the current width and a return stack.  The words move cells as their *)
(* stack comments say, decisions are taken on the value of a cell, BITS    *)
(* cuts the bytes on the stack into cells of another width.  What does not *)
(* fit on a full stack is dropped, and of a word that fails for want of    *)
(* cells nothing is promised but that it fails.                            *)
(*                                                                         *)
(* A register is a tuple of Full bytes, the least significant one first; a *)
(* cell is a tuple of width bytes.                                         *)
(***************************************************************************)
EXTENDS Integers, Sequences, SequencesExt

CONSTANTS
  Base,       \* how many values a byte has
  Full,       \* bytes of a register, and of the widest cell
  Limit,      \* Limit[w]: how many cells of w bytes the stack holds
  RLimit,     \* how many registers the return stack holds
  BitsOf      \* BitsOf[w]: the number BITS takes for cells of w bytes

VARIABLES stack, width, rstack, failed, taken

Byte == 0 .. Base - 1
Registers == [1 .. Full -> Byte]

\* The low bytes of a register; the register that has the value of a cell.
Low(v) == [b \in 1 .. width |-> v[b]]
Value(c) == [b \in 1 .. Full |-> IF b <= width THEN c[b] ELSE 0]

Number(n) == [b \in 1 .. Full |-> IF b = 1 THEN n ELSE 0]
Flag(holds) == [b \in 1 .. Full |-> IF holds THEN Base - 1 ELSE 0]

-----------------------------------------------------------------------------
\* The word takes n cells: it fails without them.
Takes(n, effect) ==
  IF Len(stack) < n
  THEN failed' /\ UNCHANGED <<width, rstack, taken>>
  ELSE effect /\ UNCHANGED failed

Below(n) == SubSeq(stack, 1, Len(stack) - n)

\* What fits of the cells s.
Fitting(s) == IF Len(s) > Limit[width] THEN SubSeq(s, 1, Limit[width]) ELSE s

\* The n topmost cells are replaced by new.
Leaves(n, new) ==
  /\ stack' = Fitting(Below(n) \o new)
  /\ UNCHANGED <<width, rstack, taken>>

\* How many cells a word takes, and which of them, numbered from the lowest,
\* it leaves: its stack comment.
Effect(w) ==
  CASE w = "dup"   -> <<1, <<1, 1>> >>
    [] w = "drop"  -> <<1, << >> >>
    [] w = "swap"  -> <<2, <<2, 1>> >>
    [] w = "over"  -> <<2, <<1, 2, 1>> >>
    [] w = "nip"   -> <<2, <<2>> >>
    [] w = "tuck"  -> <<2, <<2, 1, 2>> >>
    [] w = "rot"   -> <<3, <<2, 3, 1>> >>
    [] w = "2dup"  -> <<2, <<1, 2, 1, 2>> >>
    [] w = "2drop" -> <<2, << >> >>
    [] w = "2swap" -> <<4, <<3, 4, 1, 2>> >>
    [] w = "2over" -> <<4, <<1, 2, 3, 4, 1, 2>> >>

Shuffle(w) ==
  LET n == Effect(w)[1]
      out == Effect(w)[2]
  IN  Takes(n, Leaves(n, [i \in DOMAIN out |-> stack[Len(stack) - n + out[i]]]))

\* A register is put on the stack.
Put(v) == Takes(0, Leaves(0, << Low(v) >>))

-----------------------------------------------------------------------------
Top == Last(stack)

MaybeDup ==
  Takes(1, Leaves(1, IF Value(Top) = Number(0) THEN << Top >> ELSE << Top, Top >>))

Equals(yes) ==
  Takes(2, Leaves(2, << Low(Flag((stack[Len(stack) - 1] = Top) = yes)) >>))

EqualsZero(yes) ==
  Takes(1, Leaves(1, << Low(Flag((Value(Top) = Number(0)) = yes)) >>))

\* IF, WHILE and UNTIL: zero is false.
ZeroBranch ==
  Takes(1, /\ stack' = Below(1)
           /\ taken' = (Value(Top) = Number(0))
           /\ UNCHANGED <<width, rstack>>)

-----------------------------------------------------------------------------
\* A register of the return stack has the bytes of the cell it was made from;
\* its other bytes are arbitrary.
PushRstack ==
  Takes(1, /\ stack' = Below(1)
           /\ \/ Len(rstack) >= RLimit /\ UNCHANGED rstack
              \/ /\ Len(rstack) < RLimit
                 /\ \E v \in Registers : Low(v) = Top /\ rstack' = Append(rstack, v)
           /\ UNCHANGED <<width, taken>>)

PopRstack ==
  IF rstack = << >>
  THEN failed' /\ UNCHANGED <<width, rstack, taken>>
  ELSE /\ stack' = Fitting(Append(stack, Low(Last(rstack))))
       /\ rstack' = Front(rstack)
       /\ UNCHANGED <<width, failed, taken>>

PeekRstack ==
  IF rstack = << >>
  THEN failed' /\ UNCHANGED <<width, rstack, taken>>
  ELSE Put(Last(rstack))

-----------------------------------------------------------------------------
\* The bytes of the stack s, whose cells have w bytes.
Bytes(s, w) ==
  [k \in 1 .. Len(s) * w |-> s[((k - 1) \div w) + 1][((k - 1) % w) + 1]]

\* The bytes below its argument are cut into cells of w bytes.  The bytes that
\* fill up the last cell are arbitrary.
Cut(w) ==
  LET old == Bytes(Below(1), width)
      new == Bytes(stack', w)
      count == (Len(old) + w - 1) \div w
  IN  /\ width' = w
      /\ Len(stack') = IF count > Limit[w] THEN Limit[w] ELSE count
      /\ \A k \in DOMAIN old \cap DOMAIN new : new[k] = old[k]
      /\ UNCHANGED <<rstack, taken>>

Bits ==
  IF stack # << >> /\ \A w \in DOMAIN Limit : Value(Top) # Number(BitsOf[w])
  THEN failed' /\ stack' = Below(1) /\ UNCHANGED <<width, rstack, taken>>
  ELSE Takes(1, \E w \in DOMAIN Limit : Value(Top) = Number(BitsOf[w]) /\ Cut(w))
=============================================================================
