------------------------------- MODULE Numbers -------------------------------
(***************************************************************************)
(* Arithmetic, logic and comparisons on the data stack of AskForth.        *)
(*                                                                         *)
(* A word pops its cells into c00 (top) and c01, of which a pop writes the *)
(* low bytes alone, computes with the whole registers, and pushes c00.     *)
(* What it may depend on is therefore a matter of the width of a cell: sums*)
(* and logic come out right at every width, since what is above a cell     *)
(* never gets into it, everything else only when a cell fills a register.  *)
(*                                                                         *)
(* The machine starts with any cells on the stack and anything left in the *)
(* registers, as the words of CellStack leave them, and runs MaxWords.     *)
(***************************************************************************)
EXTENDS CellStack, Bitwise

CONSTANTS
  Memories,   \* what the array may hold at first
  Leftovers,  \* what the registers may hold at first
  Returned,   \* what the return stack may hold at first
  MaxWords    \* bound: the words of a run

VARIABLES
  signed,     \* stack->is_signed
  alive,      \* the process runs
  ran         \* how many words have run

numberVars == <<vars, signed, alive, ran>>

Modulus(bytes) == Base ^ bytes

\* The number a tuple of bytes stands for, unsigned and as two's complement.
Val(v) == FoldLeft(LAMBDA n, b : n * Base + b, 0, Reverse(v))
SignedVal(v) == IF v[Len(v)] >= Base \div 2 THEN Val(v) - Modulus(Len(v)) ELSE Val(v)

\* A register that is given the number n: what does not fit is lost.
Wrapped(n) == [b \in 1 .. Full |-> ((n % Modulus(Full)) \div Modulus(b - 1)) % Base]

\* Bits of a register; an x86-64 shift takes its count modulo those.
RegisterBits == CHOOSE n \in 0 .. Modulus(Full) : 2 ^ n = Modulus(Full)

-----------------------------------------------------------------------------
Binary == {"+", "-", "*", "and", "or", "xor", "lshift", "rshift"}
Unary == {"cells", "cell+", "chars", "char+", "invert"}
Comparisons == {"<", "<=", ">", ">="}

\* Mutant: MINUS takes the lower cell from the top one.
ResultSwapped(w, a, b) ==
  CASE w = "+" -> a + b
    [] w = "-" -> b - a
    [] w = "*" -> a * b
    [] w = "and" -> a & b
    [] w = "or" -> a | b
    [] w = "xor" -> a ^^ b
    [] w = "lshift" -> a * 2 ^ (b % RegisterBits)
    [] w = "rshift" -> shiftR(a, b % RegisterBits)

\* Mutant: the shift to the right keeps the lowest bit.
ResultKept(w, a, b) ==
  CASE w = "+" -> a + b
    [] w = "-" -> a - b
    [] w = "*" -> a * b
    [] w = "and" -> a & b
    [] w = "or" -> a | b
    [] w = "xor" -> a ^^ b
    [] w = "lshift" -> a * 2 ^ (b % RegisterBits)
    [] w = "rshift" -> shiftR(a, b % RegisterBits) | (a % 2)

\* What a word of two cells makes of the registers' values a (c01), b (c00).
Result(w, a, b) ==
  CASE w = "+" -> a + b
    [] w = "-" -> a - b
    [] w = "*" -> a * b
    [] w = "and" -> a & b
    [] w = "or" -> a | b
    [] w = "xor" -> a ^^ b
    [] w = "lshift" -> a * 2 ^ (b % RegisterBits)
    [] w = "rshift" -> shiftR(a, b % RegisterBits)

\* ... and a word of one cell; sizeof( askf_addr_t ) is the width of a register.
UnaryResult(w, n) ==
  CASE w = "cells" -> n * Full
    [] w = "cell+" -> n + Full
    [] w = "chars" -> n
    [] w = "char+" -> n + 1
    [] w = "invert" -> Modulus(Full) - 1 - n

Compare(w, a, b) ==
  CASE w = "<"  -> a < b
    [] w = "<=" -> a <= b
    [] w = ">"  -> a > b
    [] w = ">=" -> a >= b

-----------------------------------------------------------------------------
Arithmetic(w) ==
  /\ Runs(w)
  /\ LET s == Pop2("c00", "c01", Now)
         v == Wrapped(Result(w, Val(s.reg["c01"]), Val(s.reg["c00"])))
     IN  Expects(2, Push("c00", Set("c00", v, s)))
  /\ UNCHANGED <<width, rstack, taken, signed, alive>>

Change(w) ==
  /\ Runs(w)
  /\ LET s == Pop("c00", Now)
     IN  Expects(1, Push("c00", Set("c00", Wrapped(UnaryResult(w, Val(s.reg["c00"]))), s)))
  /\ UNCHANGED <<width, rstack, taken, signed, alive>>

\* Mutant: the sign of a number is not looked at.
OrderUnsigned(w) ==
  /\ Runs(w)
  /\ LET s == Pop2("c00", "c01", Now)
     IN  Expects(2, Push("c00",
           Set("c00", Flag(Compare(w, Val(s.reg["c01"]), Val(s.reg["c00"]))), s)))
  /\ UNCHANGED <<width, rstack, taken, signed, alive>>

\* < <= > >=
Order(w) ==
  /\ Runs(w)
  /\ LET s == Pop2("c00", "c01", Now)
         a == s.reg["c01"]
         b == s.reg["c00"]
         holds == IF signed THEN Compare(w, SignedVal(a), SignedVal(b))
                  ELSE Compare(w, Val(a), Val(b))
     IN  Expects(2, Push("c00", Set("c00", Flag(holds), s)))
  /\ UNCHANGED <<width, rstack, taken, signed, alive>>

\* 0< and 0>: zero is the left operand.
OrderZero(w) ==
  /\ Runs("0" \o w)
  /\ LET s == Pop("c00", Now)
         n == s.reg["c00"]
     IN  Expects(1, Push("c00",
           Set("c00", Flag(Compare(w, 0, IF signed THEN SignedVal(n) ELSE Val(n))), s)))
  /\ UNCHANGED <<width, rstack, taken, signed, alive>>

\* A division by zero ends the process.
DivMod ==
  /\ Runs("/mod")
  /\ LET s == Pop2("c00", "c01", Now)
         n == Val(s.reg["c01"])
         d == Val(s.reg["c00"])
     IN  \/ /\ index < 2 \/ d # 0
            /\ Expects(2, LET quotient == Push("c00", Set("c00", Wrapped(n \div d), s))
                          IN  Push("c00", Set("c00", Wrapped(n % d), quotient)))
            /\ UNCHANGED alive
         \/ index >= 2 /\ d = 0 /\ alive' = FALSE /\ Succeeds /\ Becomes(s)
  /\ UNCHANGED <<width, rstack, taken, signed>>

\* SIGNED and UNSIGNED.
Sign(is) == /\ Runs("signed") /\ signed' = is /\ UNCHANGED <<vars, alive>>

NumbersInit ==
  /\ width \in Widths /\ index \in 0 .. Limit[width]
  /\ mem \in Memories /\ reg \in Leftovers /\ rstack \in Returned
  /\ failed \in BOOLEAN /\ taken = FALSE
  /\ signed \in BOOLEAN /\ alive = TRUE /\ ran = 0

NumbersNext ==
  /\ alive /\ ran < MaxWords /\ ran' = ran + 1
  /\ \/ Next /\ UNCHANGED <<signed, alive>>
     \/ \E w \in Binary : Arithmetic(w)
     \/ \E w \in Unary : Change(w)
     \/ \E w \in Comparisons : Order(w)
     \/ \E w \in {"<", ">"} : OrderZero(w)
     \/ DivMod
     \/ \E is \in BOOLEAN : Sign(is)

NumbersSpec == NumbersInit /\ [][NumbersNext]_numberVars

-----------------------------------------------------------------------------
(* Properties.                                                             *)

Wide == width = Full
Lower == Cells[index - 1]
Highest == Cells[index]

\* The word replaces its n cells by those of out.
Replaces(n, out) == ~failed' => Cells' = SubSeq(Cells, 1, index - n) \o out

\* The cell that holds n, whatever n is.
Cell(n) == [b \in 1 .. width |-> (n \div Modulus(b - 1)) % Base]

Bit(n, k) == (n \div 2 ^ k) % 2
BitsTo(n, Holds(_)) == FoldLeft(LAMBDA sum, k : sum + (IF Holds(k - 1) THEN 2 ^ (k - 1) ELSE 0),
                               0, [k \in 1 .. n |-> k])

\* The number a word stands for, of the numbers a and b of its cells.
Meaning(w, a, b) ==
  CASE w = "+" -> a + b
    [] w = "-" -> a - b
    [] w = "*" -> a * b
    [] w = "and" -> BitsTo(RegisterBits, LAMBDA k : Bit(a, k) = 1 /\ Bit(b, k) = 1)
    [] w = "or"  -> BitsTo(RegisterBits, LAMBDA k : Bit(a, k) = 1 \/ Bit(b, k) = 1)
    [] w = "xor" -> BitsTo(RegisterBits, LAMBDA k : Bit(a, k) # Bit(b, k))

UnaryMeaning(w, n) ==
  CASE w = "cells" -> n * Full
    [] w = "cell+" -> n + Full
    [] w = "chars" -> n
    [] w = "char+" -> n + 1
    [] w = "invert" -> BitsTo(RegisterBits, LAMBDA k : Bit(n, k) = 0)

\* Sums, differences, products, logic and the address words leave the result
\* modulo the size of a cell: at every width, whatever earlier words left in
\* the registers above a cell (words/askforth_words.c:742-791, 1204-1262,
\* 1566-1629; README.md:48).
WrapsAtWidth ==
  [][/\ \A w \in Binary \ {"lshift", "rshift"} :
          Arithmetic(w) => Replaces(2, << Cell(Meaning(w, Val(Lower), Val(Highest))) >>)
     /\ \A w \in Unary :
          Change(w) => Replaces(1, << Cell(UnaryMeaning(w, Val(Highest))) >>)
    ]_numberVars

\* At full width a comparison orders the cells as the mode says, as numbers or
\* as two's complement (GUIDE/02-the-stack.md:387-403,
\* words/askforth_words.c:845-951).
OrdersByMode ==
  [][\A w \in Comparisons :
       Order(w) /\ Wide =>
         LET Read(c) == IF signed /\ c[Full] >= Base \div 2 THEN Val(c) - Modulus(Full) ELSE Val(c)
         IN  Replaces(2, << Flag(Compare(w, Read(Lower), Read(Highest))) >>)
    ]_numberVars

\* At full width a division leaves quotient and remainder of the two cells, the
\* remainder on top, and only a zero divisor ends the process; a shift moves the
\* bits of the lower cell, and those pushed out are gone
\* (words/askforth_words.c:793-811, 1534-1564).
DividesAndShifts ==
  [][Wide /\ index >= 2 =>
     /\ DivMod => /\ alive' <=> Val(Highest) # 0
                  /\ alive' => LET q == Val(Cells'[index - 1])
                                   r == Val(Cells'[index])
                               IN  /\ index' = index
                                   /\ Val(Lower) = q * Val(Highest) + r /\ r < Val(Highest)
     /\ \A right \in BOOLEAN :
          Arithmetic(IF right THEN "rshift" ELSE "lshift") /\ Val(Highest) < RegisterBits =>
            LET moved == 2 ^ Val(Highest)
            IN  Replaces(2, << Cell(IF right THEN Val(Lower) \div moved
                                    ELSE (Val(Lower) * moved) % Modulus(Full)) >>)
    ]_numberVars
=============================================================================
