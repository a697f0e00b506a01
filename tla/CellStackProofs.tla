--------------------------- MODULE CellStackProofs --------------------------
(***************************************************************************)
(* The index of the data stack never leaves its array, for every width and *)
(* every sequence of words: CellStack's type invariant is inductive.       *)
(*                                                                         *)
(* The words of CellStack keep what ValueStack promises of them, at every  *)
(* width and whatever the registers held before: each step of the array    *)
(* and the shared registers is the step of the stack of cells.             *)
(***************************************************************************)
EXTENDS CellStack, SequenceTheorems, Lemmas, TLAPS

\* The values that Pop, Push and Set transform, at the current width.
Stacks ==
  [mem: [1 .. Size -> Byte], index: 0 .. Limit[width], reg: [Names -> Registers]]

-----------------------------------------------------------------------------
(* The stack operations keep to the array.                                 *)

\* A cell below the limit lies in the array: its bytes are some of 1 .. Size.
LEMMA CellInArray ==
  ASSUME width \in Widths, NEW i \in Nat, i < Limit[width], NEW b \in 1 .. width
  PROVE  i * width + b \in 1 .. Size
<1> DEFINE l == Limit[width]
<1>1. l \in Nat /\ width \in Nat /\ Size \in Nat /\ l * width <= Size
  BY WidthAssumption DEF WidthAssumption, Byte
<1> HIDE DEF l
<1>2. (i + 1) * width <= l * width
  <2>1. PICK d \in Nat : l = i + 1 + d
    <3>1. l - (i + 1) \in Nat
      BY <1>1 DEF l
    <3> QED BY <3>1, <1>1
  <2>2. l * width = (i + 1) * width + d * width /\ d * width \in Nat
    BY <2>1, <1>1
  <2> QED BY <2>2, <1>1
<1>3. (i + 1) * width = i * width + width /\ i * width \in Nat
  BY <1>1
<1> QED BY <1>1, <1>2, <1>3

LEMMA ZeroTyped == Zero \in Registers
  BY WidthAssumption DEF WidthAssumption, Zero, Number, Registers, Byte

LEMMA FlagTyped == ASSUME NEW b \in BOOLEAN PROVE Flag(b) \in Registers
  BY WidthAssumption DEF WidthAssumption, Flag, Registers, Byte

\* A pop gives a register bytes of the array and takes one cell off.
LEMMA PopTyped ==
  ASSUME width \in Widths, NEW s \in Stacks, NEW r \in Names
  PROVE  Pop(r, s) \in Stacks
<1>1. CASE s.index = 0
  BY <1>1 DEF Pop
<1>2. CASE s.index # 0
  <2> DEFINE i == s.index - 1
             v == [b \in 1 .. Full |-> IF b <= width THEN s.mem[i * width + b] ELSE s.reg[r][b]]
  <2>1. i \in Nat /\ i < Limit[width] /\ i \in 0 .. Limit[width]
    BY <1>2, WidthAssumption DEF WidthAssumption, Byte, Stacks
  <2>2. v \in Registers
    <3>1. \A b \in 1 .. Full : b <= width => s.mem[i * width + b] \in Byte
      <4> SUFFICES ASSUME NEW b \in 1 .. Full, b <= width
                   PROVE  s.mem[i * width + b] \in Byte
        OBVIOUS
      <4>1. b \in 1 .. width
        BY WidthAssumption DEF WidthAssumption
      <4>2. i * width + b \in 1 .. Size
        BY <2>1, <4>1, CellInArray
      <4> QED BY <4>2 DEF Stacks
    <3>2. \A b \in 1 .. Full : s.reg[r][b] \in Byte
      BY DEF Stacks, Registers
    <3> QED BY <3>1, <3>2 DEF Registers
  <2>3. Pop(r, s) = [s EXCEPT !.index = i, !.reg[r] = v]
    BY <1>2 DEF Pop
  <2> HIDE DEF i, v
  <2> DEFINE rg == [s.reg EXCEPT ![r] = v]
  <2>4. s.mem \in [1 .. Size -> Byte] /\ rg \in [Names -> Registers]
    BY <2>2 DEF Stacks
  <2>5. Pop(r, s) = [mem |-> s.mem, index |-> i, reg |-> rg]
    BY <2>3 DEF Stacks
  <2> HIDE DEF rg
  <2> QED BY <2>1, <2>4, <2>5 DEF Stacks
<1> QED BY <1>1, <1>2

\* A push writes bytes of a register to the array and never passes the limit.
LEMMA PushTyped ==
  ASSUME width \in Widths, NEW s \in Stacks, NEW r \in Names
  PROVE  Push(r, s) \in Stacks
<1>1. CASE s.index >= Limit[width]
  BY <1>1 DEF Push
<1>2. CASE ~(s.index >= Limit[width])
  <2> DEFINE at == s.index * width
             m == [a \in 1 .. Size |->
                     IF a \in at + 1 .. at + width THEN s.reg[r][a - at] ELSE s.mem[a]]
  <2>1. /\ s.index \in Nat /\ width \in 1 .. Full /\ Full \in Nat /\ Size \in Nat
        /\ at \in Nat
    BY WidthAssumption DEF WidthAssumption, Byte, Stacks
  <2>2. m \in [1 .. Size -> Byte]
    <3> SUFFICES ASSUME NEW a \in 1 .. Size, a \in at + 1 .. at + width
                 PROVE  s.reg[r][a - at] \in Byte
      BY DEF Stacks
    <3> HIDE DEF at
    <3>1. a - at \in 1 .. Full
      BY <2>1
    <3>2. s.reg[r] \in [1 .. Full -> Byte]
      BY DEF Stacks, Registers
    <3> QED BY <3>1, <3>2
  <2>3. s.index + 1 \in 0 .. Limit[width]
    BY <1>2, WidthAssumption DEF WidthAssumption, Byte, Stacks
  <2>4. Push(r, s) = [s EXCEPT !.index = @ + 1, !.mem = m]
    BY <1>2 DEF Push
  <2> HIDE DEF m
  <2> QED BY <2>2, <2>3, <2>4 DEF Stacks
<1> QED BY <1>1, <1>2

LEMMA SetTyped ==
  ASSUME NEW s \in Stacks, NEW r \in Names, NEW v \in Registers
  PROVE  Set(r, v, s) \in Stacks
  BY DEF Set, Stacks

\* So does every composition of pops and pushes.
LEMMA AfterTyped ==
  ASSUME width \in Widths, NEW s \in Stacks, NEW w \in Shuffles
  PROVE  After(w, s) \in Stacks
<1>1. \A r \in Names, t \in Stacks : Pop(r, t) \in Stacks /\ Push(r, t) \in Stacks
  BY PopTyped, PushTyped
<1>2. {"c00", "c01", "c02", "c03"} \subseteq Names
  BY DEF Names
<1>3. \A r1, r2 \in Names, t \in Stacks :
        Pop2(r1, r2, t) \in Stacks /\ Push2(r1, r2, t) \in Stacks
  BY <1>1 DEF Pop2, Push2
<1>4. \A r1, r2, r3, r4 \in Names, t \in Stacks : Pop4(r1, r2, r3, r4, t) \in Stacks
  BY <1>3 DEF Pop4
<1>5. Rot(s) \in Stacks
  BY <1>1, <1>2, <1>3 DEF Rot
<1> HIDE DEF Names, Stacks
<1> QED BY <1>1, <1>2, <1>3, <1>4, <1>5 DEF After, Shuffles

-----------------------------------------------------------------------------
(* Typing of a step, in two parts: the data stack with its registers, and  *)
(* the rest.                                                               *)

DataOK ==
  /\ mem \in [1 .. Size -> Byte]
  /\ width \in Widths
  /\ index \in 0 .. Limit[width]
  /\ reg \in [Names -> Registers]

RestOK ==
  /\ rstack \in Seq(Registers) /\ Len(rstack) <= RLimit
  /\ failed \in BOOLEAN /\ taken \in BOOLEAN

LEMMA NowTyped == ASSUME DataOK PROVE Now \in Stacks
  BY DEF DataOK, Now, Stacks

\* A step that leaves the width alone and yields a typed stack.
LEMMA BecomesTyped ==
  ASSUME DataOK, NEW s \in Stacks, Becomes(s), UNCHANGED width
  PROVE  DataOK'
  BY DEF DataOK, Stacks, Becomes

LEMMA ExpectsTyped ==
  ASSUME DataOK, failed \in BOOLEAN, UNCHANGED width,
         NEW n \in Nat, NEW s \in Stacks, Expects(n, s)
  PROVE  DataOK' /\ failed' \in BOOLEAN
<1>1. Now \in Stacks
  BY NowTyped
<1>2. Becomes(Now) \/ Becomes(s)
  BY DEF Expects
<1>3. DataOK'
  BY <1>1, <1>2, BecomesTyped
<1> QED BY <1>3 DEF Expects, Fails, Succeeds

\* Pops, pushes and settings of the registers native words and the executor use.
LEMMA OperationsTyped ==
  ASSUME width \in Widths
  PROVE  \A r \in Names, s \in Stacks :
           /\ Pop(r, s) \in Stacks
           /\ Push(r, s) \in Stacks
           /\ \A v \in Registers : Set(r, v, s) \in Stacks
  BY PopTyped, PushTyped, SetTyped

\* BITS never leaves more cells than the new width has room for.
LEMMA RescaledTyped ==
  ASSUME DataOK, NEW n \in 0 .. Limit[width], NEW w \in Widths
  PROVE  Rescaled(n, w) \in 0 .. Limit[w]
<1>1. w \in Nat \ {0} /\ width \in Nat /\ n \in Nat /\ Limit[w] \in Nat
  BY WidthAssumption DEF WidthAssumption, DataOK, Byte
<1> DEFINE bytes == n * width + w - 1
           cells == bytes \div w
<1>2. bytes \in Nat
  <2>1. n * width \in Nat
    BY <1>1
  <2> QED BY <2>1, <1>1
<1>3. cells \in Nat
  <2> HIDE DEF bytes
  <2> QED BY <1>1, <1>2
<1> HIDE DEF cells
<1>4. Rescaled(n, w) = IF w = width THEN n ELSE IF cells > Limit[w] THEN Limit[w] ELSE cells
  BY DEF Rescaled, cells
<1> QED BY <1>1, <1>3, <1>4

LEMMA InitTyped == Init => TypeOK
<1> SUFFICES ASSUME Init PROVE TypeOK
  OBVIOUS
<1>1. mem \in [1 .. Size -> Byte]
  BY WidthAssumption DEF WidthAssumption, Init, Byte
<1>2. width \in Widths /\ index \in 0 .. Limit[width]
  BY WidthAssumption DEF WidthAssumption, Init, Byte
<1>3. reg \in [Names -> Registers]
  BY ZeroTyped DEF Init
<1>4. rstack \in Seq(Registers) /\ Len(rstack) <= RLimit
  BY WidthAssumption DEF WidthAssumption, Init
<1> QED BY <1>1, <1>2, <1>3, <1>4 DEF Init, TypeOK

LEMMA NextTyped == TypeOK /\ [Next]_vars => TypeOK'
<1> SUFFICES ASSUME TypeOK, [Next]_vars PROVE TypeOK'
  OBVIOUS
<1>parts. DataOK /\ RestOK
  BY DEF TypeOK, DataOK, RestOK
<1>whole. (DataOK' /\ RestOK') => TypeOK'
  BY DEF TypeOK, DataOK, RestOK
<1>now. width \in Widths /\ Now \in Stacks
  BY <1>parts, NowTyped DEF DataOK
<1>ops. \A r \in Names, s \in Stacks :
          /\ Pop(r, s) \in Stacks
          /\ Push(r, s) \in Stacks
          /\ \A v \in Registers : Set(r, v, s) \in Stacks
  BY <1>now, OperationsTyped
<1>empty. 0 \in 0 .. Limit[width] /\ << >> \in Seq(Registers) /\ Len(<< >>) <= RLimit
  <2>1. Limit[width] \in Nat /\ RLimit \in Nat
    BY <1>now, WidthAssumption DEF WidthAssumption, Byte
  <2> QED BY <2>1
<1>names. {"vm", "c00", "c01", "c02", "c03"} \subseteq Names
  BY DEF Names
<1>flags. \A b \in BOOLEAN : Flag(b) \in Registers
  BY FlagTyped
<1>top. rstack # << >> => /\ Last(rstack) \in Registers
                          /\ Front(rstack) \in Seq(Registers)
                          /\ Len(Front(rstack)) <= RLimit
  <2> SUFFICES ASSUME rstack # << >>
               PROVE  /\ Last(rstack) \in Registers
                      /\ Front(rstack) \in Seq(Registers)
                      /\ Len(Front(rstack)) <= RLimit
    OBVIOUS
  <2> DEFINE n == Len(rstack)
  <2>1. rstack \in Seq(Registers) /\ n \in Nat /\ n >= 1 /\ n <= RLimit /\ RLimit \in Nat
    BY <1>parts, WidthAssumption DEF RestOK, WidthAssumption
  <2>2. rstack[n] \in Registers
    BY <2>1
  <2>3. Front(rstack) = [i \in 1 .. n - 1 |-> rstack[i]]
    BY <2>1 DEF Front
  <2>4. Front(rstack) \in Seq(Registers) /\ Len(Front(rstack)) = n - 1
    <3>1. n - 1 \in Nat /\ \A i \in 1 .. n - 1 : rstack[i] \in Registers
      BY <2>1
    <3> HIDE DEF n
    <3> QED BY <2>3, <3>1
  <2> QED BY <2>1, <2>2, <2>4 DEF Last
<1>1. ASSUME NEW w \in Shuffles, Shuffle(w) PROVE TypeOK'
  <2>1. After(w, Now) \in Stacks
    BY <1>now, AfterTyped
  <2>2. Need(w) \in Nat
    BY DEF Need
  <2>3. DataOK' /\ failed' \in BOOLEAN
    <3>1. CASE w \in {"swap", "over"}
      BY <1>1, <3>1, <1>parts, <2>1, BecomesTyped DEF Shuffle
    <3>2. CASE w \notin {"swap", "over"}
      BY <1>1, <3>2, <1>parts, <2>1, <2>2, ExpectsTyped DEF Shuffle, RestOK
    <3> QED BY <3>1, <3>2
  <2>4. RestOK'
    BY <1>1, <1>parts, <2>3 DEF Shuffle, RestOK
  <2> QED BY <2>3, <2>4, <1>whole
<1>2. ASSUME NEW v \in Literals, Literal(v) PROVE TypeOK'
  <2>1. v \in Registers
    BY WidthAssumption DEF WidthAssumption
  <2>2. Push("vm", Set("vm", v, Now)) \in Stacks
    BY <2>1, <1>now, <1>ops, <1>names
  <2>3. DataOK'
    BY <1>2, <1>parts, <2>2, BecomesTyped DEF Literal
  <2>4. RestOK'
    BY <1>2, <1>parts DEF Literal, RestOK, Succeeds
  <2> QED BY <2>3, <2>4, <1>whole
<1>3. ASSUME NEW b \in BOOLEAN, Truth(b) PROVE TypeOK'
  <2>1. Push("c00", Set("c00", Flag(b), Now)) \in Stacks
    BY <1>flags, <1>now, <1>ops, <1>names
  <2>2. DataOK'
    BY <1>3, <1>parts, <2>1, BecomesTyped DEF Truth
  <2>3. RestOK'
    BY <1>3, <1>parts DEF Truth, RestOK, Succeeds
  <2> QED BY <2>2, <2>3, <1>whole
<1>4. ASSUME NEW b \in BOOLEAN, Equals(b) PROVE TypeOK'
  <2> DEFINE popped == Pop2("c00", "c01", Now)
             holds == (popped.reg["c01"] = popped.reg["c00"]) = b
  <2>1. popped \in Stacks
    BY <1>now, <1>ops, <1>names DEF Pop2
  <2>2. Flag(holds) \in Registers
    BY FlagTyped
  <2> DEFINE s == Push("c00", Set("c00", Flag(holds), popped))
  <2>3. s \in Stacks
    BY <2>1, <2>2, <1>ops, <1>names
  <2>4. Expects(2, s) /\ UNCHANGED <<width, rstack, taken>>
    BY <1>4 DEF Equals
  <2> HIDE DEF s
  <2>5. DataOK' /\ failed' \in BOOLEAN
    BY <2>3, <2>4, <1>parts, ExpectsTyped DEF RestOK
  <2>6. RestOK'
    BY <2>4, <2>5, <1>parts DEF RestOK
  <2> QED BY <2>5, <2>6, <1>whole
<1>5. ASSUME NEW b \in BOOLEAN, EqualsZero(b) PROVE TypeOK'
  <2> DEFINE popped == Pop("c00", Now)
             holds == (popped.reg["c00"] = Zero) = b
  <2>1. popped \in Stacks
    BY <1>now, <1>ops, <1>names
  <2>2. Flag(holds) \in Registers
    BY FlagTyped
  <2> DEFINE s == Push("c00", Set("c00", Flag(holds), popped))
  <2>3. s \in Stacks
    BY <2>1, <2>2, <1>ops, <1>names
  <2>4. Expects(1, s) /\ UNCHANGED <<width, rstack, taken>>
    BY <1>5 DEF EqualsZero
  <2> HIDE DEF s
  <2>5. DataOK' /\ failed' \in BOOLEAN
    BY <2>3, <2>4, <1>parts, ExpectsTyped DEF RestOK
  <2>6. RestOK'
    BY <2>4, <2>5, <1>parts DEF RestOK
  <2> QED BY <2>5, <2>6, <1>whole
<1>6. ASSUME Depth PROVE TypeOK'
  <2> DEFINE v == [reg["c00"] EXCEPT ![1] = index]
  <2>1. v \in Registers
    <3>1. index \in Byte
      <4>1. Limit[width] \in Byte /\ index \in 0 .. Limit[width] /\ Base \in Nat
        BY <1>parts, WidthAssumption DEF DataOK, WidthAssumption
      <4> QED BY <4>1 DEF Byte
    <3>2. reg["c00"] \in [1 .. Full -> Byte]
      BY <1>parts, <1>names DEF DataOK, Registers
    <3> QED BY <3>1, <3>2 DEF Registers
  <2> HIDE DEF v
  <2>2. Push("c00", Set("c00", v, Now)) \in Stacks
    BY <2>1, <1>now, <1>ops, <1>names
  <2>3. Becomes(Push("c00", Set("c00", v, Now))) /\ UNCHANGED width
    BY <1>6 DEF Depth, v
  <2>4. DataOK'
    BY <2>2, <2>3, <1>parts, BecomesTyped
  <2>5. RestOK'
    BY <1>6, <1>parts DEF Depth, RestOK, Succeeds
  <2> QED BY <2>4, <2>5, <1>whole
<1>7. ASSUME WhatBits PROVE TypeOK'
  <2>1. Number(BitsOf[width]) \in Registers
    <3>1. BitsOf[width] \in Byte /\ 0 \in Byte
      BY <1>now, WidthAssumption DEF WidthAssumption, Byte
    <3> QED BY <3>1 DEF Number, Registers
  <2>2. Push("c00", Set("c00", Number(BitsOf[width]), Now)) \in Stacks
    BY <2>1, <1>now, <1>ops, <1>names
  <2>3. DataOK'
    BY <1>7, <1>parts, <2>2, BecomesTyped DEF WhatBits
  <2>4. RestOK'
    BY <1>7, <1>parts DEF WhatBits, RestOK, Succeeds
  <2> QED BY <2>3, <2>4, <1>whole
<1>8. ASSUME MaybeDup PROVE TypeOK'
  <2> DEFINE popped == Pop("c00", Now)
             pushed == Push("c00", popped)
             s == IF popped.reg["c00"] = Zero THEN pushed ELSE Push("c00", pushed)
  <2>1. s \in Stacks
    BY <1>now, <1>ops, <1>names
  <2>2. Expects(1, s) /\ UNCHANGED <<width, rstack, taken>>
    BY <1>8 DEF MaybeDup
  <2> HIDE DEF s
  <2>3. DataOK' /\ failed' \in BOOLEAN
    BY <2>1, <2>2, <1>parts, ExpectsTyped DEF RestOK
  <2>4. RestOK'
    BY <2>2, <2>3, <1>parts DEF RestOK
  <2> QED BY <2>3, <2>4, <1>whole
<1>9. ASSUME ZeroBranch PROVE TypeOK'
  <2> DEFINE popped == Pop("vm", Now)
  <2>1. popped \in Stacks
    BY <1>now, <1>ops, <1>names
  <2>2. /\ Expects(1, popped) /\ UNCHANGED <<width, rstack>>
        /\ taken' = IF index < 1 THEN taken ELSE popped.reg["vm"] = Zero
    BY <1>9 DEF ZeroBranch
  <2> HIDE DEF popped
  <2>3. DataOK' /\ failed' \in BOOLEAN
    BY <2>1, <2>2, <1>parts, ExpectsTyped DEF RestOK
  <2>4. taken' \in BOOLEAN
    <3>1. taken \in BOOLEAN
      BY <1>parts DEF RestOK
    <3> QED BY <2>2, <3>1
  <2>5. RestOK'
    BY <2>2, <2>3, <2>4, <1>parts DEF RestOK
  <2> QED BY <2>3, <2>5, <1>whole
<1>10. ASSUME PushRstack PROVE TypeOK'
  <2> DEFINE popped == Pop("c00", Now)
             v == popped.reg["c00"]
  <2>1. popped \in Stacks
    BY <1>now, <1>ops, <1>names
  <2>2. v \in Registers
    BY <2>1, <1>names DEF Stacks
  <2> HIDE DEF v
  <2>3. /\ Expects(1, popped) /\ UNCHANGED <<width, taken>>
        /\ rstack' = IF index < 1 \/ Len(rstack) >= RLimit THEN rstack ELSE Append(rstack, v)
    BY <1>10 DEF PushRstack, v
  <2> HIDE DEF popped
  <2>4. DataOK' /\ failed' \in BOOLEAN
    BY <2>1, <2>3, <1>parts, ExpectsTyped DEF RestOK
  <2>5. rstack' \in Seq(Registers) /\ Len(rstack') <= RLimit
    <3>1. rstack \in Seq(Registers) /\ Len(rstack) <= RLimit /\ RLimit \in Nat /\ Len(rstack) \in Nat
      BY <1>parts, WidthAssumption DEF RestOK, WidthAssumption
    <3>2. CASE rstack' = rstack
      BY <3>1, <3>2
    <3>3. CASE rstack' = Append(rstack, v) /\ ~(Len(rstack) >= RLimit)
      BY <3>1, <3>3, <2>2
    <3> QED BY <3>2, <3>3, <2>3
  <2>6. RestOK'
    BY <2>3, <2>4, <2>5, <1>parts DEF RestOK
  <2> QED BY <2>4, <2>6, <1>whole
<1>11. ASSUME PopRstack PROVE TypeOK'
  <2>1. CASE rstack = << >>
    <3>1. DataOK'
      BY <1>11, <2>1, <1>parts, <1>now, BecomesTyped DEF PopRstack
    <3>2. RestOK'
      BY <1>11, <2>1, <1>parts DEF PopRstack, RestOK, Fails
    <3> QED BY <3>1, <3>2, <1>whole
  <2>2. CASE rstack # << >>
    <3>1. Push("c00", Set("c00", Last(rstack), Now)) \in Stacks
      BY <2>2, <1>top, <1>now, <1>ops, <1>names
    <3>2. DataOK'
      BY <1>11, <2>2, <3>1, <1>parts, BecomesTyped DEF PopRstack
    <3>3. RestOK'
      BY <1>11, <2>2, <1>top, <1>parts DEF PopRstack, RestOK, Succeeds
    <3> QED BY <3>2, <3>3, <1>whole
  <2> QED BY <2>1, <2>2
<1>12. ASSUME PeekRstack PROVE TypeOK'
  <2>1. CASE rstack = << >>
    <3>1. DataOK'
      BY <1>12, <2>1, <1>parts, <1>now, BecomesTyped DEF PeekRstack
    <3>2. RestOK'
      BY <1>12, <2>1, <1>parts DEF PeekRstack, RestOK, Fails
    <3> QED BY <3>1, <3>2, <1>whole
  <2>2. CASE rstack # << >>
    <3>1. Push("c00", Set("c00", Last(rstack), Now)) \in Stacks
      BY <2>2, <1>top, <1>now, <1>ops, <1>names
    <3>2. DataOK'
      BY <1>12, <2>2, <3>1, <1>parts, BecomesTyped DEF PeekRstack
    <3>3. RestOK'
      BY <1>12, <2>2, <1>parts DEF PeekRstack, RestOK, Succeeds
    <3> QED BY <3>2, <3>3, <1>whole
  <2> QED BY <2>1, <2>2
<1>13. ASSUME Bits PROVE TypeOK'
  <2> DEFINE popped == Pop("c00", Now)
             sizes == {w \in Widths : popped.reg["c00"] = Number(BitsOf[w])}
  <2>1. popped \in Stacks
    BY <1>now, <1>ops, <1>names
  <2>2. UNCHANGED <<rstack, taken>>
    BY <1>13 DEF Bits
  <2>3. CASE index < 1 /\ Fails /\ Becomes(Now) /\ UNCHANGED width
    <3>1. DataOK'
      BY <2>3, <1>parts, <1>now, BecomesTyped
    <3> QED BY <2>2, <2>3, <3>1, <1>parts, <1>whole DEF RestOK, Fails
  <2>4. CASE Fails /\ Becomes(popped) /\ UNCHANGED width
    <3> HIDE DEF popped
    <3>1. DataOK'
      BY <2>1, <2>4, <1>parts, BecomesTyped
    <3> QED BY <2>2, <2>4, <3>1, <1>parts, <1>whole DEF RestOK, Fails
  <2>5. ASSUME NEW w \in Widths, width' = w, Succeeds,
               Becomes([popped EXCEPT !.index = Rescaled(@, w)])
        PROVE  TypeOK'
    <3> HIDE DEF popped
    <3>1. popped.index \in 0 .. Limit[width]
      BY <2>1 DEF Stacks
    <3>2. Rescaled(popped.index, w) \in 0 .. Limit[w]
      BY <3>1, <1>parts, RescaledTyped
    <3>3. mem' = popped.mem /\ index' = Rescaled(popped.index, w) /\ reg' = popped.reg
      BY <2>5, <2>1 DEF Becomes, Stacks
    <3>4. DataOK'
      BY <2>1, <2>5, <3>2, <3>3 DEF DataOK, Stacks
    <3> QED BY <2>2, <2>5, <3>4, <1>parts, <1>whole DEF RestOK, Succeeds
  <2>6. \/ index < 1 /\ Fails /\ Becomes(Now) /\ UNCHANGED width
        \/ Fails /\ Becomes(popped) /\ UNCHANGED width
        \/ \E w \in Widths : /\ width' = w /\ Succeeds
                             /\ Becomes([popped EXCEPT !.index = Rescaled(@, w)])
    BY <1>13 DEF Bits
  <2> HIDE DEF popped
  <2> QED BY <2>3, <2>4, <2>5, <2>6
<1>14. ASSUME ClearStack PROVE TypeOK'
  BY <1>14, <1>empty, <1>parts, <1>whole DEF ClearStack, DataOK, RestOK, Succeeds
<1>15. ASSUME \/ LineEnd
              \/ FileEnd
       PROVE  TypeOK'
  <2>1. PICK filled \in Stacks : /\ filled.index >= 1
                                 /\ Becomes([filled EXCEPT !.index = @ - 1])
    <3>1. \A r \in Names, s \in Stacks : Push(r, s).index >= 1
      <4> SUFFICES ASSUME NEW r \in Names, NEW s \in Stacks PROVE Push(r, s).index >= 1
        OBVIOUS
      <4>1. Limit[width] \in Nat /\ Limit[width] >= 1 /\ s.index \in Nat
        BY <1>now, WidthAssumption DEF WidthAssumption, Byte, Stacks
      <4> QED BY <4>1 DEF Push, Stacks
    <3>2. CASE LineEnd
      <4> DEFINE set == Set("c00", Flag(TRUE), Now)
                 filled == Push("c00", set)
      <4>1. set \in Stacks /\ filled \in Stacks
        BY <1>now, <1>ops, <1>names, <1>flags
      <4>2. filled.index >= 1
        BY <4>1, <3>1, <1>names
      <4>3. Becomes([filled EXCEPT !.index = @ - 1])
        BY <3>2 DEF LineEnd
      <4> HIDE DEF filled
      <4> QED BY <4>1, <4>2, <4>3
    <3>3. CASE FileEnd
      <4> DEFINE pushed == Push("c00", Now)
                 filled == Set("c00", Flag(FALSE), pushed)
      <4>1. pushed \in Stacks /\ filled \in Stacks
        BY <1>now, <1>ops, <1>names, <1>flags
      <4>2. pushed.index >= 1
        BY <1>now, <3>1, <1>names
      <4>3. filled.index >= 1
        <5> HIDE DEF pushed
        <5> QED BY <4>1, <4>2 DEF Set, Stacks
      <4>4. Becomes([filled EXCEPT !.index = @ - 1])
        BY <3>3 DEF FileEnd
      <4> HIDE DEF filled
      <4> QED BY <4>1, <4>3, <4>4
    <3> QED BY <1>15, <3>2, <3>3
  <2>2. mem' = filled.mem /\ index' = filled.index - 1 /\ reg' = filled.reg
    BY <2>1 DEF Becomes, Stacks
  <2>3. filled.index - 1 \in 0 .. Limit[width]
    <3>1. Limit[width] \in Nat
      BY <1>now, WidthAssumption DEF WidthAssumption, Byte
    <3> QED BY <2>1, <3>1 DEF Stacks
  <2>4. UNCHANGED <<width, rstack, taken, failed>>
    BY <1>15 DEF LineEnd, FileEnd, Succeeds
  <2>5. DataOK'
    BY <2>2, <2>3, <2>4, <1>parts DEF DataOK, Stacks
  <2> QED BY <2>4, <2>5, <1>parts, <1>whole DEF RestOK
<1>16. ASSUME Abort PROVE TypeOK'
  BY <1>16, <1>empty, <1>parts, <1>whole DEF Abort, DataOK, RestOK, Succeeds
<1>17. ASSUME Recover PROVE TypeOK'
  BY <1>17, <1>parts, <1>whole DEF Recover, DataOK, RestOK
<1>18. ASSUME UNCHANGED vars PROVE TypeOK'
  BY <1>18, <1>parts, <1>whole DEF vars, DataOK, RestOK
<1> QED
  BY <1>1, <1>2, <1>3, <1>4, <1>5, <1>6, <1>7, <1>8, <1>9, <1>10, <1>11, <1>12, <1>13,
     <1>14, <1>15, <1>16, <1>17, <1>18 DEF Next

-----------------------------------------------------------------------------
\* The index never passes the limit of the current width, and the return stack
\* never outgrows its array, in every sequence of words and changes of width:
\* no access is outside stack->cells (stack/stack.c:31-114, vm/forth_vm.c:457-488).
THEOREM StacksInBounds == Spec => []TypeOK
<1>1. Init => TypeOK
  BY InitTyped
<1>2. TypeOK /\ [Next]_vars => TypeOK'
  BY NextTyped
<1> QED BY <1>1, <1>2, PTL DEF Spec

-----------------------------------------------------------------------------
(* The promise: the array as cells.                                        *)

\* The cells in the array of s, as many as there are bytes of them.
Cell == [1 .. width -> Byte]
CellAt(m, i) == [b \in 1 .. width |-> m[(i - 1) * width + b]]
CellsOf(s) == [i \in 1 .. s.index |-> CellAt(s.mem, i)]

LEMMA CellsNow == Cells = CellsOf(Now)
  BY DEF Cells, CellsOf, CellAt, Now

\* What Stacks says of the numbers.
LEMMA SizesTyped ==
  ASSUME width \in Widths
  PROVE  /\ width \in Nat \ {0} /\ width \in 1 .. Full /\ Full \in Nat \ {0}
         /\ Limit[width] \in Nat \ {0} /\ Size \in Nat /\ RLimit \in Nat
         /\ \A s \in Stacks : s.index \in Nat /\ s.index <= Limit[width]
  BY WidthAssumption DEF WidthAssumption, Byte, Stacks

\* A cell that is on the stack is a cell, and lies below those above it.
LEMMA CellTyped ==
  ASSUME width \in Widths, NEW s \in Stacks
  PROVE  \A i \in 1 .. s.index : CellAt(s.mem, i) \in Cell
<1> SUFFICES ASSUME NEW i \in 1 .. s.index, NEW b \in 1 .. width
             PROVE  s.mem[(i - 1) * width + b] \in Byte
  BY DEF CellAt, Cell
<1>1. i - 1 \in Nat /\ i - 1 < Limit[width]
  BY SizesTyped
<1>2. (i - 1) * width + b \in 1 .. Size
  BY <1>1, CellInArray
<1> QED BY <1>2 DEF Stacks

LEMMA CellBelow ==
  ASSUME width \in Widths, NEW n \in Nat, NEW i \in 1 .. n, NEW b \in 1 .. width
  PROVE  (i - 1) * width + b <= n * width
<1>1. width \in Nat
  BY SizesTyped
<1>2. PICK d \in Nat : n = i + d
  <2>1. n - i \in Nat /\ n = i + (n - i)
    OBVIOUS
  <2> QED BY <2>1
<1>3. /\ n * width = (i - 1) * width + width + d * width
      /\ d * width \in Nat /\ (i - 1) * width \in Nat
  BY <1>1, <1>2
<1> QED BY <1>1, <1>3

LEMMA CellsTyped ==
  ASSUME width \in Widths, NEW s \in Stacks
  PROVE  CellsOf(s) \in Seq(Cell) /\ Len(CellsOf(s)) = s.index
<1>1. s.index \in Nat /\ \A i \in 1 .. s.index : CellAt(s.mem, i) \in Cell
  BY CellTyped, SizesTyped
<1> QED BY <1>1 DEF CellsOf

\* The low bytes of a register are a cell.
LEMMA LowTyped ==
  ASSUME width \in Widths, NEW v \in Registers
  PROVE  Promise!Low(v) \in Cell
  BY SizesTyped DEF Promise!Low, Registers, Cell

-----------------------------------------------------------------------------
(* Pops.                                                                   *)

\* k cells were popped: the array is as it was.
Popped(s, k) == s \in Stacks /\ s.mem = mem /\ index \in Nat /\ s.index = index - k

\* The register that a pop writes gets the cell in its low bytes, no other
\* register changes.
LEMMA PopTakes ==
  ASSUME width \in Widths, NEW k \in Nat, NEW s, Popped(s, k), k < index,
         NEW r \in Names
  PROVE  /\ Popped(Pop(r, s), k + 1)
         /\ Promise!Low(Pop(r, s).reg[r]) = Cells[index - k]
         /\ \A q \in Names \ {r} : Pop(r, s).reg[q] = s.reg[q]
<1> DEFINE i == s.index - 1
           v == [b \in 1 .. Full |-> IF b <= width THEN s.mem[i * width + b] ELSE s.reg[r][b]]
<1>1. s \in Stacks /\ s.index \in Nat /\ s.index # 0 /\ index \in Nat /\ i = index - (k + 1)
  BY DEF Popped
<1>2. Pop(r, s) = [s EXCEPT !.index = i, !.reg[r] = v]
  BY <1>1 DEF Pop
<1>3. Pop(r, s) \in Stacks
  BY <1>1, PopTyped
<1> HIDE DEF v
<1>4. /\ Pop(r, s).mem = s.mem /\ Pop(r, s).index = i
      /\ Pop(r, s).reg[r] = v /\ \A q \in Names \ {r} : Pop(r, s).reg[q] = s.reg[q]
  BY <1>1, <1>2 DEF Stacks
<1>5. Promise!Low(v) = CellAt(s.mem, i + 1)
  <2>1. i \in Int /\ (i + 1) - 1 = i
    BY <1>1
  <2>2. width \in Nat /\ width <= Full /\ Full \in Nat
    BY SizesTyped
  <2> DEFINE at == i * width
  <2>3. CellAt(s.mem, i + 1) = [b \in 1 .. width |-> s.mem[at + b]]
    BY <2>1 DEF CellAt
  <2>4. v = [b \in 1 .. Full |-> IF b <= width THEN s.mem[at + b] ELSE s.reg[r][b]]
    BY DEF v
  <2> HIDE DEF at, i
  <2>5. \A b \in 1 .. width : v[b] = s.mem[at + b]
    BY <2>2, <2>4
  <2> QED BY <2>3, <2>5 DEF Promise!Low
<1>6. Cells[index - k] = CellAt(s.mem, i + 1)
  BY <1>1 DEF Cells, CellAt, Popped
<1> QED BY <1>1, <1>3, <1>4, <1>5, <1>6 DEF Popped

-----------------------------------------------------------------------------
(* Pushes.                                                                 *)

\* What fits of a stack and one more cell.
LEMMA FittingTyped ==
  ASSUME width \in Widths, NEW c \in Seq(Cell)
  PROVE  /\ Promise!Fitting(c) \in Seq(Cell)
         /\ Len(c) <= Limit[width] => Promise!Fitting(c) = c
         /\ Len(Promise!Fitting(c)) = IF Len(c) > Limit[width] THEN Limit[width] ELSE Len(c)
         /\ \A i \in 1 .. Len(Promise!Fitting(c)) : Promise!Fitting(c)[i] = c[i]
<1> DEFINE l == Limit[width]
<1>1. l \in Nat /\ Len(c) \in Nat
  BY SizesTyped
<1>2. Promise!Fitting(c) = IF Len(c) > l THEN SubSeq(c, 1, l) ELSE c
  BY DEF Promise!Fitting
<1> HIDE DEF l
<1>3. CASE Len(c) > l
  <2>1. \A i \in 1 .. l : c[i] \in Cell
    BY <1>1, <1>3
  <2>2. /\ SubSeq(c, 1, l) \in Seq(Cell)
        /\ Len(SubSeq(c, 1, l)) = l
        /\ \A i \in 1 .. l : SubSeq(c, 1, l)[i] = c[i]
    BY <1>1, <2>1, SubSeqProperties
  <2> QED BY <1>1, <1>2, <1>3, <2>2 DEF l
<1>4. CASE ~(Len(c) > l)
  BY <1>1, <1>2, <1>4 DEF l
<1> QED BY <1>3, <1>4

LEMMA FittingOnce ==
  ASSUME width \in Widths, NEW c \in Seq(Cell), NEW a \in Cell
  PROVE  Promise!Fitting(Append(Promise!Fitting(c), a)) = Promise!Fitting(Append(c, a))
<1> DEFINE l == Limit[width]
           f == Promise!Fitting(c)
           left == Promise!Fitting(Append(f, a))
           right == Promise!Fitting(Append(c, a))
<1>1. l \in Nat /\ Len(c) \in Nat
  BY SizesTyped
<1>2. /\ f \in Seq(Cell) /\ Len(f) = (IF Len(c) > l THEN l ELSE Len(c))
      /\ Len(c) <= l => f = c
      /\ \A i \in 1 .. Len(f) : f[i] = c[i]
  BY FittingTyped
<1>3. Append(f, a) \in Seq(Cell) /\ Append(c, a) \in Seq(Cell)
  BY <1>2
<1>4. CASE Len(c) <= l
  <2>1. Promise!Fitting(c) = c
    BY <1>2, <1>4
  <2> QED BY ONLY <2>1
<1>5. CASE Len(c) > l
  <2>1. ASSUME NEW d \in Seq(Cell), Len(d) > l
        PROVE  /\ Promise!Fitting(d) \in Seq(Cell) /\ Len(Promise!Fitting(d)) = l
               /\ \A i \in 1 .. l : Promise!Fitting(d)[i] = d[i]
    BY ONLY <2>1, width \in Widths, FittingTyped
  <2>2. /\ left \in Seq(Cell) /\ right \in Seq(Cell) /\ Len(left) = l /\ Len(right) = l
        /\ \A i \in 1 .. l : left[i] = Append(f, a)[i] /\ right[i] = Append(c, a)[i]
    <3>1. Len(Append(f, a)) > l /\ Len(Append(c, a)) > l
      <4> HIDE DEF f, l
      <4> QED BY <1>1, <1>2, <1>5
    <3> HIDE DEF f
    <3> QED BY <1>3, <2>1, <3>1
  <2>3. \A i \in 1 .. l : Append(f, a)[i] = c[i] /\ Append(c, a)[i] = c[i]
    BY <1>1, <1>2, <1>5
  <2>4. left = right
    <3> HIDE DEF left, right, l
    <3> QED BY <2>2, <2>3, SeqEqual
  <2> QED BY <2>4
<1> QED BY <1>1, <1>4, <1>5

\* s has on its stack what fits of the cells c.
Holds(s, c) == s \in Stacks /\ c \in Seq(Cell) /\ CellsOf(s) = Promise!Fitting(c)

\* A push puts the low bytes of the register on the stack, if there is room.
LEMMA PushPuts ==
  ASSUME width \in Widths, NEW s, NEW c, Holds(s, c), NEW r \in Names
  PROVE  /\ Holds(Push(r, s), Append(c, Promise!Low(s.reg[r])))
         /\ Push(r, s).reg = s.reg
<1> DEFINE n == s.index
           at == n * width
           v == s.reg[r]
           m == [a \in 1 .. Size |-> IF a \in at + 1 .. at + width THEN v[a - at] ELSE s.mem[a]]
           t == Push(r, s)
           low == Promise!Low(v)
<1>1. s \in Stacks /\ c \in Seq(Cell) /\ n \in Nat /\ width \in Nat \ {0} /\ v \in Registers
  BY SizesTyped DEF Holds, Stacks
<1>2. t \in Stacks /\ low \in Cell
  BY <1>1, PushTyped, LowTyped
<1>3. Append(c, low) \in Seq(Cell)
  BY <1>1, <1>2
<1>4. t.reg = s.reg /\ CellsOf(t) = Promise!Fitting(Append(CellsOf(s), low))
  <2>1. CellsOf(s) \in Seq(Cell) /\ Len(CellsOf(s)) = n
    BY <1>1, CellsTyped
  <2>2. CASE n >= Limit[width]
    <3>1. t = s /\ n = Limit[width] /\ Limit[width] \in Nat
      BY <1>1, <2>2, SizesTyped DEF Push
    <3>2. Promise!Fitting(CellsOf(s)) = CellsOf(s)
      BY <2>1, <3>1, FittingTyped
    <3>3. Append(CellsOf(s), low) \in Seq(Cell) /\ Len(Append(CellsOf(s), low)) = n + 1
      BY <1>2, <2>1
    <3>4. LET f == Promise!Fitting(Append(CellsOf(s), low))
          IN  f \in Seq(Cell) /\ Len(f) = n /\ \A i \in 1 .. n : f[i] = Append(CellsOf(s), low)[i]
      <4> DEFINE d == Append(CellsOf(s), low)
      <4>1. d \in Seq(Cell) /\ Len(d) > Limit[width]
        BY <3>1, <3>3, <1>1
      <4> HIDE DEF d
      <4>2. /\ Promise!Fitting(d) \in Seq(Cell)
            /\ Len(Promise!Fitting(d)) = n
            /\ \A i \in 1 .. n : Promise!Fitting(d)[i] = d[i]
        BY <4>1, <3>1, FittingTyped
      <4> QED BY <4>2 DEF d
    <3>5. \A i \in 1 .. n : Append(CellsOf(s), low)[i] = CellsOf(s)[i]
      BY <2>1
    <3>6. Promise!Fitting(Append(CellsOf(s), low)) = CellsOf(s)
      BY <2>1, <3>4, <3>5, SeqEqual
    <3> QED BY <3>1, <3>6
  <2>3. CASE ~(n >= Limit[width])
    <3>1. t = [s EXCEPT !.index = @ + 1, !.mem = m]
      BY <2>3 DEF Push
    <3> HIDE DEF m, at
    <3>2. t.reg = s.reg /\ t.index = n + 1 /\ t.mem = m
      BY <1>1, <3>1 DEF Stacks
    <3>3. ASSUME NEW i \in 1 .. n PROVE CellAt(m, i) = CellAt(s.mem, i)
      <4> SUFFICES ASSUME NEW b \in 1 .. width
                   PROVE  m[(i - 1) * width + b] = s.mem[(i - 1) * width + b]
        BY DEF CellAt
      <4>1. (i - 1) * width + b <= at
        BY <1>1, CellBelow DEF at
      <4>2. (i - 1) * width + b \in 1 .. Size
        <5>1. i - 1 \in Nat /\ i - 1 < Limit[width]
          BY <1>1, SizesTyped
        <5> QED BY <5>1, CellInArray
      <4>3. at \in Nat
        BY <1>1 DEF at
      <4> QED BY <4>1, <4>2, <4>3 DEF m
    <3>4. CellAt(m, n + 1) = low
      <4> SUFFICES ASSUME NEW b \in 1 .. width PROVE m[at + b] = v[b]
        BY <1>1 DEF CellAt, Promise!Low, at
      <4>1. at + b \in 1 .. Size
        <5>1. n < Limit[width]
          BY <1>1, <2>3, SizesTyped
        <5> QED BY <1>1, <5>1, CellInArray DEF at
      <4>2. at \in Nat
        BY <1>1 DEF at
      <4>3. at + b \in at + 1 .. at + width /\ (at + b) - at = b
        BY <1>1, <4>2
      <4> QED BY <4>1, <4>3 DEF m
    <3>5. CellsOf(t) = Append(CellsOf(s), low)
      <4>1. CellsOf(t) = [i \in 1 .. n + 1 |-> CellAt(m, i)]
        BY <3>2 DEF CellsOf
      <4>2. CellsOf(s) = [i \in 1 .. n |-> CellAt(s.mem, i)]
        BY DEF CellsOf
      <4>3. \A i \in 1 .. n + 1 : CellAt(m, i) = Append(CellsOf(s), low)[i]
        BY <1>1, <2>1, <3>3, <3>4, <4>2
      <4>4. Len(CellsOf(t)) = n + 1 /\ CellsOf(t) \in Seq(Cell)
        BY <1>2, <3>2, CellsTyped
      <4>5. Len(Append(CellsOf(s), low)) = n + 1 /\ Append(CellsOf(s), low) \in Seq(Cell)
        BY <1>2, <2>1
      <4> QED BY <4>1, <4>3, <4>4, <4>5, SeqEqual
    <3>6. Promise!Fitting(Append(CellsOf(s), low)) = Append(CellsOf(s), low)
      <4>1. Append(CellsOf(s), low) \in Seq(Cell) /\ Len(Append(CellsOf(s), low)) = n + 1
        BY <1>2, <2>1
      <4>2. n + 1 <= Limit[width]
        BY <1>1, <2>3, SizesTyped
      <4> QED BY <4>1, <4>2, FittingTyped
    <3> QED BY <3>2, <3>5, <3>6
  <2> QED BY <2>2, <2>3
<1>5. CellsOf(t) = Promise!Fitting(Append(c, low))
  BY <1>1, <1>2, <1>4, FittingOnce DEF Holds
<1> QED BY <1>2, <1>3, <1>4, <1>5 DEF Holds

\* After pops the stack has the cells below.
LEMMA PoppedHolds ==
  ASSUME width \in Widths, NEW k \in Nat, k <= index, NEW s, Popped(s, k)
  PROVE  Holds(s, Promise!Below(k)) /\ CellsOf(s) = Promise!Below(k)
<1>1. s \in Stacks /\ s.index = index - k /\ s.mem = mem /\ index \in Nat /\ s.index \in Nat
  BY SizesTyped DEF Popped
<1>2. CellsOf(s) \in Seq(Cell) /\ Len(CellsOf(s)) = index - k
  BY <1>1, CellsTyped
<1>3. CellsOf(s) = [i \in 1 .. index - k |-> CellAt(mem, i)]
  BY <1>1 DEF CellsOf
<1>4. Cells = [i \in 1 .. index |-> CellAt(mem, i)]
  BY DEF Cells, CellAt
<1>5. Promise!Below(k) = SubSeq(Cells, 1, index - k)
  BY <1>1, <1>4 DEF Promise!Below
<1>6. Promise!Below(k) = CellsOf(s)
  <2>1. \A i \in 1 .. index - k : Cells[i] = CellsOf(s)[i] /\ CellsOf(s)[i] \in Cell
    BY <1>1, <1>2, <1>3, <1>4
  <2>2. /\ SubSeq(Cells, 1, index - k) \in Seq(Cell)
        /\ Len(SubSeq(Cells, 1, index - k)) = index - k
        /\ \A i \in 1 .. index - k : SubSeq(Cells, 1, index - k)[i] = Cells[i]
    BY <1>1, <2>1, SubSeqProperties
  <2> QED BY <1>2, <1>5, <2>1, <2>2, SeqEqual
<1>7. Len(CellsOf(s)) <= Limit[width]
  BY <1>1, <1>2, SizesTyped
<1> QED BY <1>1, <1>2, <1>6, <1>7, FittingTyped DEF Holds

-----------------------------------------------------------------------------
(* Two and four at once.                                                   *)

LEMMA Pop2Takes ==
  ASSUME width \in Widths, NEW k \in Nat, NEW s, Popped(s, k), k + 2 <= index,
         NEW r1 \in Names, NEW r2 \in Names \ {r1}
  PROVE  /\ Popped(Pop2(r1, r2, s), k + 2)
         /\ Promise!Low(Pop2(r1, r2, s).reg[r1]) = Cells[index - k]
         /\ Promise!Low(Pop2(r1, r2, s).reg[r2]) = Cells[index - (k + 1)]
         /\ \A q \in Names \ {r1, r2} : Pop2(r1, r2, s).reg[q] = s.reg[q]
<1> DEFINE t == Pop(r1, s)
<1>1. index \in Nat /\ k < index /\ k + 1 < index /\ k + 1 \in Nat /\ (k + 1) + 1 = k + 2
  BY DEF Popped
<1>2. /\ Popped(t, k + 1) /\ Promise!Low(t.reg[r1]) = Cells[index - k]
      /\ \A q \in Names \ {r1} : t.reg[q] = s.reg[q]
  BY <1>1, PopTakes
<1> HIDE DEF t
<1>3. /\ Popped(Pop(r2, t), k + 2)
      /\ Promise!Low(Pop(r2, t).reg[r2]) = Cells[index - (k + 1)]
      /\ \A q \in Names \ {r2} : Pop(r2, t).reg[q] = t.reg[q]
  BY <1>1, <1>2, PopTakes
<1>4. Pop2(r1, r2, s) = Pop(r2, t)
  BY DEF Pop2, t
<1> QED BY <1>2, <1>3, <1>4

LEMMA Pop4Takes ==
  ASSUME width \in Widths, NEW s, Popped(s, 0), 4 <= index,
         NEW r1 \in Names, NEW r2 \in Names, NEW r3 \in Names, NEW r4 \in Names,
         r1 # r2, r1 # r3, r1 # r4, r2 # r3, r2 # r4, r3 # r4
  PROVE  LET t == Pop4(r1, r2, r3, r4, s)
         IN  /\ Popped(t, 4)
             /\ Promise!Low(t.reg[r1]) = Cells[index]
             /\ Promise!Low(t.reg[r2]) = Cells[index - 1]
             /\ Promise!Low(t.reg[r3]) = Cells[index - 2]
             /\ Promise!Low(t.reg[r4]) = Cells[index - 3]
<1> DEFINE t == Pop2(r1, r2, s)
<1>1. index \in Nat /\ 2 <= index /\ index - 0 = index
  BY DEF Popped
<1>2. /\ Popped(t, 2) /\ Promise!Low(t.reg[r1]) = Cells[index]
      /\ Promise!Low(t.reg[r2]) = Cells[index - 1]
  BY <1>1, Pop2Takes
<1> HIDE DEF t
<1>3. /\ Popped(Pop2(r3, r4, t), 4)
      /\ Promise!Low(Pop2(r3, r4, t).reg[r3]) = Cells[index - 2]
      /\ Promise!Low(Pop2(r3, r4, t).reg[r4]) = Cells[index - 3]
      /\ \A q \in Names \ {r3, r4} : Pop2(r3, r4, t).reg[q] = t.reg[q]
  BY <1>1, <1>2, Pop2Takes
<1>4. Pop4(r1, r2, r3, r4, s) = Pop2(r3, r4, t)
  BY DEF Pop4, t
<1> QED BY <1>2, <1>3, <1>4

\* The same cells, written as one more tuple.
LEMMA Longer ==
  ASSUME NEW c \in Seq(Cell), NEW a \in Cell, NEW b \in Cell
  PROVE  /\ Append(c, a) = c \o << a >>
         /\ (c \o << a >>) \o << b >> = c \o << a, b >>
<1>1. << a >> \in Seq(Cell) /\ << b >> \in Seq(Cell) /\ << a, b >> \in Seq(Cell)
  OBVIOUS
<1>2. << a >> \o << b >> = << a, b >>
  <2>1. << a >> \o << b >> \in Seq(Cell) /\ << a, b >> \in Seq(Cell)
    OBVIOUS
  <2>2. Len(<< a >> \o << b >>) = 2 /\ Len(<< a, b >>) = 2
    OBVIOUS
  <2>3. \A i \in 1 .. 2 : (<< a >> \o << b >>)[i] = << a, b >>[i]
    OBVIOUS
  <2> QED BY <2>1, <2>2, <2>3, SeqEqual
<1>3. (c \o << a >>) \o << b >> = c \o (<< a >> \o << b >>)
  BY <1>1, ConcatAssociative
<1>4. Append(c, a) = c \o << a >>
  BY AppendIsConcat
<1> QED BY <1>2, <1>3, <1>4

LEMMA Push1Puts ==
  ASSUME width \in Widths, NEW s, NEW c, Holds(s, c), NEW r \in Names
  PROVE  /\ Holds(Push(r, s), c \o << Promise!Low(s.reg[r]) >>)
         /\ Push(r, s).reg = s.reg
<1> DEFINE a == Promise!Low(s.reg[r])
<1>1. a \in Cell /\ c \in Seq(Cell)
  BY LowTyped DEF Holds, Stacks
<1>2. Holds(Push(r, s), Append(c, a)) /\ Push(r, s).reg = s.reg
  BY PushPuts
<1>3. Append(c, a) = c \o << a >>
  BY ONLY <1>1, Longer
<1> QED BY <1>2, <1>3

LEMMA Push2Puts ==
  ASSUME width \in Widths, NEW s, NEW c, Holds(s, c), NEW r1 \in Names, NEW r2 \in Names
  PROVE  /\ Holds(Push2(r1, r2, s),
                  c \o << Promise!Low(s.reg[r1]), Promise!Low(s.reg[r2]) >>)
         /\ Push2(r1, r2, s).reg = s.reg
<1> DEFINE a == Promise!Low(s.reg[r1])
           b == Promise!Low(s.reg[r2])
           t == Push(r1, s)
<1>1. a \in Cell /\ b \in Cell /\ c \in Seq(Cell)
  BY LowTyped DEF Holds, Stacks
<1>2. Holds(t, c \o << a >>) /\ t.reg = s.reg
  BY Push1Puts
<1> HIDE DEF t
<1>3. Holds(Push(r2, t), (c \o << a >>) \o << b >>) /\ Push(r2, t).reg = s.reg
  BY <1>2, Push1Puts
<1>4. (c \o << a >>) \o << b >> = c \o << a, b >>
  BY ONLY <1>1, Longer
<1>5. Push2(r1, r2, s) = Push(r2, t)
  BY DEF Push2, t
<1> QED BY <1>3, <1>4, <1>5

LEMMA Push2Leaves ==
  ASSUME width \in Widths, NEW s, NEW t, t.reg = s.reg, NEW c, Holds(t, c),
         NEW r1 \in Names, NEW r2 \in Names,
         NEW a, Promise!Low(s.reg[r1]) = a, NEW b, Promise!Low(s.reg[r2]) = b
  PROVE  Holds(Push2(r1, r2, t), c \o << a, b >>) /\ Push2(r1, r2, t).reg = s.reg
<1>1. /\ Holds(Push2(r1, r2, t),
               c \o << Promise!Low(t.reg[r1]), Promise!Low(t.reg[r2]) >>)
      /\ Push2(r1, r2, t).reg = t.reg
  BY Push2Puts
<1> QED BY <1>1

\* Tuples put on one after the other are one tuple.
LEMMA Joined ==
  ASSUME NEW x \in Seq(Cell), NEW a \in Cell, NEW b \in Cell, NEW c \in Cell
  PROVE  (x \o << a, b >>) \o << c >> = x \o << a, b, c >>
<1>1. << a, b >> \in Seq(Cell) /\ << c >> \in Seq(Cell)
  OBVIOUS
<1>2. << a, b >> \o << c >> = << a, b, c >>
  <2>1. << a, b >> \o << c >> \in Seq(Cell) /\ << a, b, c >> \in Seq(Cell)
    OBVIOUS
  <2>2. Len(<< a, b >> \o << c >>) = 3 /\ Len(<< a, b, c >>) = 3
    OBVIOUS
  <2>3. \A i \in 1 .. 3 : (<< a, b >> \o << c >>)[i] = << a, b, c >>[i]
    OBVIOUS
  <2> QED BY <2>1, <2>2, <2>3, SeqEqual
<1>3. (x \o << a, b >>) \o << c >> = x \o (<< a, b >> \o << c >>)
  BY <1>1, ConcatAssociative
<1> QED BY <1>2, <1>3

\* What a word that moves cells leaves on a stack that has its cells.
LEMMA ShuffleLeaves ==
  ASSUME DataOK, NEW w \in Shuffles, index >= Need(w),
         NEW n, n = Promise!Effect(w)[1], NEW out, out = Promise!Effect(w)[2],
         NEW new, new = [i \in DOMAIN out |-> Cells[Len(Cells) - n + out[i]]]
  PROVE  Holds(After(w, Now), Promise!Below(n) \o new)
<1>now. width \in Widths /\ Popped(Now, 0) /\ index \in Nat
  BY NowTyped, SizesTyped DEF DataOK, Popped, Now
<1>names. {"c00", "c01", "c02", "c03"} \subseteq Names
  BY DEF Names
<1>len. Len(Cells) = index
  BY <1>now, CellsNow, CellsTyped DEF Popped, Now
<1>cells. Cells \in Seq(Cell) /\ \A i \in 1 .. index : Cells[i] \in Cell
  BY <1>now, <1>len, CellsNow, CellsTyped DEF Popped
<1>below. \A k \in 0 .. index : Promise!Below(k) \in Seq(Cell)
  BY <1>cells, <1>len DEF Promise!Below
<1>empty. \A k \in 0 .. index : Promise!Below(k) \o << >> = Promise!Below(k)
  BY <1>below, ConcatEmptySeq
<1>pop1. ASSUME NEW r \in Names, 1 <= index
         PROVE  Popped(Pop(r, Now), 1) /\ Promise!Low(Pop(r, Now).reg[r]) = Cells[index]
  BY <1>now, <1>pop1, PopTakes
<1>pop2. ASSUME NEW r1 \in Names, NEW r2 \in Names \ {r1}, 2 <= index
         PROVE  LET t == Pop2(r1, r2, Now)
                IN  /\ Popped(t, 2)
                    /\ Promise!Low(t.reg[r1]) = Cells[index]
                    /\ Promise!Low(t.reg[r2]) = Cells[index - 1]
  BY <1>now, <1>pop2, Pop2Takes
<1>pop3. ASSUME NEW r1 \in Names, NEW r2 \in Names \ {r1}, NEW r3 \in Names \ {r1, r2}, 3 <= index
         PROVE  LET t == Pop(r3, Pop2(r1, r2, Now))
                IN  /\ Popped(t, 3)
                    /\ Promise!Low(t.reg[r1]) = Cells[index]
                    /\ Promise!Low(t.reg[r2]) = Cells[index - 1]
                    /\ Promise!Low(t.reg[r3]) = Cells[index - 2]
  <2> DEFINE t == Pop2(r1, r2, Now)
  <2>1. /\ Popped(t, 2) /\ Promise!Low(t.reg[r1]) = Cells[index]
        /\ Promise!Low(t.reg[r2]) = Cells[index - 1]
    BY <1>pop2, <1>pop3, <1>now
  <2> HIDE DEF t
  <2>2. /\ Popped(Pop(r3, t), 3) /\ Promise!Low(Pop(r3, t).reg[r3]) = Cells[index - 2]
        /\ \A q \in Names \ {r3} : Pop(r3, t).reg[q] = t.reg[q]
    <3>1. 2 \in Nat /\ Popped(t, 2) /\ 2 < index /\ r3 \in Names
      BY <1>pop3, <1>now, <2>1
    <3>2. 2 + 1 = 3
      OBVIOUS
    <3> QED BY <1>now, <3>1, <3>2, PopTakes
  <2> QED BY <1>pop3, <2>1, <2>2 DEF t
<1>pop4. ASSUME NEW r1 \in Names, NEW r2 \in Names, NEW r3 \in Names, NEW r4 \in Names,
                r1 # r2, r1 # r3, r1 # r4, r2 # r3, r2 # r4, r3 # r4, 4 <= index
         PROVE  LET t == Pop4(r1, r2, r3, r4, Now)
                IN  /\ Popped(t, 4)
                    /\ Promise!Low(t.reg[r1]) = Cells[index]
                    /\ Promise!Low(t.reg[r2]) = Cells[index - 1]
                    /\ Promise!Low(t.reg[r3]) = Cells[index - 2]
                    /\ Promise!Low(t.reg[r4]) = Cells[index - 3]
  BY <1>pop4, <1>now, Pop4Takes
<1>1. CASE w = "dup"
  <2> DEFINE s == Pop("c00", Now)
             t1 == Push2("c00", "c00", s)
  <2>1. /\ Popped(s, 1)
        /\ Promise!Low(s.reg["c00"]) = Cells[index]
    BY <1>1, <1>names, <1>pop1 DEF Need
  <2>2. Holds(s, Promise!Below(1))
    BY <1>1, <2>1, <1>now, PoppedHolds DEF Need
  <2> HIDE DEF s
  <2>3. Holds(t1, Promise!Below(1) \o << Cells[index], Cells[index] >>) /\ t1.reg = s.reg
    BY <2>1, <2>2, <1>now, <1>names, Push2Puts
  <2>4. n = 1 /\ new = << Cells[index], Cells[index] >>
    BY <1>1, <1>len DEF Promise!Effect
  <2>5. After(w, Now) = t1
    BY <1>1 DEF After, Rot, s
  <2> QED BY <2>3, <2>4, <2>5
<1>2. CASE w = "drop"
  <2> DEFINE s == Pop("c00", Now)
  <2>1. Popped(s, 1)
    BY <1>2, <1>names, <1>pop1 DEF Need
  <2>2. Holds(s, Promise!Below(1))
    BY <1>2, <2>1, <1>now, PoppedHolds DEF Need
  <2>3. n = 1 /\ new = << >>
    BY <1>2, <1>len DEF Promise!Effect
  <2>4. After(w, Now) = s
    BY <1>2 DEF After, Rot
  <2>5. Promise!Below(1) \o << >> = Promise!Below(1)
    BY <1>2, <1>empty, <1>now DEF Need
  <2> HIDE DEF s
  <2> QED BY <2>2, <2>3, <2>4, <2>5
<1>3. CASE w = "swap"
  <2> DEFINE s == Pop2("c00", "c01", Now)
             t1 == Push2("c00", "c01", s)
  <2>1. /\ Popped(s, 2)
        /\ Promise!Low(s.reg["c00"]) = Cells[index]
        /\ Promise!Low(s.reg["c01"]) = Cells[index - 1]
    BY <1>3, <1>names, <1>pop2 DEF Need
  <2>2. Holds(s, Promise!Below(2))
    BY <1>3, <2>1, <1>now, PoppedHolds DEF Need
  <2> HIDE DEF s
  <2>3. Holds(t1, Promise!Below(2) \o << Cells[index], Cells[index - 1] >>) /\ t1.reg = s.reg
    BY <2>1, <2>2, <1>now, <1>names, Push2Puts
  <2>4. n = 2 /\ new = << Cells[index], Cells[index - 1] >>
    BY <1>3, <1>len DEF Promise!Effect
  <2>5. After(w, Now) = t1
    BY <1>3 DEF After, Rot, s
  <2> QED BY <2>3, <2>4, <2>5
<1>4. CASE w = "over"
  <2> DEFINE s == Pop2("c00", "c01", Now)
             t1 == Push2("c01", "c00", s)
             t2 == Push("c01", t1)
  <2>1. /\ Popped(s, 2)
        /\ Promise!Low(s.reg["c00"]) = Cells[index]
        /\ Promise!Low(s.reg["c01"]) = Cells[index - 1]
    BY <1>4, <1>names, <1>pop2 DEF Need
  <2>2. Holds(s, Promise!Below(2))
    BY <1>4, <2>1, <1>now, PoppedHolds DEF Need
  <2> HIDE DEF s
  <2>3. Holds(t1, Promise!Below(2) \o << Cells[index - 1], Cells[index] >>) /\ t1.reg = s.reg
    BY <2>1, <2>2, <1>now, <1>names, Push2Puts
  <2> HIDE DEF t1
  <2>4. /\ Holds(t2, (Promise!Below(2) \o << Cells[index - 1], Cells[index] >>)
                 \o << Cells[index - 1] >>)
        /\ t2.reg = s.reg
    BY <2>1, <2>3, <1>now, <1>names, Push1Puts
  <2>5. n = 2 /\ new = << Cells[index - 1], Cells[index], Cells[index - 1] >>
    BY <1>4, <1>len DEF Promise!Effect
  <2>6. After(w, Now) = t2
    BY <1>4 DEF After, Rot, s, t1
  <2>7. Promise!Below(n) \o new =
          (Promise!Below(2) \o << Cells[index - 1], Cells[index] >>) \o << Cells[index - 1] >>
    <3>1. {Cells[index], Cells[index - 1]} \subseteq Cell
      BY <1>4, <1>cells, <1>now DEF Need
    <3>2. Promise!Below(2) \in Seq(Cell)
      BY <1>4, <1>below, <1>now DEF Need
    <3> QED BY ONLY <2>5, <3>1, <3>2, Joined
  <2> QED BY <2>4, <2>6, <2>7
<1>5. CASE w = "nip"
  <2> DEFINE s == Pop2("c01", "c00", Now)
             t1 == Push("c01", s)
  <2>1. /\ Popped(s, 2)
        /\ Promise!Low(s.reg["c01"]) = Cells[index]
    BY <1>5, <1>names, <1>pop2 DEF Need
  <2>2. Holds(s, Promise!Below(2))
    BY <1>5, <2>1, <1>now, PoppedHolds DEF Need
  <2> HIDE DEF s
  <2>3. Holds(t1, Promise!Below(2) \o << Cells[index] >>) /\ t1.reg = s.reg
    BY <2>1, <2>2, <1>now, <1>names, Push1Puts
  <2>4. n = 2 /\ new = << Cells[index] >>
    BY <1>5, <1>len DEF Promise!Effect
  <2>5. After(w, Now) = t1
    BY <1>5 DEF After, Rot, s
  <2> QED BY <2>3, <2>4, <2>5
<1>6. CASE w = "tuck"
  <2> DEFINE s == Pop2("c01", "c00", Now)
             t1 == Push2("c01", "c00", s)
             t2 == Push("c01", t1)
  <2>1. /\ Popped(s, 2)
        /\ Promise!Low(s.reg["c00"]) = Cells[index - 1]
        /\ Promise!Low(s.reg["c01"]) = Cells[index]
    BY <1>6, <1>names, <1>pop2 DEF Need
  <2>2. Holds(s, Promise!Below(2))
    BY <1>6, <2>1, <1>now, PoppedHolds DEF Need
  <2> HIDE DEF s
  <2>3. Holds(t1, Promise!Below(2) \o << Cells[index], Cells[index - 1] >>) /\ t1.reg = s.reg
    BY <2>1, <2>2, <1>now, <1>names, Push2Puts
  <2> HIDE DEF t1
  <2>4. /\ Holds(t2, (Promise!Below(2) \o << Cells[index], Cells[index - 1] >>)
                 \o << Cells[index] >>)
        /\ t2.reg = s.reg
    BY <2>1, <2>3, <1>now, <1>names, Push1Puts
  <2>5. n = 2 /\ new = << Cells[index], Cells[index - 1], Cells[index] >>
    BY <1>6, <1>len DEF Promise!Effect
  <2>6. After(w, Now) = t2
    BY <1>6 DEF After, Rot, s, t1
  <2>7. Promise!Below(n) \o new =
          (Promise!Below(2) \o << Cells[index], Cells[index - 1] >>) \o << Cells[index] >>
    <3>1. {Cells[index], Cells[index - 1]} \subseteq Cell
      BY <1>6, <1>cells, <1>now DEF Need
    <3>2. Promise!Below(2) \in Seq(Cell)
      BY <1>6, <1>below, <1>now DEF Need
    <3> QED BY ONLY <2>5, <3>1, <3>2, Joined
  <2> QED BY <2>4, <2>6, <2>7
<1>7. CASE w = "rot"
  <2> DEFINE s == Pop("c00", Pop2("c02", "c01", Now))
             t1 == Push2("c01", "c02", s)
             t2 == Push("c00", t1)
  <2>1. /\ Popped(s, 3)
        /\ Promise!Low(s.reg["c00"]) = Cells[index - 2]
        /\ Promise!Low(s.reg["c01"]) = Cells[index - 1]
        /\ Promise!Low(s.reg["c02"]) = Cells[index]
    BY <1>7, <1>names, <1>pop3 DEF Need
  <2>2. Holds(s, Promise!Below(3))
    BY <1>7, <2>1, <1>now, PoppedHolds DEF Need
  <2> HIDE DEF s
  <2>3. Holds(t1, Promise!Below(3) \o << Cells[index - 1], Cells[index] >>) /\ t1.reg = s.reg
    BY <2>1, <2>2, <1>now, <1>names, Push2Puts
  <2> HIDE DEF t1
  <2>4. /\ Holds(t2, (Promise!Below(3) \o << Cells[index - 1], Cells[index] >>)
                 \o << Cells[index - 2] >>)
        /\ t2.reg = s.reg
    BY <2>1, <2>3, <1>now, <1>names, Push1Puts
  <2>5. n = 3 /\ new = << Cells[index - 1], Cells[index], Cells[index - 2] >>
    BY <1>7, <1>len DEF Promise!Effect
  <2>6. After(w, Now) = t2
    BY <1>7 DEF After, Rot, s, t1
  <2>7. Promise!Below(n) \o new =
          (Promise!Below(3) \o << Cells[index - 1], Cells[index] >>) \o << Cells[index - 2] >>
    <3>1. {Cells[index], Cells[index - 1], Cells[index - 2]} \subseteq Cell
      BY <1>7, <1>cells, <1>now DEF Need
    <3>2. Promise!Below(3) \in Seq(Cell)
      BY <1>7, <1>below, <1>now DEF Need
    <3> QED BY ONLY <2>5, <3>1, <3>2, Joined
  <2> QED BY <2>4, <2>6, <2>7
<1>8. CASE w = "2dup"
  <2> DEFINE s == Pop2("c01", "c00", Now)
             t1 == Push2("c00", "c01", s)
             t2 == Push2("c00", "c01", t1)
  <2>1. /\ Popped(s, 2)
        /\ Promise!Low(s.reg["c00"]) = Cells[index - 1]
        /\ Promise!Low(s.reg["c01"]) = Cells[index]
    BY <1>8, <1>names, <1>pop2 DEF Need
  <2>2. Holds(s, Promise!Below(2))
    BY <1>8, <2>1, <1>now, PoppedHolds DEF Need
  <2> HIDE DEF s
  <2>3. Holds(t1, Promise!Below(2) \o << Cells[index - 1], Cells[index] >>) /\ t1.reg = s.reg
    BY <2>1, <2>2, <1>now, <1>names, Push2Puts
  <2> HIDE DEF t1
  <2>4. /\ Holds(t2, (Promise!Below(2) \o << Cells[index - 1], Cells[index] >>)
                 \o << Cells[index - 1], Cells[index] >>)
        /\ t2.reg = s.reg
    <3>1. "c00" \in Names /\ "c01" \in Names
      BY <1>names
    <3>2. t2 = Push2("c00", "c01", t1)
      OBVIOUS
    <3> HIDE DEF t2
    <3> QED BY <2>1, <2>3, <3>1, <3>2, <1>now, Push2Leaves
  <2>5. n = 2 /\ new = << Cells[index - 1], Cells[index], Cells[index - 1], Cells[index] >>
    BY <1>8, <1>len DEF Promise!Effect
  <2>6. After(w, Now) = t2
    BY <1>8 DEF After, Rot, s, t1
  <2>7. Promise!Below(n) \o new =
          (Promise!Below(2) \o << Cells[index - 1], Cells[index] >>)
            \o << Cells[index - 1], Cells[index] >>
    <3> DEFINE x == Promise!Below(2)
               p == Cells[index - 1]
               q == Cells[index]
    <3>1. x \in Seq(Cell) /\ p \in Cell /\ q \in Cell
      <4>1. index >= 2
        BY <1>8 DEF Need
      <4>2. Promise!Below(2) \in Seq(Cell)
        BY <4>1, <1>below, <1>now
      <4> QED BY <4>1, <4>2, <1>cells, <1>now
    <3>2. (x \o << p, q >>) \o << p, q >> = x \o << p, q, p, q >>
      <4> HIDE DEF x, p, q
      <4>1. << p, q >> \o << p, q >> = << p, q, p, q >>
        <5>1. << p, q >> \o << p, q >> \in Seq(Cell) /\ << p, q, p, q >> \in Seq(Cell)
          BY <3>1
        <5>2. Len(<< p, q >> \o << p, q >>) = 4 /\ Len(<< p, q, p, q >>) = 4
          BY <3>1
        <5>3. \A i \in 1 .. 4 : (<< p, q >> \o << p, q >>)[i] = << p, q, p, q >>[i]
          BY <3>1
        <5> QED BY <5>1, <5>2, <5>3, SeqEqual
      <4>2. << p, q >> \in Seq(Cell)
        BY <3>1
      <4>3. (x \o << p, q >>) \o << p, q >> = x \o (<< p, q >> \o << p, q >>)
        BY <3>1, <4>2, ConcatAssociative
      <4> QED BY <4>1, <4>3
    <3> QED BY <2>5, <3>2
  <2> QED BY <2>4, <2>6, <2>7
<1>9. CASE w = "2drop"
  <2> DEFINE s == Pop2("c00", "c00", Now)
  <2>1. Popped(s, 2)
    <3> DEFINE t == Pop("c00", Now)
    <3>1. Popped(t, 1) /\ index >= 2
      BY <1>9, <1>names, <1>now, <1>pop1 DEF Need
    <3> HIDE DEF t
    <3>2. Popped(Pop("c00", t), 2)
      BY <1>names, <1>now, <3>1, PopTakes
    <3> QED BY <3>2 DEF Pop2, t
  <2>2. Holds(s, Promise!Below(2))
    BY <1>9, <2>1, <1>now, PoppedHolds DEF Need
  <2>3. n = 2 /\ new = << >>
    BY <1>9, <1>len DEF Promise!Effect
  <2>4. After(w, Now) = s
    BY <1>9 DEF After, Rot
  <2>5. Promise!Below(2) \o << >> = Promise!Below(2)
    BY <1>9, <1>empty, <1>now DEF Need
  <2> HIDE DEF s
  <2> QED BY <2>2, <2>3, <2>4, <2>5
<1>10. CASE w = "2swap"
  <2> DEFINE s == Pop4("c03", "c02", "c01", "c00", Now)
             x == Promise!Below(4)
             p == Cells[index - 1]
             q == Cells[index]
             r == Cells[index - 3]
             z == Cells[index - 2]
             t1 == Push2("c02", "c03", s)
             t2 == Push2("c00", "c01", t1)
  <2>after. After(w, Now) = t2
    BY <1>10 DEF After, Rot
  <2>0. 4 <= index /\ n = 4 /\ out = << 3, 4, 1, 2 >>
    <3>1. 4 <= index
      BY <1>10 DEF Need
    <3>2. n = 4 /\ out = << 3, 4, 1, 2 >>
      BY <1>10 DEF Promise!Effect
    <3> QED BY <3>1, <3>2
  <2>1. /\ Popped(s, 4)
        /\ Promise!Low(s.reg["c00"]) = r /\ Promise!Low(s.reg["c01"]) = z
        /\ Promise!Low(s.reg["c02"]) = p /\ Promise!Low(s.reg["c03"]) = q
    <3>1. 4 <= index
      BY <2>0
    <3>2. "c00" \in Names /\ "c01" \in Names /\ "c02" \in Names /\ "c03" \in Names
      BY <1>names
    <3> QED BY <3>1, <3>2, <1>pop4
  <2>2. Holds(s, x)
    BY <2>0, <2>1, <1>now, PoppedHolds
  <2>3. new = << p, q, r, z >>
    <3>1. DOMAIN out = 1 .. 4 /\ Len(Cells) - n = index - 4
      BY <2>0, <1>len
    <3>2. new = [i \in 1 .. 4 |-> Cells[index - 4 + out[i]]]
      BY <3>1
    <3>3. out[1] = 3 /\ out[2] = 4 /\ out[3] = 1 /\ out[4] = 2
      BY <2>0
    <3>4. /\ index - 4 + 3 = index - 1 /\ index - 4 + 4 = index
          /\ index - 4 + 1 = index - 3 /\ index - 4 + 2 = index - 2
      BY <1>now
    <3>5. new[1] = p /\ new[2] = q /\ new[3] = r /\ new[4] = z
      BY <3>2, <3>3, <3>4
    <3>6. new = << new[1], new[2], new[3], new[4] >>
      BY <3>2
    <3> QED BY <3>5, <3>6
  <2>4. p \in Cell /\ q \in Cell /\ r \in Cell /\ z \in Cell
    <3>1. {index, index - 1, index - 2, index - 3} \subseteq 1 .. index
      BY <2>0, <1>now
    <3> QED BY <1>cells, <3>1
  <2>5. x \in Seq(Cell)
    <3>1. 4 \in 0 .. index
      BY <2>0, <1>now
    <3> QED BY <1>below, <3>1
  <2>names. "c00" \in Names /\ "c01" \in Names /\ "c02" \in Names /\ "c03" \in Names
    BY <1>names
  <2> HIDE DEF s, t1, t2, x, p, q, r, z
  <2>6. Holds(t1, x \o << p, q >>) /\ t1.reg = s.reg
    BY <2>1, <2>2, <2>names, <1>now, Push2Leaves DEF t1
  <2>7. Holds(t2, (x \o << p, q >>) \o << r, z >>)
    BY <2>1, <2>6, <2>names, <1>now, Push2Leaves DEF t2
  <2>8. (x \o << p, q >>) \o << r, z >> = x \o << p, q, r, z >>
    <3>1. << p, q >> \o << r, z >> = << p, q, r, z >>
      <4>1. << p, q >> \o << r, z >> \in Seq(Cell) /\ << p, q, r, z >> \in Seq(Cell)
        BY <2>4
      <4>2. Len(<< p, q >> \o << r, z >>) = 4 /\ Len(<< p, q, r, z >>) = 4
        BY <2>4
      <4>3. \A i \in 1 .. 4 : (<< p, q >> \o << r, z >>)[i] = << p, q, r, z >>[i]
        BY <2>4
      <4> QED BY <4>1, <4>2, <4>3, SeqEqual
    <3>2. << p, q >> \in Seq(Cell) /\ << r, z >> \in Seq(Cell)
      BY <2>4
    <3>3. (x \o << p, q >>) \o << r, z >> = x \o (<< p, q >> \o << r, z >>)
      BY <2>5, <3>2, ConcatAssociative
    <3> QED BY <3>1, <3>3
  <2>9. Promise!Below(n) \o new = x \o << p, q, r, z >>
    BY <2>0, <2>3 DEF x
  <2> QED BY <2>after, <2>7, <2>8, <2>9
<1>11. CASE w = "2over"
  <2> DEFINE s == Pop4("c00", "c01", "c02", "c03", Now)
             x == Promise!Below(4)
             p == Cells[index - 3]
             q == Cells[index - 2]
             r == Cells[index - 1]
             z == Cells[index]
             t1 == Push2("c03", "c02", s)
             t2 == Push2("c01", "c00", t1)
             t3 == Push2("c03", "c02", t2)
  <2>after. After(w, Now) = t3
    BY <1>11 DEF After, Rot
  <2>0. 4 <= index /\ n = 4 /\ out = << 1, 2, 3, 4, 1, 2 >>
    <3>1. 4 <= index
      BY <1>11 DEF Need
    <3>2. n = 4 /\ out = << 1, 2, 3, 4, 1, 2 >>
      BY <1>11 DEF Promise!Effect
    <3> QED BY <3>1, <3>2
  <2>1. /\ Popped(s, 4)
        /\ Promise!Low(s.reg["c00"]) = z /\ Promise!Low(s.reg["c01"]) = r
        /\ Promise!Low(s.reg["c02"]) = q /\ Promise!Low(s.reg["c03"]) = p
    <3>1. 4 <= index
      BY <2>0
    <3>2. "c00" \in Names /\ "c01" \in Names /\ "c02" \in Names /\ "c03" \in Names
      BY <1>names
    <3> QED BY <3>1, <3>2, <1>pop4
  <2>2. Holds(s, x)
    BY <2>0, <2>1, <1>now, PoppedHolds
  <2>3. new = << p, q, r, z, p, q >>
    <3>1. DOMAIN out = 1 .. 6 /\ Len(Cells) - n = index - 4
      BY <2>0, <1>len
    <3>2. new = [i \in 1 .. 6 |-> Cells[index - 4 + out[i]]]
      BY <3>1
    <3>3. out[1] = 1 /\ out[2] = 2 /\ out[3] = 3 /\ out[4] = 4 /\ out[5] = 1 /\ out[6] = 2
      BY <2>0
    <3>4. /\ index - 4 + 3 = index - 1 /\ index - 4 + 4 = index
          /\ index - 4 + 1 = index - 3 /\ index - 4 + 2 = index - 2
      BY <1>now
    <3>5. new[1] = p /\ new[2] = q /\ new[3] = r /\ new[4] = z /\ new[5] = p /\ new[6] = q
      BY <3>2, <3>3, <3>4
    <3>6. new = << new[1], new[2], new[3], new[4], new[5], new[6] >>
      BY <3>2, SMTT(30)
    <3> QED BY <3>5, <3>6
  <2>4. p \in Cell /\ q \in Cell /\ r \in Cell /\ z \in Cell
    <3>1. {index, index - 1, index - 2, index - 3} \subseteq 1 .. index
      BY <2>0, <1>now
    <3> QED BY <1>cells, <3>1
  <2>5. x \in Seq(Cell)
    <3>1. 4 \in 0 .. index
      BY <2>0, <1>now
    <3> QED BY <1>below, <3>1
  <2>names. "c00" \in Names /\ "c01" \in Names /\ "c02" \in Names /\ "c03" \in Names
    BY <1>names
  <2> HIDE DEF s, t1, t2, t3, x, p, q, r, z
  <2>6. Holds(t1, x \o << p, q >>) /\ t1.reg = s.reg
    BY <2>1, <2>2, <2>names, <1>now, Push2Leaves DEF t1
  <2>7. Holds(t2, (x \o << p, q >>) \o << r, z >>) /\ t2.reg = s.reg
    BY <2>1, <2>6, <2>names, <1>now, Push2Leaves DEF t2
  <2>8. Holds(t3, ((x \o << p, q >>) \o << r, z >>) \o << p, q >>)
    BY <2>1, <2>7, <2>names, <1>now, Push2Leaves DEF t3
  <2>9. ((x \o << p, q >>) \o << r, z >>) \o << p, q >> = x \o << p, q, r, z, p, q >>
    <3>1. << p, q >> \o << r, z >> = << p, q, r, z >>
      <4>1. << p, q >> \o << r, z >> \in Seq(Cell) /\ << p, q, r, z >> \in Seq(Cell)
        BY <2>4
      <4>2. Len(<< p, q >> \o << r, z >>) = 4 /\ Len(<< p, q, r, z >>) = 4
        BY <2>4
      <4>3. \A i \in 1 .. 4 : (<< p, q >> \o << r, z >>)[i] = << p, q, r, z >>[i]
        BY <2>4
      <4> QED BY <4>1, <4>2, <4>3, SeqEqual
    <3>2. << p, q, r, z >> \o << p, q >> = << p, q, r, z, p, q >>
      <4>1. << p, q, r, z >> \o << p, q >> \in Seq(Cell) /\ << p, q, r, z, p, q >> \in Seq(Cell)
        BY <2>4
      <4>2. Len(<< p, q, r, z >> \o << p, q >>) = 6 /\ Len(<< p, q, r, z, p, q >>) = 6
        BY <2>4
      <4>3. \A i \in 1 .. 6 : (<< p, q, r, z >> \o << p, q >>)[i] = << p, q, r, z, p, q >>[i]
        BY <2>4
      <4> QED BY <4>1, <4>2, <4>3, SeqEqual
    <3>3. << p, q >> \in Seq(Cell) /\ << r, z >> \in Seq(Cell) /\ << p, q, r, z >> \in Seq(Cell)
      BY <2>4
    <3>4. (x \o << p, q >>) \o << r, z >> = x \o (<< p, q >> \o << r, z >>)
      BY <2>5, <3>3, ConcatAssociative
    <3>5. (x \o << p, q, r, z >>) \o << p, q >> = x \o (<< p, q, r, z >> \o << p, q >>)
      BY <2>5, <3>3, ConcatAssociative
    <3> QED BY <3>1, <3>2, <3>4, <3>5
  <2>10. Promise!Below(n) \o new = x \o << p, q, r, z, p, q >>
    BY <2>0, <2>3 DEF x
  <2> QED BY <2>after, <2>8, <2>9, <2>10
<1> QED
  BY <1>1, <1>2, <1>3, <1>4, <1>5, <1>6, <1>7, <1>8, <1>9, <1>10, <1>11 DEF Shuffles

-----------------------------------------------------------------------------
(* The steps.                                                              *)

LEMMA CellsCount == ASSUME DataOK PROVE Cells \in Seq(Cell) /\ Len(Cells) = index
  BY CellsNow, CellsTyped, NowTyped DEF DataOK, Now

\* The cells after a step that leaves the width alone.
LEMMA CellsNext ==
  ASSUME NEW s, Becomes(s), UNCHANGED width
  PROVE  Cells' = CellsOf(s)
  BY DEF Becomes, Cells, CellsOf, CellAt

LEMMA StartHolds ==
  ASSUME DataOK
  PROVE  /\ Popped(Now, 0) /\ Promise!Below(0) = Cells /\ Holds(Now, Cells)
<1>1. Popped(Now, 0) /\ width \in Widths /\ index \in Nat
  BY NowTyped, SizesTyped DEF DataOK, Popped, Now
<1>2. Promise!Below(0) = Cells
  BY <1>1, CellsCount, SubSeqFull DEF Promise!Below
<1> QED BY <1>1, <1>2, PoppedHolds

\* A word that moves cells does what its stack comment says.
LEMMA ShuffleKept ==
  ASSUME TypeOK, NEW w \in Shuffles, Shuffle(w)
  PROVE  Promise!Shuffle(w)
<1> DEFINE n == Promise!Effect(w)[1]
           out == Promise!Effect(w)[2]
           new == [i \in DOMAIN out |-> Cells[Len(Cells) - n + out[i]]]
<1>1. DataOK /\ failed = FALSE
  BY DEF TypeOK, DataOK, Shuffle, Runs
<1>2. Len(Cells) = index /\ n = Need(w) /\ n \in Nat /\ index \in Nat
  <2>1. n = Need(w) /\ n \in Nat
    BY DEF Shuffles, Promise!Effect, Need
  <2>2. index \in Nat
    BY <1>1, SizesTyped, NowTyped DEF DataOK, Now
  <2> QED BY <1>1, <2>1, <2>2, CellsCount
<1>3. UNCHANGED <<width, rstack, taken>>
  BY DEF Shuffle
<1>4. w \in {"swap", "over"} => Need(w) = 2
  BY DEF Need
<1>5. CASE index < Need(w)
  <2>1. failed' = TRUE
    BY <1>4, <1>5 DEF Shuffle, Expects, Fails
  <2>2. Len(Cells) < n
    BY <1>2, <1>5
  <2> HIDE DEF n, out, new
  <2>3. failed'
    BY <2>1
  <2>4. Promise!Takes(n, Promise!Leaves(n, new))
    BY <1>3, <2>2, <2>3 DEF Promise!Takes
  <2> QED BY <2>4 DEF Promise!Shuffle, n, out, new
<1>6. CASE ~(index < Need(w))
  <2>1. failed' = failed /\ Becomes(After(w, Now))
    <3>1. CASE w \in {"swap", "over"}
      <4> DEFINE short == index < 2
      <4>1. failed' = short /\ Becomes(After(w, Now))
        BY <3>1 DEF Shuffle
      <4>2. short = FALSE
        BY <3>1, <1>4, <1>6, <1>2
      <4> HIDE DEF short
      <4>3. failed' = failed
        BY ONLY <1>1, <4>1, <4>2, Zenon
      <4> QED BY ONLY <4>1, <4>3
    <3>2. CASE w \notin {"swap", "over"}
      BY <1>6, <3>2 DEF Shuffle, Expects, Succeeds
    <3> QED BY <3>1, <3>2
  <2>2. Cells' = CellsOf(After(w, Now))
    BY <1>3, <2>1, CellsNext
  <2>3. index >= Need(w) /\ ~(Len(Cells) < n)
    BY <1>2, <1>6
  <2>4. Holds(After(w, Now), Promise!Below(n) \o new)
    BY <1>1, <2>3, ShuffleLeaves
  <2> HIDE DEF n, out, new
  <2>5. Promise!Leaves(n, new)
    BY <1>3, <2>2, <2>4 DEF Holds, Promise!Leaves
  <2>6. Promise!Takes(n, Promise!Leaves(n, new))
    BY <2>1, <2>3, <2>5 DEF Promise!Takes
  <2> QED BY <2>6 DEF Promise!Shuffle, n, out, new
<1> QED BY <1>5, <1>6

\* The step of a word that sets a register and pushes it.
LEMMA PutKept ==
  ASSUME TypeOK, NEW r \in Names, NEW v \in Registers, Succeeds,
         Becomes(Push(r, Set(r, v, Now))), UNCHANGED <<width, rstack, taken>>
  PROVE  Promise!Put(v)
<1> DEFINE s == Set(r, v, Now)
           low == Promise!Low(v)
<1>1. DataOK /\ width \in Widths
  BY DEF TypeOK, DataOK
<1>2. s \in Stacks /\ s.reg[r] = v /\ CellsOf(s) = CellsOf(Now)
  BY <1>1, NowTyped, SetTyped DEF Set, CellsOf, Stacks
<1>3. Holds(s, Cells)
  BY <1>1, <1>2, StartHolds DEF Holds
<1> HIDE DEF s
<1>4. Holds(Push(r, s), Cells \o << low >>)
  BY <1>1, <1>2, <1>3, Push1Puts
<1>5. Cells' = Promise!Fitting(Promise!Below(0) \o << low >>)
  BY <1>1, <1>4, CellsNext, StartHolds DEF Holds, s
<1>6. ~(Len(Cells) < 0)
  BY <1>1, CellsCount
<1> QED BY <1>5, <1>6 DEF Promise!Put, Promise!Takes, Promise!Leaves, Succeeds

\* The topmost cell, and a register that a word popped.
LEMMA TopTaken ==
  ASSUME TypeOK, index >= 1, NEW r \in Names
  PROVE  LET popped == Pop(r, Now)
         IN  /\ popped \in Stacks
             /\ Promise!Low(popped.reg[r]) = Promise!Top /\ Promise!Top \in Cell
             /\ Holds(popped, Promise!Below(1)) /\ CellsOf(popped) = Promise!Below(1)
<1>1. DataOK /\ width \in Widths
  BY DEF TypeOK, DataOK
<1>2. Popped(Now, 0) /\ index \in Nat /\ index - 0 = index /\ 0 + 1 = 1
  BY <1>1, StartHolds DEF Popped
<1>3. Cells \in Seq(Cell) /\ Len(Cells) = index
  BY <1>1, CellsCount
<1>4. Promise!Top = Cells[index] /\ Promise!Top \in Cell
  <2>1. Cells[index] \in Cell
    BY <1>2, <1>3
  <2> QED BY <1>3, <2>1 DEF Promise!Top, Promise!Last
<1>5. Popped(Pop(r, Now), 1) /\ Promise!Low(Pop(r, Now).reg[r]) = Cells[index]
  BY <1>1, <1>2, PopTakes
<1>6. Holds(Pop(r, Now), Promise!Below(1)) /\ CellsOf(Pop(r, Now)) = Promise!Below(1)
  BY <1>1, <1>2, <1>5, PoppedHolds
<1> QED BY <1>4, <1>5, <1>6 DEF Popped

\* Setting a register leaves the stack as it is.
LEMMA SetHolds ==
  ASSUME NEW s, NEW c, Holds(s, c), NEW r \in Names, NEW v \in Registers
  PROVE  Holds(Set(r, v, s), c) /\ Set(r, v, s).reg[r] = v
<1>1. s \in Stacks /\ c \in Seq(Cell) /\ CellsOf(s) = Promise!Fitting(c)
  BY DEF Holds
<1>2. Set(r, v, s) \in Stacks
  BY <1>1, SetTyped
<1>3. CellsOf(Set(r, v, s)) = CellsOf(s) /\ Set(r, v, s).reg[r] = v
  BY <1>1 DEF Set, CellsOf, Stacks
<1> QED BY <1>1, <1>2, <1>3 DEF Holds

\* Where a cell fills a register, its low bytes are all of it.
LEMMA FullCells ==
  ASSUME width = Full, width \in Widths
  PROVE  /\ Cell = Registers
         /\ \A v \in Registers : Promise!Low(v) = v
         /\ \A v \in Registers : Promise!Value(v) = v
<1>1. Full \in Nat
  BY SizesTyped
<1> QED BY <1>1 DEF Cell, Registers, Promise!Low, Promise!Value

LEMMA MaybeDupKept ==
  ASSUME TypeOK, width = Full, MaybeDup
  PROVE  Promise!MaybeDup
<1> DEFINE popped == Pop("c00", Now)
           pushed == Push("c00", popped)
           v == popped.reg["c00"]
           s == IF v = Zero THEN pushed ELSE Push("c00", pushed)
           new == IF v = Zero THEN << v >> ELSE << v, v >>
<1>1. DataOK /\ width \in Widths /\ "c00" \in Names /\ Len(Cells) = index /\ index \in Nat
  BY CellsCount, SizesTyped, NowTyped DEF TypeOK, DataOK, Names, Now
<1>2. Expects(1, s) /\ UNCHANGED <<width, rstack, taken>>
  BY DEF MaybeDup
<1>3. CASE index < 1
  BY <1>1, <1>2, <1>3 DEF Expects, Fails, Promise!MaybeDup, Promise!Takes
<1>4. CASE ~(index < 1)
  <2>1. /\ v \in Registers /\ Promise!Low(v) = v /\ Promise!Value(v) = v
        /\ Promise!Top = v /\ Holds(popped, Promise!Below(1))
    BY <1>1, <1>4, TopTaken, FullCells DEF Stacks
  <2> HIDE DEF popped
  <2>2. Holds(pushed, Promise!Below(1) \o << v >>) /\ pushed.reg["c00"] = v
    BY <1>1, <2>1, Push1Puts
  <2> HIDE DEF pushed, v
  <2>3. Holds(Push("c00", pushed), (Promise!Below(1) \o << v >>) \o << v >>)
    BY <1>1, <2>1, <2>2, Push1Puts
  <2>4. (Promise!Below(1) \o << v >>) \o << v >> = Promise!Below(1) \o << v, v >>
    <3>1. v \in Cell /\ Promise!Below(1) \in Seq(Cell)
      BY <1>1, <2>1, FullCells DEF Holds
    <3> QED BY ONLY <3>1, Longer
  <2>5. Holds(s, Promise!Below(1) \o new)
    BY <2>2, <2>3, <2>4
  <2>6. Cells' = Promise!Fitting(Promise!Below(1) \o new) /\ UNCHANGED failed
    <3>1. Becomes(s) /\ Succeeds
      BY <1>2, <1>4 DEF Expects
    <3> HIDE DEF s, new
    <3> QED BY <1>2, <2>5, <3>1, CellsNext DEF Holds, Succeeds
  <2>7. new = IF Promise!Value(Promise!Top) = Promise!Number(0) THEN << Promise!Top >>
              ELSE << Promise!Top, Promise!Top >>
    BY <2>1 DEF Zero, Number, Promise!Number
  <2>8. ~(Len(Cells) < 1)
    BY <1>1, <1>4
  <2> HIDE DEF new, s
  <2> QED BY <1>2, <2>6, <2>7, <2>8 DEF Promise!MaybeDup, Promise!Takes, Promise!Leaves
<1> QED BY <1>3, <1>4

\* A word that replaces its n cells by a flag.
LEMMA FlagKept ==
  ASSUME TypeOK, NEW n \in Nat, NEW b \in BOOLEAN, NEW popped, Holds(popped, Promise!Below(n)),
         ~(Len(Cells) < n), UNCHANGED <<width, rstack, taken, failed>>,
         Becomes(Push("c00", Set("c00", Flag(b), popped)))
  PROVE  Promise!Takes(n, Promise!Leaves(n, << Promise!Low(Promise!Flag(b)) >>))
<1> DEFINE s == Set("c00", Flag(b), popped)
<1>1. "c00" \in Names /\ Flag(b) \in Registers /\ width \in Widths
  BY FlagTyped DEF Names, TypeOK
<1>2. Holds(s, Promise!Below(n)) /\ s.reg["c00"] = Flag(b)
  BY <1>1, SetHolds
<1> HIDE DEF s
<1>3. Holds(Push("c00", s), Promise!Below(n) \o << Promise!Low(Flag(b)) >>)
  BY <1>1, <1>2, Push1Puts
<1>4. Cells' = Promise!Fitting(Promise!Below(n) \o << Promise!Low(Flag(b)) >>)
  BY <1>3, CellsNext DEF s, Holds
<1>5. Promise!Flag(b) = Flag(b)
  BY DEF Flag, Promise!Flag
<1> QED BY <1>4, <1>5 DEF Promise!Takes, Promise!Leaves

LEMMA EqualsKept ==
  ASSUME TypeOK, width = Full, NEW b \in BOOLEAN, Equals(b)
  PROVE  Promise!Equals(b)
<1> DEFINE popped == Pop2("c00", "c01", Now)
           holds == (popped.reg["c01"] = popped.reg["c00"]) = b
           s == Push("c00", Set("c00", Flag(holds), popped))
<1>1. /\ DataOK /\ width \in Widths /\ {"c00", "c01"} \subseteq Names
      /\ Len(Cells) = index /\ index \in Nat
  BY CellsCount, SizesTyped, NowTyped DEF TypeOK, DataOK, Names, Now
<1>2. Expects(2, s) /\ UNCHANGED <<width, rstack, taken>>
  BY DEF Equals
<1>3. CASE index < 2
  BY <1>1, <1>2, <1>3 DEF Expects, Fails, Promise!Equals, Promise!Takes
<1>4. CASE ~(index < 2)
  <2>1. /\ Popped(popped, 2) /\ Promise!Low(popped.reg["c00"]) = Cells[index]
        /\ Promise!Low(popped.reg["c01"]) = Cells[index - 1]
    <3>1. /\ Popped(Now, 0) /\ 0 + 2 <= index /\ 0 + 2 = 2
          /\ index - 0 = index /\ index - (0 + 1) = index - 1
      BY <1>1, <1>4, StartHolds
    <3> QED BY <1>1, <3>1, Pop2Takes
  <2>2. Holds(popped, Promise!Below(2))
    BY <1>1, <1>4, <2>1, PoppedHolds
  <2> HIDE DEF popped
  <2>3. popped.reg["c00"] = Promise!Top /\ popped.reg["c01"] = Cells[Len(Cells) - 1]
    <3>1. popped.reg["c00"] \in Registers /\ popped.reg["c01"] \in Registers
      BY <1>1, <2>1 DEF Popped, Stacks
    <3>2. popped.reg["c00"] = Cells[index] /\ popped.reg["c01"] = Cells[index - 1]
      BY <1>1, <2>1, <3>1, FullCells
    <3> QED BY <1>1, <3>2 DEF Promise!Top, Promise!Last
  <2>4. holds = ((Cells[Len(Cells) - 1] = Promise!Top) = b)
    BY <2>3
  <2>5. Becomes(s) /\ UNCHANGED failed
    BY <1>2, <1>4 DEF Expects, Succeeds
  <2>6. ~(Len(Cells) < 2) /\ holds \in BOOLEAN
    BY <1>1, <1>4
  <2> HIDE DEF holds
  <2>7. Promise!Takes(2, Promise!Leaves(2, << Promise!Low(Promise!Flag(holds)) >>))
    BY <1>2, <2>2, <2>5, <2>6, FlagKept
  <2> QED BY <2>4, <2>7 DEF Promise!Equals
<1> QED BY <1>3, <1>4

LEMMA EqualsZeroKept ==
  ASSUME TypeOK, width = Full, NEW b \in BOOLEAN, EqualsZero(b)
  PROVE  Promise!EqualsZero(b)
<1> DEFINE popped == Pop("c00", Now)
           holds == (popped.reg["c00"] = Zero) = b
           s == Push("c00", Set("c00", Flag(holds), popped))
<1>1. DataOK /\ width \in Widths /\ "c00" \in Names /\ Len(Cells) = index /\ index \in Nat
  BY CellsCount, SizesTyped, NowTyped DEF TypeOK, DataOK, Names, Now
<1>2. Expects(1, s) /\ UNCHANGED <<width, rstack, taken>>
  BY DEF EqualsZero
<1>3. CASE index < 1
  BY <1>1, <1>2, <1>3 DEF Expects, Fails, Promise!EqualsZero, Promise!Takes
<1>4. CASE ~(index < 1)
  <2>1. /\ popped.reg["c00"] = Promise!Top /\ Promise!Value(Promise!Top) = Promise!Top
        /\ Holds(popped, Promise!Below(1))
    BY <1>1, <1>4, TopTaken, FullCells DEF Stacks
  <2> HIDE DEF popped
  <2>2. holds = ((Promise!Value(Promise!Top) = Promise!Number(0)) = b)
    BY <2>1 DEF Zero, Number, Promise!Number
  <2>3. Becomes(s) /\ UNCHANGED failed
    BY <1>2, <1>4 DEF Expects, Succeeds
  <2>4. ~(Len(Cells) < 1) /\ holds \in BOOLEAN
    BY <1>1, <1>4
  <2> HIDE DEF holds
  <2>5. Promise!Takes(1, Promise!Leaves(1, << Promise!Low(Promise!Flag(holds)) >>))
    BY <1>2, <2>1, <2>3, <2>4, FlagKept
  <2> QED BY <2>2, <2>5 DEF Promise!EqualsZero
<1> QED BY <1>3, <1>4

LEMMA ZeroBranchKept ==
  ASSUME TypeOK, width = Full, ZeroBranch
  PROVE  Promise!ZeroBranch
<1> DEFINE popped == Pop("vm", Now)
<1>1. DataOK /\ width \in Widths /\ "vm" \in Names /\ Len(Cells) = index /\ index \in Nat
  BY CellsCount, SizesTyped, NowTyped DEF TypeOK, DataOK, Names, Now
<1>2. /\ Expects(1, popped) /\ UNCHANGED <<width, rstack>>
      /\ taken' = IF index < 1 THEN taken ELSE popped.reg["vm"] = Zero
  BY DEF ZeroBranch
<1>3. CASE index < 1
  BY <1>1, <1>2, <1>3 DEF Expects, Fails, Promise!ZeroBranch, Promise!Takes
<1>4. CASE ~(index < 1)
  <2>1. /\ popped.reg["vm"] = Promise!Top /\ Promise!Value(Promise!Top) = Promise!Top
        /\ CellsOf(popped) = Promise!Below(1)
    BY <1>1, <1>4, TopTaken, FullCells DEF Stacks
  <2> HIDE DEF popped
  <2>2. Becomes(popped) /\ UNCHANGED failed /\ ~(Len(Cells) < 1)
    BY <1>1, <1>2, <1>4 DEF Expects, Succeeds
  <2>3. Cells' = Promise!Below(1)
    BY <1>2, <2>1, <2>2, CellsNext
  <2>4. taken' = (Promise!Value(Promise!Top) = Promise!Number(0))
    BY <1>2, <1>4, <2>1 DEF Zero, Number, Promise!Number
  <2> QED BY <1>2, <2>2, <2>3, <2>4 DEF Promise!ZeroBranch, Promise!Takes
<1> QED BY <1>3, <1>4

\* A word that pushes the newest register of the return stack.
LEMMA RegisterPushed ==
  ASSUME TypeOK, rstack # << >>, UNCHANGED width,
         Becomes(Push("c00", Set("c00", Last(rstack), Now)))
  PROVE  /\ Promise!Last(rstack) = Last(rstack) /\ Last(rstack) \in Registers
         /\ Cells' = Promise!Fitting(Append(Cells, Promise!Low(Last(rstack))))
<1> DEFINE s == Set("c00", Last(rstack), Now)
<1>1. DataOK /\ width \in Widths /\ "c00" \in Names
  BY DEF TypeOK, DataOK, Names
<1>2. Last(rstack) \in Registers
  BY DEF Last, TypeOK
<1>3. Holds(s, Cells) /\ s.reg["c00"] = Last(rstack)
  BY <1>1, <1>2, StartHolds, SetHolds
<1> HIDE DEF s
<1>4. Holds(Push("c00", s), Append(Cells, Promise!Low(Last(rstack))))
  BY <1>1, <1>3, PushPuts
<1>5. Cells' = CellsOf(Push("c00", s))
  BY CellsNext DEF s
<1>6. Promise!Last(rstack) = Last(rstack)
  BY DEF Last, Promise!Last
<1> QED BY <1>2, <1>4, <1>5, <1>6 DEF Holds

LEMMA PushRstackKept ==
  ASSUME TypeOK, PushRstack
  PROVE  Promise!PushRstack
<1> DEFINE popped == Pop("c00", Now)
           v == popped.reg["c00"]
<1>1. DataOK /\ width \in Widths /\ "c00" \in Names /\ Len(Cells) = index /\ index \in Nat
  BY CellsCount, SizesTyped, NowTyped DEF TypeOK, DataOK, Names, Now
<1>2. /\ Expects(1, popped) /\ UNCHANGED <<width, taken>>
      /\ rstack' = IF index < 1 \/ Len(rstack) >= RLimit THEN rstack ELSE Append(rstack, v)
  BY DEF PushRstack
<1>3. CASE index < 1
  BY <1>1, <1>2, <1>3 DEF Expects, Fails, Promise!PushRstack, Promise!Takes
<1>4. CASE ~(index < 1)
  <2>1. v \in Registers /\ Promise!Low(v) = Promise!Top /\ CellsOf(popped) = Promise!Below(1)
    BY <1>1, <1>4, TopTaken DEF Stacks
  <2> HIDE DEF popped, v
  <2>2. Becomes(popped) /\ UNCHANGED failed /\ ~(Len(Cells) < 1)
    BY <1>1, <1>2, <1>4 DEF Expects, Succeeds
  <2>3. Cells' = Promise!Below(1)
    BY <1>2, <2>1, <2>2, CellsNext
  <2>4. \/ Len(rstack) >= RLimit /\ UNCHANGED rstack
        \/ Len(rstack) < RLimit /\ rstack' = Append(rstack, v)
    BY <1>2, <1>4, WidthAssumption DEF WidthAssumption, TypeOK
  <2> QED BY <1>2, <2>1, <2>2, <2>3, <2>4 DEF Promise!PushRstack, Promise!Takes, Registers,
             Promise!Registers, Byte, Promise!Byte
<1> QED BY <1>3, <1>4

LEMMA PopRstackKept ==
  ASSUME TypeOK, PopRstack
  PROVE  Promise!PopRstack
<1>1. CASE rstack = << >>
  BY <1>1 DEF PopRstack, Fails, Promise!PopRstack
<1>2. CASE rstack # << >>
  <2>1. /\ Becomes(Push("c00", Set("c00", Last(rstack), Now)))
        /\ rstack' = Front(rstack) /\ UNCHANGED <<width, failed, taken>>
    BY <1>2 DEF PopRstack, Succeeds
  <2>2. /\ Promise!Last(rstack) = Last(rstack)
        /\ Cells' = Promise!Fitting(Append(Cells, Promise!Low(Last(rstack))))
    BY <1>2, <2>1, RegisterPushed
  <2>3. Promise!Front(rstack) = Front(rstack)
    BY DEF Front, Promise!Front
  <2> QED BY <1>2, <2>1, <2>2, <2>3 DEF Promise!PopRstack
<1> QED BY <1>1, <1>2

LEMMA PeekRstackKept ==
  ASSUME TypeOK, PeekRstack
  PROVE  Promise!PeekRstack
<1>1. CASE rstack = << >>
  BY <1>1 DEF PeekRstack, Fails, Promise!PeekRstack
<1>2. CASE rstack # << >>
  <2>1. /\ Becomes(Push("c00", Set("c00", Last(rstack), Now))) /\ Succeeds
        /\ UNCHANGED <<width, rstack, taken>>
    BY <1>2 DEF PeekRstack
  <2>2. Promise!Last(rstack) = Last(rstack) /\ Last(rstack) \in Registers /\ "c00" \in Names
    BY <1>2, <2>1, RegisterPushed DEF Names
  <2>3. Promise!Put(Last(rstack))
    BY <2>1, <2>2, PutKept
  <2> QED BY <1>2, <2>2, <2>3 DEF Promise!PeekRstack
<1> QED BY <1>1, <1>2

-----------------------------------------------------------------------------
(* The bytes below the argument of BITS.                                   *)

\* s are the n cells of w bytes that begin the array m.
Reads(s, n, w, m) ==
  Len(s) = n /\ \A i \in 1 .. n, b \in 1 .. w : s[i][b] = m[(i - 1) * w + b]

\* Their bytes are those of the array.
LEMMA BytesRead ==
  ASSUME NEW w \in Nat \ {0}, NEW n \in Nat, NEW m, NEW s, Reads(s, n, w, m)
  PROVE  /\ DOMAIN Promise!Bytes(s, w) = 1 .. n * w /\ Len(Promise!Bytes(s, w)) = n * w
         /\ \A k \in 1 .. n * w : Promise!Bytes(s, w)[k] = m[k]
<1>1. n * w \in Nat
  OBVIOUS
<1>2. ASSUME NEW k \in 1 .. n * w
      PROVE  s[((k - 1) \div w) + 1][((k - 1) % w) + 1] = m[k]
  <2> DEFINE q == (k - 1) \div w
             r == (k - 1) % w
  <2>1. k - 1 \in Nat /\ k - 1 < n * w
    BY <1>1
  <2>2. q \in Nat /\ r \in 0 .. w - 1 /\ k - 1 = q * w + r
    BY <2>1, Divided
  <2>3. q < n
    BY <2>1, QuotientBelow
  <2> HIDE DEF q, r
  <2>4. q * w \in Nat /\ (q + 1) - 1 = q /\ q + 1 \in 1 .. n /\ r + 1 \in 1 .. w
    BY <2>2, <2>3
  <2>5. q * w + (r + 1) = k
    BY <2>2, <2>4
  <2>6. s[q + 1][r + 1] = m[((q + 1) - 1) * w + (r + 1)]
    BY <2>4 DEF Reads
  <2> QED BY <2>4, <2>5, <2>6 DEF q, r
<1> DEFINE bytes == [k \in 1 .. n * w |-> s[((k - 1) \div w) + 1][((k - 1) % w) + 1]]
<1>3. Promise!Bytes(s, w) = bytes
  BY DEF Promise!Bytes, Reads
<1>4. DOMAIN bytes = 1 .. n * w /\ Len(bytes) = n * w
  BY <1>1
<1>5. \A k \in 1 .. n * w : bytes[k] = m[k]
  BY <1>2
<1> QED BY <1>3, <1>4, <1>5

\* Cutting the cells below the argument into cells of w bytes.
LEMMA CutKept ==
  ASSUME TypeOK, NEW w \in Widths, index >= 1, width' = w, mem' = mem,
         index' = Rescaled(index - 1, w), UNCHANGED <<rstack, taken>>,
         Promise!Below(1) = [i \in 1 .. index - 1 |-> CellAt(mem, i)]
  PROVE  Promise!Cut(w)
<1> DEFINE n == index - 1
           old == Promise!Bytes(Promise!Below(1), width)
           new == Promise!Bytes(Cells', w)
           count == (n * width + w - 1) \div w
<1>1. /\ width \in Widths /\ width \in Nat \ {0} /\ w \in Nat \ {0}
      /\ Limit[w] \in Nat /\ Limit[width] \in Nat /\ index \in Nat /\ index <= Limit[width]
  BY SizesTyped, WidthAssumption DEF WidthAssumption, TypeOK, Byte
<1>2. n \in Nat /\ n <= Limit[width] /\ n * width \in Nat
  BY <1>1
<1>3. /\ DOMAIN old = 1 .. n * width /\ Len(old) = n * width
      /\ \A k \in 1 .. n * width : old[k] = mem[k]
  <2> DEFINE c == Promise!Below(1)
  <2> HIDE DEF n, old, new, count
  <2>1. c = [i \in 1 .. n |-> CellAt(mem, i)]
    BY DEF n
  <2>2. Reads(c, n, width, mem)
    <3> HIDE DEF c
    <3> QED BY <1>2, <2>1 DEF CellAt, Reads
  <2>3. width \in Nat \ {0} /\ n \in Nat
    BY <1>1, <1>2
  <2> HIDE DEF c
  <2>4. /\ DOMAIN Promise!Bytes(c, width) = 1 .. n * width
        /\ Len(Promise!Bytes(c, width)) = n * width
        /\ \A k \in 1 .. n * width : Promise!Bytes(c, width)[k] = mem[k]
    BY <2>2, <2>3, BytesRead
  <2> QED BY <2>4 DEF c, old
<1>4. index' = IF count > Limit[w] THEN Limit[w] ELSE count
  <2>1. CASE w = width
    <3> HIDE DEF n
    <3>1. count = n
      BY <1>1, <1>2, <2>1, SameCount
    <3> QED BY <1>1, <1>2, <2>1, <3>1 DEF Rescaled, n
  <2>2. CASE w # width
    BY <2>2 DEF Rescaled
  <2> QED BY <2>1, <2>2
<1>5. index' \in Nat
  <2> HIDE DEF n
  <2>1. n * width + w - 1 \in Nat
    BY <1>1, <1>2
  <2>2. count \in Nat
    BY <1>1, <2>1, Divided
  <2> HIDE DEF count
  <2> QED BY <1>1, <1>4, <2>2
<1>6. Len(Cells') = index'
  BY <1>5 DEF Cells
<1>7. DOMAIN new = 1 .. index' * w /\ \A k \in 1 .. index' * w : new[k] = mem[k]
  <2> DEFINE c == Cells'
  <2> HIDE DEF n, old, new, count
  <2>1. Reads(c, index', w, mem)
    BY <1>6 DEF Cells, Reads
  <2> HIDE DEF c
  <2>2. w \in Nat \ {0} /\ index' \in Nat
    BY <1>1, <1>5
  <2>3. /\ DOMAIN Promise!Bytes(c, w) = 1 .. index' * w
        /\ \A k \in 1 .. index' * w : Promise!Bytes(c, w)[k] = mem[k]
    BY <2>1, <2>2, BytesRead
  <2> QED BY <2>3 DEF c, new
<1>8. \A k \in DOMAIN old \cap DOMAIN new : new[k] = old[k]
  <2> HIDE DEF old, new, n
  <2> QED BY <1>3, <1>7
<1>9. Len(Cells') = IF (Len(old) + w - 1) \div w > Limit[w] THEN Limit[w]
                    ELSE (Len(old) + w - 1) \div w
  <2> HIDE DEF old, n
  <2> QED BY <1>3, <1>4, <1>6
<1> HIDE DEF n, count
<1> QED BY <1>8, <1>9 DEF Promise!Cut

LEMMA BitsKept ==
  ASSUME TypeOK, Bits, ~failed'
  PROVE  Promise!Bits
<1> DEFINE popped == Pop("c00", Now)
<1>1. /\ DataOK /\ width \in Widths /\ "c00" \in Names
      /\ Len(Cells) = index /\ index \in Nat /\ DOMAIN Limit = Widths
      /\ width \in Nat \ {0} /\ Full \in Nat \ {0} /\ width <= Full
  BY CellsCount, SizesTyped, NowTyped, WidthAssumption
     DEF TypeOK, DataOK, Names, Now, WidthAssumption
<1>2. /\ index >= 1 /\ UNCHANGED failed /\ UNCHANGED <<rstack, taken>>
      /\ \E w \in Widths : /\ popped.reg["c00"] = Number(BitsOf[w])
                           /\ width' = w
                           /\ Becomes([popped EXCEPT !.index = Rescaled(@, w)])
  BY DEF Bits, Fails, Succeeds
<1>3. PICK w \in Widths : /\ popped.reg["c00"] = Number(BitsOf[w])
                          /\ width' = w
                          /\ Becomes([popped EXCEPT !.index = Rescaled(@, w)])
  BY <1>2
<1>4. /\ Promise!Low(Number(BitsOf[w])) = Promise!Top
      /\ CellsOf(popped) = Promise!Below(1)
  BY <1>1, <1>2, <1>3, TopTaken
<1>5. popped \in Stacks /\ popped.mem = mem /\ popped.index = index - 1
  <2>1. Popped(Now, 0) /\ 0 < index
    BY <1>1, <1>2, NowTyped DEF Popped, Now
  <2> QED BY <1>1, <2>1, PopTakes DEF Popped
<1> HIDE DEF popped
<1>6. mem' = mem /\ index' = Rescaled(index - 1, w)
  BY <1>3, <1>5 DEF Becomes, Stacks
<1>7. Promise!Below(1) = [i \in 1 .. index - 1 |-> CellAt(mem, i)]
  BY <1>4, <1>5 DEF CellsOf
<1>8. Promise!Cut(w)
  BY <1>2, <1>3, <1>6, <1>7, CutKept
<1>9. Promise!Value(Promise!Top) = Promise!Number(BitsOf[w])
  <2>1. Promise!Value(Promise!Low(Number(BitsOf[w]))) = Promise!Number(BitsOf[w])
    BY <1>1 DEF Promise!Value, Promise!Low, Number, Promise!Number
  <2> QED BY <1>4, <2>1
<1> QED BY <1>1, <1>2, <1>8, <1>9 DEF Promise!Bits, Promise!Takes

-----------------------------------------------------------------------------
\* Words that move cells leave what their stack comments say, and a number
\* leaves itself, at every width, on a full stack and on a short one
\* (words/askforth_words.c:209-413).
THEOREM ShufflesKept == Spec => MovesCells
<1>1. TypeOK /\ [Next]_vars =>
        [/\ \A w \in Shuffles : Shuffle(w) => Promise!Shuffle(w)
         /\ \A v \in Literals : Literal(v) => Promise!Put(v)]_vars
  <2> SUFFICES ASSUME TypeOK
               PROVE  /\ \A w \in Shuffles : Shuffle(w) => Promise!Shuffle(w)
                      /\ \A v \in Literals : Literal(v) => Promise!Put(v)
    OBVIOUS
  <2>1. ASSUME NEW v \in Literals, Literal(v) PROVE Promise!Put(v)
    BY <2>1, PutKept, WidthAssumption DEF Literal, Names
  <2> QED BY <2>1, ShuffleKept
<1> QED BY <1>1, StacksInBounds, PTL DEF Spec, MovesCells

\* Where a cell fills a register, TRUE, FALSE, ?DUP, the comparisons with equal
\* and with zero and the branch behind IF, WHILE and UNTIL depend on the values
\* of the cells they take and on nothing a register had before
\* (words/askforth_words.c:221, 813-843, 973-1004, vm/forth_vm.c:149-162).
THEOREM ValuesDecide == Spec => DecidesByValue
<1>1. TypeOK /\ [Next]_vars =>
        [/\ \A b \in BOOLEAN : Truth(b) => Promise!Put(Flag(b))
         /\ width = Full =>
              /\ MaybeDup => Promise!MaybeDup
              /\ \A b \in BOOLEAN : /\ Equals(b) => Promise!Equals(b)
                                    /\ EqualsZero(b) => Promise!EqualsZero(b)
              /\ ZeroBranch => Promise!ZeroBranch]_vars
  <2>1. ASSUME TypeOK, NEW b \in BOOLEAN, Truth(b) PROVE Promise!Put(Flag(b))
    BY <2>1, PutKept, FlagTyped DEF Truth, Names
  <2> QED BY <2>1, MaybeDupKept, EqualsKept, EqualsZeroKept, ZeroBranchKept
<1> QED BY <1>1, StacksInBounds, PTL DEF Spec, DecidesByValue

\* A cell that went to the return stack comes back as it was: a register there
\* has the bytes of the cell it was made from, and a full or an empty return
\* stack loses nothing else (words/askforth_words.c:2757-2790).
THEOREM RegistersReturn == Spec => ReturnsCells
<1>1. TypeOK /\ [Next]_vars =>
        [/\ PushRstack => Promise!PushRstack
         /\ PopRstack => Promise!PopRstack
         /\ PeekRstack => Promise!PeekRstack]_vars
  BY PushRstackKept, PopRstackKept, PeekRstackKept
<1> QED BY <1>1, StacksInBounds, PTL DEF Spec, ReturnsCells

\* A BITS that succeeds moves no byte and loses none that has room at the new
\* width, whatever the two widths are (words/askforth_words.c:1014-1041,
\* vm/forth_vm.c:457-488).
THEOREM BytesStay == Spec => RecutsBytes
<1>1. TypeOK /\ [Next]_vars => [Bits /\ ~failed' => Promise!Bits]_vars
  BY BitsKept
<1> QED BY <1>1, StacksInBounds, PTL DEF Spec, RecutsBytes
=============================================================================
