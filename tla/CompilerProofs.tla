---------------------------- MODULE CompilerProofs ---------------------------
(***************************************************************************)
(* Proofs about Compiler, for all sizes of memory and of what is put there *)
(* and for programs that nest their definitions and constructs, open no    *)
(* more of these than there are cells for, and allot no more than there    *)
(* is.                                                                     *)
(***************************************************************************)
EXTENDS Compiler, Lemmas, SequenceTheorems, FiniteSetTheorems

Orderly == Liberties \cap {"unbalanced", "nested", "deep", "overrun"} = {}

Places == Addresses \cup {Null}
Ops == {"lit", "native", "foreign", "word", "skip", "error", "end", "redzone", "0branch", "branch"}
Value == {OpCell(op) : op \in Ops} \cup {Num(n) : n \in Int} \cup {At(n) : n \in Int}
           \cup {Chars, Blank}
Memories == UNION {[D -> Value] : D \in SUBSET Addresses}

\* Memory with its indices inside it, and the cell handed out below the rest.
States ==
  {s \in [mem : Memories, top : Cell .. Cell + Ram, here : Places, cf : Seq(Places),
          c00 : Places, alive : BOOLEAN] :
     Len(s.cf) <= CfLimit /\ (s.here # Null => s.here + Cell <= s.top)}

\* States between which something is compiled: without a cell there is no room
\* for one.
Writable == {s \in States : s.here = Null => ~Room(Cell, s)}

\* The first address that compiling may write to.
From(s) == IF s.here = Null THEN s.top ELSE s.here

\* t is s after something was compiled: nothing changes below.
Compiles(s, t) ==
  /\ s.top <= t.top /\ From(s) <= From(t)
  /\ s.here = Null => t.here = Null
  /\ t.cf = s.cf /\ t.c00 = s.c00 /\ (t.alive => s.alive)
  /\ \A a \in Addresses : a >= From(s) \/ CodeAt(a, t.mem) = CodeAt(a, s.mem)

Compiled(s) == {t \in Writable : Compiles(s, t)}

-----------------------------------------------------------------------------
(* Operations on memory.                                                   *)

LEMMA SizesTyped ==
  /\ Cell \in Nat \ {0} /\ Ram \in Nat /\ CfLimit \in Nat
  /\ NameSize \in Nat /\ WordSize \in Nat /\ MessageSize \in Nat /\ StringSize \in Nat
  /\ Sizes \subseteq Nat
  /\ Addresses = Cell .. Cell + Ram - 1 /\ Null \notin Addresses
  BY MemoryAssumption DEF MemoryAssumption, Addresses, Null

LEMMA ValuesTyped ==
  /\ \A op \in Ops : OpCell(op) \in Value
  /\ \A n \in Int : Num(n) \in Value /\ At(n) \in Value
  /\ Chars \in Value /\ Blank \in Value
  BY DEF Value

\* Memory that begins with a cell is some number of them.
LEMMA WholeCells == \E r \in Nat : Cell + Ram = (r + 1) * Cell
<1>1. Ram \div Cell \in Nat /\ Ram = (Ram \div Cell) * Cell + (Ram % Cell) /\ Ram % Cell = 0
  BY SizesTyped, Divided, MemoryAssumption DEF MemoryAssumption
<1> DEFINE r == Ram \div Cell
<1> HIDE DEF r
<1>2. r \in Nat /\ Ram = r * Cell /\ Cell \in Nat
  <2>1. r * Cell \in Nat
    BY <1>1, SizesTyped DEF r
  <2> QED BY <1>1, <2>1, SizesTyped DEF r
<1>3. (r + 1) * Cell = r * Cell + Cell
  BY <1>2
<1> QED BY <1>2, <1>3

\* Only the index, or the cell, or whether the process lives is different.
LEMMA Updated ==
  ASSUME NEW s \in States
  PROVE  /\ \A t \in Cell .. Cell + Ram :
              (s.here # Null => s.here + Cell <= t) => [s EXCEPT !.top = t] \in States
         /\ \A t \in Cell .. Cell + Ram, h \in Places :
              (h # Null => h + Cell <= t) => [s EXCEPT !.here = h, !.top = t] \in States
         /\ [s EXCEPT !.alive = FALSE] \in States
<1>1. \A t \in Cell .. Cell + Ram :
        (s.here # Null => s.here + Cell <= t) => [s EXCEPT !.top = t] \in States
  BY DEF States
<1>2. \A t \in Cell .. Cell + Ram, h \in Places :
        (h # Null => h + Cell <= t) => [s EXCEPT !.here = h, !.top = t] \in States
  BY DEF States
<1>3. [s EXCEPT !.alive = FALSE] \in States
  BY DEF States
<1> QED BY <1>1, <1>2, <1>3

\* Aligning leaves memory alone, and the index inside it.
LEMMA AlignedTyped ==
  ASSUME NEW s \in States
  PROVE  /\ Aligned(s) \in States /\ s.top <= Aligned(s).top
         /\ Aligned(s) = [s EXCEPT !.top = Aligned(s).top]
<1> DEFINE k == s.top + Cell - 1
           q == k \div Cell
<1>1. PICK r \in Nat : Cell + Ram = (r + 1) * Cell
  BY WholeCells
<1>2. /\ Cell \in Nat \ {0} /\ s.top \in Nat /\ s.top <= Cell + Ram /\ Cell <= s.top /\ k \in Nat
      /\ s.here \in Nat /\ (s.here # Null => s.here + Cell <= s.top)
  BY SizesTyped DEF States, Places, Addresses, Null
<1>3. q \in Nat /\ k = q * Cell + (k % Cell) /\ k % Cell \in 0 .. Cell - 1
  BY <1>2, Divided
<1>4. k < (r + 2) * Cell
  <2>1. (r + 2) * Cell = (r + 1) * Cell + Cell
    BY <1>2
  <2> QED BY <1>1, <1>2, <2>1, SizesTyped
<1>5. q < r + 2
  <2> DEFINE n == r + 2
  <2>1. n \in Nat /\ k \in Nat /\ k < n * Cell /\ Cell \in Nat \ {0}
    BY <1>2, <1>4
  <2> HIDE DEF k, n
  <2>2. k \div Cell < n
    BY <2>1, QuotientBelow
  <2> QED BY <2>2 DEF n
<1> HIDE DEF q
<1>6. q * Cell <= (r + 1) * Cell
  <2>1. PICK d \in Nat : r + 1 = q + d
    <3>1. (r + 1) - q \in Nat /\ r + 1 = q + ((r + 1) - q)
      BY <1>3, <1>5
    <3> QED BY <3>1
  <2>2. (r + 1) * Cell = q * Cell + d * Cell /\ d * Cell \in Nat /\ q * Cell \in Nat
    BY <1>2, <1>3, <2>1
  <2> QED BY <2>2
<1>7. q * Cell \in Nat /\ s.top <= q * Cell
  <2>1. q * Cell \in Nat
    BY <1>2, <1>3
  <2> QED BY <1>2, <1>3, <2>1
<1>8. Aligned(s) = [s EXCEPT !.top = q * Cell]
  BY DEF Aligned, q
<1> DEFINE t == q * Cell
<1>9. t \in Cell .. Cell + Ram /\ s.top <= t
  BY <1>1, <1>2, <1>6, <1>7, SizesTyped
<1> HIDE DEF t
<1>10. Aligned(s) = [s EXCEPT !.top = t]
  BY <1>8 DEF t
<1>11. s.here # Null => s.here + Cell <= t
  BY <1>2, <1>9
<1>12. [s EXCEPT !.top = t] \in States /\ [s EXCEPT !.top = t].top = t
  BY <1>9, <1>11, Updated DEF States
<1> QED BY <1>9, <1>10, <1>12

\* Taking memory: what the rest of the state says stays.
LEMMA AllocTyped ==
  ASSUME NEW s \in States, NEW n \in Nat
  PROVE  /\ Alloc(n, s) \in States /\ s.top <= Alloc(n, s).top
         /\ Alloc(n, s).here = s.here /\ Alloc(n, s).cf = s.cf /\ Alloc(n, s).c00 = s.c00
         /\ Alloc(n, s).mem = s.mem /\ (Alloc(n, s).alive => s.alive)
         /\ Alloc(n, s).alive => s.top \in Addresses
<1>1. /\ Cell \in Nat \ {0} /\ Ram \in Nat /\ s.top \in Cell .. Cell + Ram
      /\ s.here \in Nat /\ (s.here # Null => s.here + Cell <= s.top)
  BY SizesTyped DEF States, Places, Addresses, Null
<1>2. Room(n, s) => s.top + n < Cell + Ram
  BY <1>1 DEF Room
<1>3. Room(n, s) => s.top + n \in Cell .. Cell + Ram /\ s.top \in Addresses
  BY <1>1, <1>2 DEF Addresses
<1>4. CASE Room(n, s)
  BY <1>1, <1>3, <1>4 DEF Alloc, States
<1>5. CASE ~Room(n, s)
  <2>1. Alloc(n, s) = [s EXCEPT !.alive = FALSE]
    BY <1>5 DEF Alloc
  <2>2. Alloc(n, s) \in States
    BY <2>1, Updated
  <2>3. /\ Alloc(n, s).here = s.here /\ Alloc(n, s).cf = s.cf /\ Alloc(n, s).c00 = s.c00
        /\ Alloc(n, s).mem = s.mem /\ Alloc(n, s).top = s.top /\ Alloc(n, s).alive = FALSE
    BY <2>1 DEF States
  <2> QED BY <1>1, <2>2, <2>3
<1> QED BY <1>4, <1>5

LEMMA NewCellTyped ==
  ASSUME NEW s \in States
  PROVE  /\ NewCell(s) \in Writable /\ s.top <= NewCell(s).top
         /\ NewCell(s).here \in {s.top, Null}
         /\ Room(Cell, s) <=> NewCell(s).here # Null
         /\ NewCell(s).cf = s.cf /\ NewCell(s).c00 = s.c00
         /\ NewCell(s).mem = s.mem /\ NewCell(s).alive = s.alive
<1>1. /\ Cell \in Nat \ {0} /\ Ram \in Nat /\ s.top \in Cell .. Cell + Ram
      /\ s.here \in Nat /\ (s.here # Null => s.here + Cell <= s.top)
  BY SizesTyped DEF States, Places, Addresses, Null
<1>2. Room(Cell, s) => s.top + Cell < Cell + Ram
  BY <1>1 DEF Room
<1>3. Room(Cell, s) => s.top + Cell \in Cell .. Cell + Ram /\ s.top \in Addresses /\ s.top # Null
  BY <1>1, <1>2 DEF Addresses, Null
<1>4. CASE Room(Cell, s)
  <2>1. NewCell(s) = [s EXCEPT !.here = s.top, !.top = @ + Cell]
    BY <1>4 DEF NewCell
  <2>2. s.top \in Places /\ s.top + Cell \in Cell .. Cell + Ram /\ s.top # Null
    BY <1>3, <1>4 DEF Places
  <2>3. NewCell(s) \in States
    <3> DEFINE t == s.top + Cell
    <3>1. t \in Cell .. Cell + Ram /\ s.top + Cell <= t
      BY <1>1, <2>2
    <3>2. NewCell(s) = [s EXCEPT !.here = s.top, !.top = t]
      BY <2>1 DEF States
    <3> HIDE DEF t
    <3>3. [s EXCEPT !.here = s.top, !.top = t] \in States
      BY <2>2, <3>1, Updated
    <3> QED BY <3>2, <3>3
  <2>4. /\ NewCell(s).here = s.top /\ NewCell(s).top = s.top + Cell
        /\ NewCell(s).cf = s.cf /\ NewCell(s).c00 = s.c00
        /\ NewCell(s).mem = s.mem /\ NewCell(s).alive = s.alive
    BY <2>1 DEF States
  <2> QED BY <1>1, <1>4, <2>2, <2>3, <2>4 DEF Writable
<1>5. CASE ~Room(Cell, s)
  <2>1. NewCell(s) = [s EXCEPT !.here = Null]
    BY <1>5 DEF NewCell
  <2>2. NewCell(s) \in States /\ NewCell(s).here = Null /\ NewCell(s).top = s.top
    BY <2>1 DEF States, Places
  <2>3. ~Room(Cell, NewCell(s))
    BY <1>5, <2>2 DEF Room
  <2> QED BY <1>1, <1>5, <2>1, <2>2, <2>3 DEF Writable, States
<1> QED BY <1>4, <1>5

LEMMA StoreTyped ==
  ASSUME NEW s \in States, NEW a, NEW v \in Value
  PROVE  /\ Store(a, v, s) \in States
         /\ Store(a, v, s).top = s.top /\ Store(a, v, s).here = s.here
         /\ Store(a, v, s).cf = s.cf /\ Store(a, v, s).c00 = s.c00
         /\ Store(a, v, s).alive => s.alive /\ a \in Addresses
         /\ \A b \in Addresses \ {a} : CodeAt(b, Store(a, v, s).mem) = CodeAt(b, s.mem)
<1>1. CASE a \in Addresses
  <2> DEFINE m == [b \in DOMAIN s.mem \cup {a} |-> IF b = a THEN v ELSE s.mem[b]]
  <2>1. PICK D \in SUBSET Addresses : s.mem \in [D -> Value]
    BY DEF States, Memories
  <2>2. m \in [D \cup {a} -> Value] /\ D \cup {a} \in SUBSET Addresses
    BY <1>1, <2>1
  <2>3. m \in Memories
    BY <2>2 DEF Memories
  <2>4. \A b \in Addresses \ {a} : CodeAt(b, m) = CodeAt(b, s.mem)
    BY DEF CodeAt
  <2>5. Store(a, v, s) = [s EXCEPT !.mem = m]
    BY <1>1 DEF Store
  <2> HIDE DEF m
  <2>6. [s EXCEPT !.mem = m] \in States
    BY <2>3 DEF States
  <2> QED BY <1>1, <2>4, <2>5, <2>6 DEF States
<1>2. CASE a \notin Addresses
  <2>1. Store(a, v, s) = [s EXCEPT !.alive = FALSE]
    BY <1>2 DEF Store
  <2>2. Store(a, v, s) \in States
    BY <2>1, Updated
  <2>3. /\ Store(a, v, s).here = s.here /\ Store(a, v, s).cf = s.cf
        /\ Store(a, v, s).c00 = s.c00 /\ Store(a, v, s).mem = s.mem
        /\ Store(a, v, s).top = s.top /\ Store(a, v, s).alive = FALSE
    BY <2>1 DEF States
  <2> QED BY <2>2, <2>3
<1> QED BY <1>1, <1>2

-----------------------------------------------------------------------------
(* Compiling in one piece.                                                 *)

LEMMA StateTyped ==
  ASSUME NEW s \in States
  PROVE  /\ s.top \in Nat /\ s.top \in Cell .. Cell + Ram
         /\ s.here \in Nat /\ s.here \in Places /\ s.c00 \in Places /\ s.cf \in Seq(Places)
         /\ Len(s.cf) <= CfLimit /\ s.alive \in BOOLEAN /\ s.mem \in Memories
         /\ (s.here # Null => s.here + Cell <= s.top)
         /\ From(s) \in Nat /\ From(s) <= s.top
         /\ Room(Cell, s) <=> s.top < Ram
  BY SizesTyped DEF States, Places, Addresses, Null, From, Room

LEMMA CompilesNothing ==
  ASSUME NEW s \in Writable
  PROVE  s \in Compiled(s)
  BY StateTyped DEF Writable, Compiled, Compiles

LEMMA CompilesOn ==
  ASSUME NEW s \in Writable, NEW t \in Compiled(s), NEW u \in Compiled(t)
  PROVE  u \in Compiled(s)
<1>1. /\ s \in States /\ t \in States /\ u \in States /\ u \in Writable
      /\ Compiles(s, t) /\ Compiles(t, u)
  BY DEF Writable, Compiled
<1>2. \A r \in {s, t, u} : r.top \in Nat /\ From(r) \in Nat
  BY <1>1, StateTyped
<1>3. \A a \in Addresses : a >= From(s) \/ CodeAt(a, u.mem) = CodeAt(a, s.mem)
  <2> SUFFICES ASSUME NEW a \in Addresses, ~(a >= From(s)) PROVE CodeAt(a, u.mem) = CodeAt(a, s.mem)
    OBVIOUS
  <2>1. a \in Nat /\ ~(a >= From(t))
    BY <1>1, <1>2, SizesTyped DEF Compiles
  <2> QED BY <1>1, <2>1 DEF Compiles
<1> QED BY <1>1, <1>2, <1>3 DEF Compiled, Compiles

\* Taking memory, and writing above, compiles nothing.
LEMMA CompilesBeside ==
  ASSUME NEW s \in Writable, NEW t \in States, s.top <= t.top, t.here = s.here,
         t.cf = s.cf, t.c00 = s.c00, t.alive => s.alive,
         \A a \in Addresses : a >= From(s) \/ CodeAt(a, t.mem) = CodeAt(a, s.mem)
  PROVE  t \in Compiled(s)
<1>1. s \in States /\ (s.here = Null => ~Room(Cell, s))
  BY DEF Writable
<1>2. From(s) <= From(t) /\ (t.here = Null => ~Room(Cell, t))
  BY <1>1, StateTyped, SizesTyped DEF From
<1> QED BY <1>2 DEF Writable, Compiled, Compiles

LEMMA PutCompiles ==
  ASSUME NEW s \in Writable, NEW v \in Value
  PROVE  /\ Put(v, s) \in Compiled(s)
         /\ Put(v, s).here \in {s.top, Null}
<1>1. s \in States /\ s.top \in Nat /\ s.here \in Nat /\ From(s) \in Nat
  BY StateTyped DEF Writable
<1>2. CASE s.here = Null
  BY <1>2, CompilesNothing DEF Put
<1>3. CASE s.here # Null
  <2> DEFINE u == Store(s.here, v, s)
  <2>1. /\ u \in States /\ u.top = s.top /\ u.here = s.here /\ u.cf = s.cf /\ u.c00 = s.c00
        /\ u.alive => s.alive
        /\ \A a \in Addresses \ {s.here} : CodeAt(a, u.mem) = CodeAt(a, s.mem)
    BY <1>1, StoreTyped
  <2> HIDE DEF u
  <2>2. /\ NewCell(u) \in Writable /\ u.top <= NewCell(u).top
        /\ NewCell(u).here \in {u.top, Null}
        /\ NewCell(u).cf = u.cf /\ NewCell(u).c00 = u.c00
        /\ NewCell(u).mem = u.mem /\ NewCell(u).alive = u.alive
    BY <2>1, NewCellTyped
  <2>3. Put(v, s) = NewCell(u)
    BY <1>3 DEF Put, u
  <2>4. From(s) <= From(NewCell(u)) /\ From(s) = s.here
    BY <1>1, <1>3, <2>1, <2>2, StateTyped DEF From, Writable
  <2>5. \A a \in Addresses : a >= From(s) \/ CodeAt(a, NewCell(u).mem) = CodeAt(a, s.mem)
    BY <1>1, <2>1, <2>2, <2>4
  <2> QED BY <1>3, <2>1, <2>2, <2>3, <2>4, <2>5 DEF Compiled, Compiles
<1> QED BY <1>2, <1>3

\* The equation by which Puts is defined has a solution.
LEMMA PutsDefined ==
  ASSUME NEW s \in Writable, NEW values \in Seq(Value)
  PROVE  /\ Puts(values, s) \in [0 .. Len(values) -> Compiled(s)]
         /\ Puts(values, s)[0] = s
         /\ \A n \in 1 .. Len(values) :
              Puts(values, s)[n] = Put(values[n], Puts(values, s)[n - 1])
<1> DEFINE N == Len(values)
           V == Compiled(s)
           G == [p \in (1 .. N) \X V |-> Put(values[p[1]], p[2])]
           Solves(f) == f = [n \in 0 .. N |-> IF n = 0 THEN s ELSE Put(values[n], f[n - 1])]
<1>1. N \in Nat /\ s \in V
  BY CompilesNothing
<1>2. \A n \in 1 .. N, v \in V : G[<<n, v>>] = Put(values[n], v) /\ G[<<n, v>>] \in V
  <2> SUFFICES ASSUME NEW n \in 1 .. N, NEW v \in V
               PROVE  Put(values[n], v) \in V
    OBVIOUS
  <2>1. v \in Writable /\ values[n] \in Value
    BY DEF Compiled
  <2> QED BY <2>1, PutCompiles, CompilesOn
<1> HIDE DEF G, N, V
<1>3. PICK f \in [0 .. N -> V] : f[0] = s /\ \A n \in 1 .. N : f[n] = G[<<n, f[n - 1]>>]
  <2>1. Steps(G, N, V)
    BY <1>2 DEF Steps
  <2>2. \E f \in [0 .. N -> V] : Follows(f, s, G, N)
    BY <1>1, <2>1, Defined
  <2> QED BY <2>2 DEF Follows
<1>4. \A n \in 1 .. N : f[n] = Put(values[n], f[n - 1])
  <2>1. \A n \in 1 .. N : n - 1 \in 0 .. N
    BY <1>1
  <2> QED BY <1>2, <1>3, <2>1
<1>5. Solves(f)
  <2>1. \A n \in 0 .. N : f[n] = IF n = 0 THEN s ELSE Put(values[n], f[n - 1])
    BY <1>1, <1>3, <1>4
  <2> QED BY <1>3, <2>1
<1>6. Puts(values, s) = CHOOSE g : Solves(g)
  BY DEF Puts, N
<1>7. Solves(Puts(values, s))
  BY <1>5, <1>6
<1> DEFINE p == Puts(values, s)
<1> HIDE DEF p
<1>8. p = [n \in 0 .. N |-> IF n = 0 THEN s ELSE Put(values[n], p[n - 1])]
  BY <1>7 DEF p
<1> HIDE DEF Solves
<1>9. p[0] = s /\ \A n \in 1 .. N : p[n] = Put(values[n], p[n - 1])
  BY <1>1, <1>8
<1>10. p \in [0 .. N -> V]
  <2> DEFINE S == {n \in 0 .. N : p[n] \in V}
  <2>1. 0 \in S
    BY <1>1, <1>9
  <2>2. ASSUME NEW n \in 0 .. N - 1, n \in S PROVE n + 1 \in S
    <3>1. n + 1 \in 1 .. N /\ (n + 1) - 1 = n /\ p[n] \in V
      BY <1>1, <2>2
    <3>2. p[n + 1] = Put(values[n + 1], p[n])
      BY <1>9, <3>1
    <3>3. Put(values[n + 1], p[n]) \in V
      BY <1>2, <3>1 DEF G
    <3> QED BY <1>1, <3>1, <3>2, <3>3
  <2> HIDE DEF S
  <2>3. 0 .. N \subseteq S
    <3>1. \A n \in 0 .. N - 1 : n \in S => n + 1 \in S
      BY <2>2
    <3> QED BY <1>1, <2>1, <3>1, Induct
  <2>4. \A n \in 0 .. N : p[n] \in V
    BY <2>3 DEF S
  <2> QED BY <1>8, <2>4
<1> QED BY <1>9, <1>10 DEF p, N, V

LEMMA PutAllCompiles ==
  ASSUME NEW s \in Writable, NEW values \in Seq(Value)
  PROVE  PutAll(values, s) \in Compiled(s)
<1>1. Len(values) \in 0 .. Len(values)
  OBVIOUS
<1> QED BY <1>1, PutsDefined DEF PutAll

-----------------------------------------------------------------------------
(* Data between operations, and the header of a definition.                *)

LEMMA SkippedCompiles ==
  ASSUME NEW s \in Writable
  PROVE  Skipped(s) \in Compiled(s) /\ StringAt(s) \in Value
<1> DEFINE skip == Put(OpCell("skip"), s)
           taken == Alloc(StringSize + 1, skip)
           copied == Store(skip.top, Chars, taken)
           aligned == Aligned(copied)
           v == Num(StringSize + 1 + aligned.top - copied.top)
<1>1. skip \in Compiled(s) /\ skip \in Writable /\ skip \in States
  <2>1. "skip" \in Ops
    BY DEF Ops
  <2>2. OpCell("skip") \in Value
    BY <2>1, ValuesTyped
  <2> QED BY <2>2, PutCompiles DEF Compiled, Writable
<1>2. skip.top \in Nat /\ From(skip) <= skip.top /\ From(skip) \in Nat
  BY <1>1, StateTyped
<1> HIDE DEF skip
<1>3. /\ taken \in States /\ skip.top <= taken.top /\ taken.here = skip.here
      /\ taken.cf = skip.cf /\ taken.c00 = skip.c00 /\ taken.mem = skip.mem
      /\ taken.alive => skip.alive
  BY <1>1, SizesTyped, AllocTyped
<1> HIDE DEF taken
<1>4. /\ copied \in States /\ copied.top = taken.top /\ copied.here = taken.here
      /\ copied.cf = taken.cf /\ copied.c00 = taken.c00
      /\ copied.alive => taken.alive
      /\ \A a \in Addresses \ {skip.top} : CodeAt(a, copied.mem) = CodeAt(a, taken.mem)
  BY <1>3, StoreTyped, ValuesTyped
<1> HIDE DEF copied
<1>5. /\ aligned \in States /\ copied.top <= aligned.top
      /\ copied.top \in Nat /\ aligned.top \in Nat
      /\ aligned = [copied EXCEPT !.top = aligned.top]
  BY <1>4, AlignedTyped, StateTyped
<1>6. /\ aligned.here = copied.here /\ aligned.cf = copied.cf /\ aligned.c00 = copied.c00
      /\ aligned.mem = copied.mem /\ aligned.alive = copied.alive
  <2> HIDE DEF aligned
  <2> QED BY <1>4, <1>5 DEF States
<1> HIDE DEF aligned
<1>7. aligned \in Compiled(skip)
  <2>1. skip.top <= aligned.top /\ aligned.here = skip.here /\ aligned.cf = skip.cf
        /\ aligned.c00 = skip.c00 /\ (aligned.alive => skip.alive)
    BY <1>2, <1>3, <1>4, <1>5, <1>6
  <2>2. \A a \in Addresses : a >= From(skip) \/ CodeAt(a, aligned.mem) = CodeAt(a, skip.mem)
    BY <1>2, <1>3, <1>4, <1>6
  <2> QED BY <1>1, <1>5, <2>1, <2>2, CompilesBeside
<1>8. aligned \in Compiled(s)
  BY <1>1, <1>7, CompilesOn
<1>9. aligned \in Writable /\ v \in Value
  BY <1>5, <1>8, SizesTyped, ValuesTyped DEF Compiled
<1>10. Put(v, aligned) \in Compiled(s)
  <2> HIDE DEF v
  <2> QED BY <1>8, <1>9, PutCompiles, CompilesOn
<1>11. Skipped(s) = Put(v, aligned)
  BY DEF Skipped, aligned, copied, taken, skip
<1>12. StringAt(s) \in Value
  BY <1>2, ValuesTyped DEF StringAt, skip
<1> QED BY <1>10, <1>11, <1>12

\* Aligning changes nothing but the index.
LEMMA AlignedKeeps ==
  ASSUME NEW s \in States
  PROVE  /\ Aligned(s) \in States /\ s.top <= Aligned(s).top
         /\ Aligned(s).here = s.here /\ Aligned(s).cf = s.cf /\ Aligned(s).c00 = s.c00
         /\ Aligned(s).mem = s.mem /\ Aligned(s).alive = s.alive
<1> DEFINE t == Aligned(s)
<1>1. t \in States /\ s.top <= t.top /\ t = [s EXCEPT !.top = t.top]
  BY AlignedTyped
<1> HIDE DEF t
<1>2. /\ t.here = s.here /\ t.cf = s.cf /\ t.c00 = s.c00 /\ t.mem = s.mem /\ t.alive = s.alive
  BY <1>1 DEF States
<1> QED BY <1>1, <1>2 DEF t

\* The first cell of a definition's code, behind its header.
LEMMA HeaderTyped ==
  ASSUME NEW s \in States, NEW named \in BOOLEAN
  PROVE  LET t == Header(named, s)
         IN  /\ t \in Writable /\ s.top <= t.top /\ t.here <= From(t)
             /\ t.mem = s.mem /\ t.cf = s.cf /\ t.c00 = s.c00 /\ (t.alive => s.alive)
<1> DEFINE name == IF named THEN Aligned(Alloc(NameSize, Aligned(s))) ELSE Aligned(s)
           word == Aligned(Alloc(WordSize, name))
           t == NewCell(word)
<1>1. /\ name \in States /\ s.top <= name.top
      /\ name.mem = s.mem /\ name.cf = s.cf /\ name.c00 = s.c00 /\ (name.alive => s.alive)
  <2> DEFINE a == Aligned(s)
             b == Alloc(NameSize, a)
  <2>1. /\ a \in States /\ s.top <= a.top
        /\ a.mem = s.mem /\ a.cf = s.cf /\ a.c00 = s.c00 /\ a.alive = s.alive
    BY AlignedKeeps
  <2>2. name = IF named THEN Aligned(b) ELSE a
    OBVIOUS
  <2> HIDE DEF a, name
  <2>3. /\ b \in States /\ a.top <= b.top
        /\ b.mem = a.mem /\ b.cf = a.cf /\ b.c00 = a.c00 /\ (b.alive => a.alive)
    BY <2>1, SizesTyped, AllocTyped
  <2> HIDE DEF b
  <2>4. /\ Aligned(b) \in States /\ b.top <= Aligned(b).top
        /\ Aligned(b).mem = b.mem /\ Aligned(b).cf = b.cf /\ Aligned(b).c00 = b.c00
        /\ Aligned(b).alive = b.alive
    BY <2>3, AlignedKeeps
  <2>5. s.top \in Nat /\ a.top \in Nat /\ b.top \in Nat /\ Aligned(b).top \in Nat
    BY <2>1, <2>3, <2>4, StateTyped
  <2> QED BY <2>1, <2>2, <2>3, <2>4, <2>5
<1> HIDE DEF name
<1>2. /\ word \in States /\ name.top <= word.top
      /\ word.mem = name.mem /\ word.cf = name.cf /\ word.c00 = name.c00
      /\ word.alive => name.alive
  <2> DEFINE b == Alloc(WordSize, name)
  <2>1. /\ b \in States /\ name.top <= b.top
        /\ b.mem = name.mem /\ b.cf = name.cf /\ b.c00 = name.c00 /\ (b.alive => name.alive)
    BY <1>1, SizesTyped, AllocTyped
  <2> HIDE DEF b
  <2>2. /\ Aligned(b) \in States /\ b.top <= Aligned(b).top
        /\ Aligned(b).mem = b.mem /\ Aligned(b).cf = b.cf /\ Aligned(b).c00 = b.c00
        /\ Aligned(b).alive = b.alive
    BY <2>1, AlignedKeeps
  <2>3. name.top \in Nat /\ b.top \in Nat /\ Aligned(b).top \in Nat
    BY <1>1, <2>1, <2>2, StateTyped
  <2> QED BY <2>1, <2>2, <2>3 DEF b
<1> HIDE DEF word
<1>3. /\ t \in Writable /\ word.top <= t.top /\ t.here \in {word.top, Null}
      /\ t.cf = word.cf /\ t.c00 = word.c00 /\ t.mem = word.mem /\ t.alive = word.alive
  BY <1>2, NewCellTyped
<1>4. t \in States /\ s.top \in Nat /\ name.top \in Nat /\ word.top \in Nat /\ t.top \in Nat
  BY <1>1, <1>2, <1>3, StateTyped DEF Writable
<1>5. t.here <= From(t)
  BY <1>4, StateTyped DEF From, Null
<1>6. Header(named, s) = t
  BY DEF Header, name, word
<1> HIDE DEF t
<1> QED BY <1>1, <1>2, <1>3, <1>4, <1>5, <1>6

-----------------------------------------------------------------------------
(* Texts.                                                                  *)

Kinds == Seq(TokenKinds)

\* Every token is accepted where it is.
Sentence(t) == \A k \in 1 .. Len(t) : Promise!Accepts(Promise!Nests(t)[k - 1], t[k][1])

\* A text that opens and closes its own constructs only.
Balanced(t) == Sentence(t) /\ Promise!Nest(t) = << >>

LEMMA FrontLast ==
  ASSUME NEW S, NEW s \in Seq(S), NEW e \in S
  PROVE  /\ Append(s, e) # << >>
         /\ Promise!Front(Append(s, e)) = s /\ Promise!Last(Append(s, e)) = e
         /\ Front(Append(s, e)) = s /\ Last(Append(s, e)) = e
<1> DEFINE t == Append(s, e)
<1>1. /\ t \in Seq(S) /\ t # << >> /\ Len(t) = Len(s) + 1 /\ Len(s) \in Nat
      /\ \A i \in 1 .. Len(s) : t[i] = s[i]
      /\ t[Len(s) + 1] = e
  BY AppendProperties
<1> HIDE DEF t
<1>2. SubSeq(t, 1, Len(t) - 1) = s
  <2>1. \A i \in 1 .. Len(s) : t[i] \in S
    BY <1>1
  <2>2. /\ SubSeq(t, 1, Len(s)) \in Seq(S) /\ Len(SubSeq(t, 1, Len(s))) = Len(s)
        /\ \A i \in 1 .. Len(s) : SubSeq(t, 1, Len(s))[i] = t[i]
    BY <1>1, <2>1, SubSeqProperties
  <2>3. SubSeq(t, 1, Len(s)) = s
    BY <1>1, <2>2, SeqEqual
  <2> QED BY <1>1, <2>3
<1>3. t[Len(t)] = e
  BY <1>1
<1> QED BY <1>1, <1>2, <1>3 DEF t, Promise!Front, Promise!Last, Front, Last

\* Front of nothing is nothing.
LEMMA FrontTyped ==
  ASSUME NEW S, NEW s \in Seq(S)
  PROVE  Promise!Front(s) \in Seq(S)
<1>1. CASE s = << >>
  <2>1. SubSeq(s, 1, Len(s) - 1) = << >>
    BY <1>1, SubSeqEmpty
  <2> QED BY <2>1 DEF Promise!Front
<1>2. CASE s # << >>
  <2>1. PICK f \in Seq(S), e \in S : s = Append(f, e)
    BY <1>2, SequenceEmptyOrAppend
  <2> QED BY <2>1, FrontLast
<1> QED BY <1>1, <1>2

LEMMA NestedTyped ==
  ASSUME NEW nest \in Kinds, NEW token \in Tokens
  PROVE  Promise!Nested(nest, token) \in Kinds
<1>1. Promise!Front(nest) \in Kinds
  BY FrontTyped DEF Kinds
<1>2. Promise!Kind(token) \in TokenKinds
  BY DEF Promise!Kind, Tokens
<1>3. /\ Append(nest, Promise!Kind(token)) \in Kinds
      /\ Append(Promise!Front(nest), Promise!Kind(token)) \in Kinds
  BY <1>1, <1>2 DEF Kinds
<1> QED BY <1>1, <1>3 DEF Promise!Nested

LEMMA NestsDefined ==
  ASSUME NEW t \in Seq(Tokens)
  PROVE  /\ Promise!Nests(t) \in [0 .. Len(t) -> Kinds]
         /\ Promise!Nests(t)[0] = << >>
         /\ \A n \in 1 .. Len(t) :
              Promise!Nests(t)[n] = Promise!Nested(Promise!Nests(t)[n - 1], t[n])
<1> DEFINE N == Len(t)
           G == [p \in (1 .. N) \X Kinds |-> Promise!Nested(p[2], t[p[1]])]
           Solves(f) ==
             f = [n \in 0 .. N |-> IF n = 0 THEN << >> ELSE Promise!Nested(f[n - 1], t[n])]
<1>1. N \in Nat /\ << >> \in Kinds
  BY DEF Kinds
<1>2. \A n \in 1 .. N, v \in Kinds : G[<<n, v>>] = Promise!Nested(v, t[n]) /\ G[<<n, v>>] \in Kinds
  <2> SUFFICES ASSUME NEW n \in 1 .. N, NEW v \in Kinds
               PROVE  Promise!Nested(v, t[n]) \in Kinds
    OBVIOUS
  <2>1. t[n] \in Tokens
    OBVIOUS
  <2> QED BY <2>1, NestedTyped
<1> HIDE DEF G, N
<1>3. PICK f \in [0 .. N -> Kinds] : f[0] = << >> /\ \A n \in 1 .. N : f[n] = G[<<n, f[n - 1]>>]
  <2>1. Steps(G, N, Kinds)
    BY <1>2 DEF Steps
  <2> DEFINE e == << >>
  <2>2. e \in Kinds
    BY <1>1
  <2> HIDE DEF e
  <2>3. \E f \in [0 .. N -> Kinds] : Follows(f, e, G, N)
    BY <1>1, <2>1, <2>2, Defined
  <2> QED BY <2>3 DEF Follows, e
<1>4. \A n \in 1 .. N : f[n] = Promise!Nested(f[n - 1], t[n])
  <2>1. \A n \in 1 .. N : n - 1 \in 0 .. N
    BY <1>1
  <2> QED BY <1>2, <1>3, <2>1
<1>5. Solves(f)
  <2>1. \A n \in 0 .. N : f[n] = IF n = 0 THEN << >> ELSE Promise!Nested(f[n - 1], t[n])
    BY <1>1, <1>3, <1>4
  <2> QED BY <1>3, <2>1
<1>6. Promise!Nests(t) = CHOOSE g : Solves(g)
  BY DEF Promise!Nests, N
<1>7. Solves(Promise!Nests(t))
  BY <1>5, <1>6
<1> DEFINE p == Promise!Nests(t)
<1> HIDE DEF p
<1>8. p = [n \in 0 .. N |-> IF n = 0 THEN << >> ELSE Promise!Nested(p[n - 1], t[n])]
  BY <1>7 DEF p
<1> HIDE DEF Solves
<1>9. p[0] = << >> /\ \A n \in 1 .. N : p[n] = Promise!Nested(p[n - 1], t[n])
  BY <1>1, <1>8
<1>10. p \in [0 .. N -> Kinds]
  <2> DEFINE S == {n \in 0 .. N : p[n] \in Kinds}
  <2>1. 0 \in S
    BY <1>1, <1>9
  <2>2. ASSUME NEW n \in 0 .. N - 1, n \in S PROVE n + 1 \in S
    <3>1. n + 1 \in 1 .. N /\ (n + 1) - 1 = n /\ p[n] \in Kinds
      BY <1>1, <2>2
    <3>2. p[n + 1] = Promise!Nested(p[n], t[n + 1])
      BY <1>9, <3>1
    <3>3. Promise!Nested(p[n], t[n + 1]) \in Kinds
      BY <1>2, <3>1 DEF G
    <3> QED BY <1>1, <3>1, <3>2, <3>3
  <2> HIDE DEF S
  <2>3. 0 .. N \subseteq S
    <3>1. \A n \in 0 .. N - 1 : n \in S => n + 1 \in S
      BY <2>2
    <3> QED BY <1>1, <2>1, <3>1, Induct
  <2>4. \A n \in 0 .. N : p[n] \in Kinds
    BY <2>3 DEF S
  <2> QED BY <1>8, <2>4
<1> QED BY <1>9, <1>10 DEF p, N

\* What is open below a token makes no difference to one that is accepted.
LEMMA NestedOn ==
  ASSUME NEW below \in Kinds, NEW nest \in Kinds, NEW token \in Tokens,
         Promise!Accepts(nest, Promise!Kind(token))
  PROVE  /\ Promise!Accepts(below \o nest, Promise!Kind(token))
         /\ Promise!Nested(below \o nest, token) = below \o Promise!Nested(nest, token)
<1> DEFINE kind == Promise!Kind(token)
           all == below \o nest
<1>1. kind \in TokenKinds /\ all \in Kinds /\ Len(all) = Len(below) + Len(nest)
      /\ Len(below) \in Nat /\ Len(nest) \in Nat
  BY DEF Kinds, Promise!Kind, Tokens
<1> HIDE DEF kind
<1>2. CASE nest = << >>
  <2>1. all = below
    BY <1>2, ConcatEmptySeq DEF Kinds
  <2>2. kind \notin {"else", "then", "while", "repeat"}
    BY <1>2 DEF Promise!Accepts, kind
  <2>3. /\ Promise!Nested(nest, token) =
             IF kind \in {"if", "begin"} THEN Append(<< >>, kind) ELSE << >>
        /\ Promise!Nested(below, token) =
             IF kind \in {"if", "begin"} THEN Append(below, kind) ELSE below
    BY <1>2, <2>2 DEF Promise!Nested, kind
  <2>4. below \o Append(<< >>, kind) = Append(below, kind) /\ below \o << >> = below
    <3>1. below \in Seq(TokenKinds) /\ Append(<< >>, kind) = << kind >>
      BY <1>1 DEF Kinds
    <3> QED BY <1>1, <3>1, AppendIsConcat, ConcatEmptySeq
  <2> QED BY <2>1, <2>2, <2>3, <2>4 DEF Promise!Accepts, kind
<1>3. CASE nest # << >>
  <2>0. PICK front \in Kinds, e \in TokenKinds : nest = Append(front, e)
    BY <1>3, SequenceEmptyOrAppend DEF Kinds
  <2>1. \A n \in Kinds : Append(below \o n, kind) = below \o Append(n, kind)
                         /\ Append(below \o n, e) = below \o Append(n, e)
    <3> SUFFICES ASSUME NEW n \in Kinds, NEW k \in {kind, e}
                 PROVE  Append(below \o n, k) = below \o Append(n, k)
      OBVIOUS
    <3>1. /\ k \in TokenKinds /\ below \in Seq(TokenKinds) /\ n \in Seq(TokenKinds)
          /\ << k >> \in Seq(TokenKinds)
      BY <1>1 DEF Kinds
    <3>2. below \o n \in Seq(TokenKinds)
      BY <3>1, ConcatProperties
    <3>3. Append(below \o n, k) = (below \o n) \o << k >> /\ Append(n, k) = n \o << k >>
      BY <3>1, <3>2, AppendIsConcat
    <3>4. (below \o n) \o << k >> = below \o (n \o << k >>)
      <4> DEFINE x == << k >>
      <4>1. x \in Seq(TokenKinds)
        BY <3>1
      <4> HIDE DEF x
      <4>2. (below \o n) \o x = below \o (n \o x)
        BY <3>1, <4>1, ConcatAssociative
      <4> QED BY <4>2 DEF x
    <3> QED BY <3>3, <3>4
  <2>2. below \o front \in Kinds
    BY ConcatProperties DEF Kinds
  <2>3. all = Append(below \o front, e)
    BY <2>0, <2>1
  <2>4. /\ all # << >> /\ Promise!Last(all) = e /\ Promise!Front(all) = below \o front
        /\ Promise!Last(nest) = e /\ Promise!Front(nest) = front
    <3>1. \A f \in Seq(TokenKinds), e2 \in TokenKinds :
            /\ Append(f, e2) # << >>
            /\ Promise!Front(Append(f, e2)) = f /\ Promise!Last(Append(f, e2)) = e2
      BY FrontLast
    <3> HIDE DEF all
    <3> QED BY <2>0, <2>2, <2>3, <3>1 DEF Kinds
  <2> HIDE DEF all
  <2>5. Promise!Accepts(all, kind)
    BY <1>3, <2>4 DEF Promise!Accepts, kind
  <2>6. Promise!Nested(all, token) = below \o Promise!Nested(nest, token)
    <3>1. /\ Append(all, kind) = below \o Append(nest, kind)
          /\ Append(below \o front, kind) = below \o Append(front, kind)
      BY <2>1 DEF all
    <3> QED BY <2>4, <3>1 DEF Promise!Nested, kind, all
  <2> QED BY <2>5, <2>6 DEF kind, all
<1> QED BY <1>2, <1>3

\* What is open at a token does not depend on what follows.
LEMMA NestsBefore ==
  ASSUME NEW t \in Seq(Tokens), NEW u \in Seq(Tokens)
  PROVE  \A n \in 0 .. Len(t) : Promise!Nests(t \o u)[n] = Promise!Nests(t)[n]
<1> DEFINE all == t \o u
           N == Len(t)
           p == Promise!Nests(all)
           q == Promise!Nests(t)
           S == {n \in 0 .. N : p[n] = q[n]}
<1>1. /\ all \in Seq(Tokens) /\ Len(all) = N + Len(u) /\ N \in Nat /\ Len(u) \in Nat
      /\ \A n \in 1 .. N : all[n] = t[n]
  BY ConcatProperties
<1> HIDE DEF all
<1>2. p[0] = << >> /\ \A n \in 1 .. Len(all) : p[n] = Promise!Nested(p[n - 1], all[n])
  BY <1>1, NestsDefined
<1>3. q[0] = << >> /\ \A n \in 1 .. N : q[n] = Promise!Nested(q[n - 1], t[n])
  BY NestsDefined
<1> HIDE DEF p, q, N
<1>4. 0 \in S
  BY <1>1, <1>2, <1>3
<1>5. ASSUME NEW n \in 0 .. N - 1, n \in S PROVE n + 1 \in S
  <2>1. n + 1 \in 1 .. N /\ n + 1 \in 1 .. Len(all) /\ (n + 1) - 1 = n
    BY <1>1
  <2>2. p[n + 1] = Promise!Nested(p[n], all[n + 1]) /\ q[n + 1] = Promise!Nested(q[n], t[n + 1])
    BY <1>2, <1>3, <2>1
  <2>3. p[n + 1] = q[n + 1]
    BY <1>1, <1>5, <2>1, <2>2
  <2> QED BY <2>1, <2>3
<1> HIDE DEF S
<1>6. 0 .. N \subseteq S
  <2>1. \A n \in 0 .. N - 1 : n \in S => n + 1 \in S
    BY <1>5
  <2> QED BY <1>1, <1>4, <2>1, Induct
<1> QED BY <1>6 DEF S, p, q, N, all

\* A sentence stays one with a token that is accepted behind it.
LEMMA TextAdd ==
  ASSUME NEW t \in Seq(Tokens), Sentence(t), NEW x \in Tokens,
         Promise!Accepts(Promise!Nest(t), Promise!Kind(x))
  PROVE  /\ Sentence(t \o << x >>)
         /\ Promise!Nest(t \o << x >>) = Promise!Nested(Promise!Nest(t), x)
<1> DEFINE u == << x >>
           all == t \o u
           N == Len(t)
<1>1. u \in Seq(Tokens) /\ Len(u) = 1 /\ u[1] = x
  OBVIOUS
<1> HIDE DEF u
<1>2. /\ all \in Seq(Tokens) /\ Len(all) = N + 1 /\ N \in Nat
      /\ \A n \in 1 .. N : all[n] = t[n]
      /\ all[N + 1] = x
  BY <1>1, ConcatProperties
<1>3. \A n \in 0 .. N : Promise!Nests(all)[n] = Promise!Nests(t)[n]
  BY <1>1, NestsBefore
<1> HIDE DEF all
<1>4. /\ Promise!Nests(t)[N] = Promise!Nest(t) /\ Promise!Nests(all)[N + 1] = Promise!Nest(all)
      /\ Promise!Kind(x) = x[1]
  BY <1>2 DEF Promise!Nest, Promise!Kind
<1>5. Promise!Nests(all)[N + 1] = Promise!Nested(Promise!Nests(all)[(N + 1) - 1], all[N + 1])
  BY <1>2, NestsDefined
<1>6. Promise!Nest(all) = Promise!Nested(Promise!Nest(t), x)
  BY <1>2, <1>3, <1>4, <1>5
<1>7. ASSUME NEW k \in 1 .. Len(all) PROVE Promise!Accepts(Promise!Nests(all)[k - 1], all[k][1])
  <2>1. CASE k = N + 1
    BY <1>2, <1>3, <1>4, <2>1
  <2>2. CASE k # N + 1
    <3>1. k \in 1 .. N /\ k - 1 \in 0 .. N
      BY <1>2, <2>2
    <3> QED BY <1>2, <1>3, <3>1 DEF Sentence
  <2> QED BY <2>1, <2>2
<1> QED BY <1>6, <1>7 DEF Sentence, all, u

\* Sentences behind one another are a sentence.
LEMMA TextOn ==
  ASSUME NEW t \in Seq(Tokens), Sentence(t), NEW u \in Seq(Tokens), Sentence(u)
  PROVE  /\ Sentence(t \o u)
         /\ Promise!Nest(t \o u) = Promise!Nest(t) \o Promise!Nest(u)
<1> DEFINE all == t \o u
           N == Len(t)
           M == Len(u)
           p == Promise!Nests(all)
           q == Promise!Nests(u)
           below == Promise!Nest(t)
           S == {n \in 0 .. M : p[N + n] = below \o q[n]}
<1>1. /\ all \in Seq(Tokens) /\ Len(all) = N + M /\ N \in Nat /\ M \in Nat
      /\ \A n \in 1 .. N : all[n] = t[n]
      /\ \A n \in 1 .. M : all[N + n] = u[n]
  BY ConcatProperties
<1>2. \A n \in 0 .. N : p[n] = Promise!Nests(t)[n]
  BY NestsBefore
<1> HIDE DEF all
<1>3. \A n \in 1 .. N + M : p[n] = Promise!Nested(p[n - 1], all[n])
  BY <1>1, NestsDefined
<1>4. /\ q \in [0 .. M -> Kinds] /\ q[0] = << >>
      /\ \A n \in 1 .. M : q[n] = Promise!Nested(q[n - 1], u[n])
  BY NestsDefined
<1>5. below \in Kinds /\ p[N] = below
  <2>1. N \in 0 .. N
    BY <1>1
  <2> QED BY <1>2, <2>1, NestsDefined DEF Promise!Nest
<1>6. \A n \in 1 .. M : u[n] \in Tokens /\ Promise!Accepts(q[n - 1], Promise!Kind(u[n]))
  BY <1>1 DEF Sentence, Promise!Kind
<1>7. Promise!Nest(all) = p[N + M] /\ Promise!Nest(u) = q[M]
  BY <1>1 DEF Promise!Nest
<1> HIDE DEF N, M, p, q, below
<1>8. 0 \in S
  <2>1. below \o << >> = below
    BY <1>5, ConcatEmptySeq DEF Kinds
  <2>2. N + 0 = N /\ 0 \in 0 .. M
    BY <1>1
  <2> QED BY <1>4, <1>5, <2>1, <2>2
<1>9. ASSUME NEW n \in 0 .. M - 1, p[N + n] = below \o q[n]
      PROVE  /\ Promise!Accepts(p[N + n], Promise!Kind(u[n + 1]))
             /\ p[N + (n + 1)] = below \o q[n + 1]
  <2>1. n + 1 \in 1 .. M /\ (n + 1) - 1 = n /\ n \in 0 .. M /\ N + (n + 1) \in 1 .. N + M
        /\ (N + (n + 1)) - 1 = N + n
    BY <1>1
  <2>2. /\ u[n + 1] \in Tokens /\ Promise!Accepts(q[n], Promise!Kind(u[n + 1])) /\ q[n] \in Kinds
        /\ q[n + 1] = Promise!Nested(q[n], u[n + 1])
    BY <1>4, <1>6, <2>1
  <2>3. p[N + (n + 1)] = Promise!Nested(p[N + n], u[n + 1])
    BY <1>1, <1>3, <2>1
  <2>4. /\ Promise!Accepts(below \o q[n], Promise!Kind(u[n + 1]))
        /\ Promise!Nested(below \o q[n], u[n + 1]) = below \o Promise!Nested(q[n], u[n + 1])
    BY <1>5, <2>2, NestedOn
  <2> QED BY <1>9, <2>2, <2>3, <2>4
<1>10. 0 .. M \subseteq S
  <2>1. ASSUME NEW n \in 0 .. M - 1, n \in S PROVE n + 1 \in S
    <3>1. n + 1 \in 0 .. M /\ p[N + n] = below \o q[n]
      BY <1>1, <2>1
    <3> QED BY <1>9, <3>1
  <2> HIDE DEF S
  <2>2. \A n \in 0 .. M - 1 : n \in S => n + 1 \in S
    BY <2>1
  <2> QED BY <1>1, <1>8, <2>2, Induct
<1>11. \A n \in 0 .. M : p[N + n] = below \o q[n]
  BY <1>10
<1>12. ASSUME NEW k \in 1 .. Len(all) PROVE Promise!Accepts(p[k - 1], all[k][1])
  <2>1. CASE k <= N
    <3>1. k \in 1 .. N /\ k - 1 \in 0 .. N
      BY <1>1, <2>1
    <3> QED BY <1>1, <1>2, <3>1 DEF Sentence, N
  <2>2. CASE k > N
    <3> DEFINE n == k - N - 1
    <3>1. n \in 0 .. M - 1 /\ n \in 0 .. M /\ n + 1 \in 1 .. M /\ N + n = k - 1 /\ N + (n + 1) = k
      BY <1>1, <2>2
    <3> HIDE DEF n
    <3>2. Promise!Accepts(p[k - 1], Promise!Kind(u[n + 1])) /\ u[n + 1] = all[k]
      BY <1>1, <1>9, <1>11, <3>1
    <3> QED BY <3>2 DEF Promise!Kind
  <2> QED BY <1>1, <2>1, <2>2
<1>13. Promise!Nest(all) = below \o Promise!Nest(u)
  <2>1. M \in 0 .. M
    BY <1>1
  <2> QED BY <1>7, <1>11, <2>1
<1> QED BY <1>12, <1>13 DEF Sentence, all, p, below

\* Tokens that are no control flow open nothing.
LEMMA PlainText ==
  ASSUME NEW u \in Seq(Tokens), \A k \in 1 .. Len(u) : u[k][1] \notin ControlKinds
  PROVE  Balanced(u)
<1> DEFINE M == Len(u)
           q == Promise!Nests(u)
           S == {n \in 0 .. M : q[n] = << >>}
<1>1. M \in Nat /\ q[0] = << >> /\ \A n \in 1 .. M : q[n] = Promise!Nested(q[n - 1], u[n])
  BY NestsDefined
<1>2. \A n \in 1 .. M : \A nest : /\ Promise!Nested(nest, u[n]) = nest
                                  /\ Promise!Accepts(nest, u[n][1])
  BY DEF Promise!Nested, Promise!Accepts, Promise!Kind, ControlKinds
<1>3. Promise!Nest(u) = q[M]
  BY DEF Promise!Nest
<1> HIDE DEF M, q
<1>4. 0 \in S
  BY <1>1
<1>5. ASSUME NEW n \in 0 .. M - 1, n \in S PROVE n + 1 \in S
  <2>1. n + 1 \in 1 .. M /\ (n + 1) - 1 = n /\ n + 1 \in 0 .. M
    BY <1>1
  <2>2. q[n + 1] = Promise!Nested(q[n], u[n + 1])
    BY <1>1, <2>1
  <2>3. Promise!Nested(q[n], u[n + 1]) = q[n]
    BY <1>2, <2>1
  <2>4. q[n] = << >>
    BY <1>5
  <2> QED BY <2>1, <2>2, <2>3, <2>4
<1>6. 0 .. M \subseteq S
  <2>1. \A n \in 0 .. M - 1 : n \in S => n + 1 \in S
    BY <1>5
  <2> HIDE DEF S
  <2> QED BY <1>1, <1>4, <2>1, Induct
<1>7. q[M] = << >>
  BY <1>1, <1>6
<1> QED BY <1>2, <1>3, <1>7 DEF Balanced, Sentence, M, q
-----------------------------------------------------------------------------
(* The invariant.                                                          *)

\* The addresses that the open constructs left: WHILE's is above BEGIN's.
Owed(nest) == Len(nest) + Cardinality({i \in DOMAIN nest : nest[i] = "while"})

\* An address in the code of the definition, or none when its memory ran out.
Mine(a, h, start) ==
  /\ h # Null => a # Null
  /\ a # Null => start <= a /\ (h # Null => a <= h)

\* The newest n addresses of a stack are.
Mines(n, stack, h, start) ==
  /\ Len(stack) >= n
  /\ \A i \in DOMAIN stack : i > Len(stack) - n => Mine(stack[i], h, start)

Owns(nest, s, start) == Mines(Owed(nest), s.cf, s.here, start)

Start == Last(words).start

Typed ==
  /\ Now \in States
  /\ words \in Seq([start : Places, inline : BOOLEAN, done : BOOLEAN, body : Seq(Tokens)])
  /\ interp \in {"interpret", "compile"} /\ failed \in {"no", "typo", "word"}
  /\ text = Closed \/ text \in Seq(Tokens)

Grammar ==
  /\ text # Closed => Sentence(text)
  /\ \A i \in DOMAIN words : words[i].done => Balanced(words[i].body)

Mode ==
  /\ interp = "compile" => text # Closed
  /\ text # Closed => words # << >>

\* What is compiled goes behind the start of the definition.
Newest == text # Closed => Now \in Writable /\ Start <= From(Now)

Own == text # Closed /\ alive => Owns(Promise!Nest(text), Now, Start)

IInv == Typed /\ Grammar /\ Mode /\ Newest /\ Own

\* Nothing is written below the start of the definition.
Below(m, n, start) ==
  start # Null => \A a \in Addresses : a >= start \/ CodeAt(a, n) = CodeAt(a, m)

WritesStep ==
  \A a \in DOMAIN mem' :
    CodeAt(a, mem) # mem'[a] =>
      words # << >> /\ (Last(words).start = Null \/ a >= Last(words).start)

LEMMA OwedAdd ==
  ASSUME NEW nest \in Kinds, NEW kind \in TokenKinds
  PROVE  /\ Owed(nest) \in Nat /\ Len(nest) \in Nat /\ Len(nest) <= Owed(nest)
         /\ Owed(Append(nest, kind)) = Owed(nest) + (IF kind = "while" THEN 2 ELSE 1)
<1> DEFINE all == Append(nest, kind)
           N == Len(nest)
           W == {i \in 1 .. N : nest[i] = "while"}
           V == {i \in 1 .. N + 1 : all[i] = "while"}
<1>1. /\ N \in Nat /\ Len(all) = N + 1 /\ all[N + 1] = kind
      /\ DOMAIN nest = 1 .. N /\ DOMAIN all = 1 .. N + 1
      /\ \A i \in 1 .. N : all[i] = nest[i]
  BY DEF Kinds
<1> HIDE DEF all, N
<1>2. IsFiniteSet(W) /\ Cardinality(W) \in Nat
  <2>1. IsFiniteSet(1 .. N)
    BY <1>1, FS_Interval
  <2> QED BY <2>1, FS_Subset, FS_CardinalityType
<1>3. Owed(nest) = N + Cardinality(W) /\ Owed(all) = (N + 1) + Cardinality(V)
  BY <1>1 DEF Owed, N
<1>4. V = IF kind = "while" THEN W \cup {N + 1} ELSE W
  BY <1>1
<1>5. N + 1 \notin W
  BY <1>1
<1>6. Cardinality(W \cup {N + 1}) = Cardinality(W) + 1
  BY <1>2, <1>5, FS_AddElement
<1> HIDE DEF W, V
<1> QED BY <1>1, <1>2, <1>3, <1>4, <1>6 DEF N, all

LEMMA OwedNone == Owed(<< >>) = 0
<1>1. {i \in DOMAIN << >> : << >>[i] = "while"} = {} /\ Len(<< >>) = 0
  OBVIOUS
<1> QED BY <1>1, FS_EmptySet DEF Owed

\* The record of the state becomes s.
LEMMA BecomesNow ==
  ASSUME NEW s \in States, Becomes(s)
  PROVE  Now' = s
  BY DEF Becomes, Now, States

LEMMA NestTyped ==
  ASSUME NEW t \in Seq(Tokens)
  PROVE  Promise!Nest(t) \in Kinds
<1>1. Len(t) \in 0 .. Len(t)
  OBVIOUS
<1> QED BY <1>1, NestsDefined DEF Promise!Nest

\* Cells are handed out upwards, or not any more.
Later(g, h) == (g = Null => h = Null) /\ (h = Null \/ g <= h)

\* An address stays the definition's while it is compiled on.
LEMMA MineOn ==
  ASSUME NEW g \in Places, NEW h \in Places, NEW start \in Nat, Later(g, h),
         NEW a \in Places, Mine(a, g, start)
  PROVE  Mine(a, h, start)
<1>1. a \in Nat /\ g \in Nat /\ h \in Nat
  BY SizesTyped DEF Places, Null
<1> QED BY <1>1 DEF Mine, Later

LEMMA MinesOn ==
  ASSUME NEW g \in Places, NEW h \in Places, NEW start \in Nat, Later(g, h),
         NEW stack \in Seq(Places), NEW n \in Nat, Mines(n, stack, g, start)
  PROVE  Mines(n, stack, h, start)
<1>1. \A i \in DOMAIN stack : stack[i] \in Places
  OBVIOUS
<1> QED BY <1>1, MineOn DEF Mines

LEMMA OwnsOn ==
  ASSUME NEW s \in States, NEW t \in States, NEW start \in Nat, NEW nest \in Kinds,
         Later(s.here, t.here), t.cf = s.cf, Owns(nest, s, start)
  PROVE  Owns(nest, t, start)
<1>1. Owed(nest) \in Nat /\ s.here \in Places /\ t.here \in Places /\ s.cf \in Seq(Places)
  <2>1. \E kind : kind \in TokenKinds
    BY DEF TokenKinds
  <2> QED BY <2>1, OwedAdd, StateTyped
<1> QED BY <1>1, MinesOn DEF Owns

LEMMA MinesPush ==
  ASSUME NEW stack \in Seq(Places), NEW n \in Nat, NEW h, NEW start, NEW a \in Places,
         Mines(n, stack, h, start), Mine(a, h, start)
  PROVE  Mines(n + 1, Append(stack, a), h, start)
<1> DEFINE all == Append(stack, a)
<1>1. /\ Len(stack) \in Nat /\ Len(all) = Len(stack) + 1 /\ all[Len(stack) + 1] = a
      /\ DOMAIN stack = 1 .. Len(stack) /\ DOMAIN all = 1 .. Len(all)
      /\ \A i \in 1 .. Len(stack) : all[i] = stack[i]
  OBVIOUS
<1> HIDE DEF all
<1>2. ASSUME NEW i \in DOMAIN all, i > Len(all) - (n + 1) PROVE Mine(all[i], h, start)
  <2>1. CASE i = Len(stack) + 1
    BY <1>1, <2>1
  <2>2. CASE i # Len(stack) + 1
    BY <1>1, <1>2, <2>2 DEF Mines
  <2> QED BY <2>1, <2>2
<1> QED BY <1>1, <1>2 DEF Mines, all

LEMMA MinesPop ==
  ASSUME NEW stack \in Seq(Places), NEW n \in Nat, NEW h, NEW start, NEW a \in Places,
         Mines(n + 1, Append(stack, a), h, start)
  PROVE  Mine(a, h, start) /\ Mines(n, stack, h, start)
<1> DEFINE all == Append(stack, a)
<1>1. /\ Len(stack) \in Nat /\ Len(all) = Len(stack) + 1 /\ all[Len(stack) + 1] = a
      /\ DOMAIN stack = 1 .. Len(stack) /\ DOMAIN all = 1 .. Len(all)
      /\ \A i \in 1 .. Len(stack) : all[i] = stack[i]
  OBVIOUS
<1>2. Mines(n + 1, all, h, start)
  OBVIOUS
<1> HIDE DEF all
<1> QED BY <1>1, <1>2 DEF Mines

\* What is owed is on the stack.
LEMMA MinesSome ==
  ASSUME NEW stack \in Seq(Places), NEW n \in Nat, NEW h, NEW start, Mines(n + 1, stack, h, start)
  PROVE  \E f \in Seq(Places), a \in Places :
           stack = Append(f, a) /\ Mine(a, h, start) /\ Mines(n, f, h, start)
<1>1. stack # << >>
  BY DEF Mines
<1>2. PICK f \in Seq(Places), a \in Places : stack = Append(f, a)
  BY <1>1, SequenceEmptyOrAppend
<1> QED BY <1>2, MinesPop

\* What compiling means for the order of addresses.
LEMMA CompiledHere ==
  ASSUME NEW s \in Writable, NEW t \in Compiled(s)
  PROVE  /\ s \in States /\ t \in States /\ t \in Writable
         /\ Later(s.here, t.here)
         /\ From(s) <= From(t) /\ s.top <= t.top /\ t.cf = s.cf /\ t.c00 = s.c00
         /\ t.alive => s.alive
         /\ \A a \in Addresses : a >= From(s) \/ CodeAt(a, t.mem) = CodeAt(a, s.mem)
<1>1. s \in States /\ t \in States /\ t \in Writable /\ Compiles(s, t)
  BY DEF Writable, Compiled
<1>2. s.here \in Nat /\ t.here \in Nat
  BY <1>1, StateTyped
<1> QED BY <1>1, <1>2 DEF Compiles, From, Later

\* What IInv says of an open definition.
LEMMA Opened ==
  ASSUME IInv, text # Closed
  PROVE  /\ text \in Seq(Tokens) /\ Sentence(text) /\ Promise!Nest(text) \in Kinds
         /\ Nest = Promise!Nest(text)
         /\ Now \in Writable /\ Now \in States /\ words # << >> /\ Start \in Nat
         /\ Start <= From(Now) /\ Last(words) = words[Len(words)] /\ Len(words) \in DOMAIN words
         /\ alive => Owns(Promise!Nest(text), Now, Start)
<1>1. text \in Seq(Tokens) /\ Sentence(text) /\ Now \in Writable /\ Now \in States /\ words # << >>
      /\ Start <= From(Now)
  BY DEF IInv, Typed, Grammar, Newest, Mode
<1>2. Len(words) \in DOMAIN words /\ Last(words) = words[Len(words)]
  BY <1>1 DEF IInv, Typed, Last
<1>3. Start \in Places
  <2> DEFINE W == [start : Places, inline : BOOLEAN, done : BOOLEAN, body : Seq(Tokens)]
  <2>1. words \in Seq(W)
    BY DEF IInv, Typed
  <2>2. \A w \in W : w.start \in Places
    OBVIOUS
  <2> HIDE DEF W
  <2>3. words[Len(words)] \in W
    BY <1>2, <2>1
  <2> QED BY <1>2, <2>2, <2>3 DEF Start
<1>4. Start \in Nat
  BY <1>3, SizesTyped DEF Places, Null
<1>5. Promise!Nest(text) \in Kinds
  BY <1>1, NestTyped
<1>6. Nest = Promise!Nest(text)
  BY DEF Nest
<1>7. alive => Owns(Promise!Nest(text), Now, Start)
  BY DEF IInv, Own
<1> QED BY <1>1, <1>2, <1>4, <1>5, <1>6, <1>7

\* A step that writes above the start of the open definition, or nothing.
LEMMA StepWrites ==
  ASSUME IInv, NEW t \in States, Becomes(t),
         mem' = mem \/ (text # Closed /\ Below(mem, t.mem, Start))
  PROVE  WritesStep
<1>1. mem' = t.mem /\ DOMAIN t.mem \subseteq Addresses
  BY DEF Becomes, States, Memories
<1>2. CASE mem' = mem
  BY <1>2 DEF WritesStep, CodeAt
<1>3. CASE text # Closed /\ Below(mem, t.mem, Start)
  <2>1. words # << >>
    BY <1>3, Opened
  <2> QED BY <1>1, <1>3, <2>1 DEF WritesStep, CodeAt, Below, Start
<1> QED BY <1>2, <1>3
\* The open definition goes on, as far as the next state is concerned.
Continues ==
  /\ words' = words /\ text' # Closed
  /\ interp' \in {"interpret", "compile"} /\ failed' \in {"no", "typo", "word"}

\* Compiling in one piece what opens and closes nothing that is open.
LEMMA Goes ==
  ASSUME IInv, text # Closed, NEW t \in Compiled(Now), Becomes(t), Continues,
         NEW u \in Seq(Tokens), Balanced(u), text' = text \/ text' = text \o u
  PROVE  IInv' /\ WritesStep
<1> DEFINE nest == Promise!Nest(text)
<1>1. /\ text \in Seq(Tokens) /\ Sentence(text) /\ nest \in Kinds
      /\ Now \in Writable /\ Start \in Nat /\ Start <= From(Now)
      /\ alive => Owns(nest, Now, Start)
  BY Opened
<1>2. /\ t \in States /\ t \in Writable /\ Now \in States
      /\ Later(here, t.here)
      /\ From(Now) <= From(t) /\ t.cf = cf /\ (t.alive => alive)
      /\ \A a \in Addresses : a >= From(Now) \/ CodeAt(a, t.mem) = CodeAt(a, mem)
  BY <1>1, CompiledHere DEF Now
<1>3. Now' = t /\ alive' = t.alive
  BY <1>2, BecomesNow DEF Becomes
<1>4. text' \in Seq(Tokens) /\ Sentence(text') /\ Promise!Nest(text') = nest
  <2>1. nest \o << >> = nest
    BY <1>1, ConcatEmptySeq DEF Kinds
  <2>2. Sentence(text \o u) /\ Promise!Nest(text \o u) = nest /\ text \o u \in Seq(Tokens)
    BY <1>1, <2>1, TextOn, ConcatProperties DEF Balanced
  <2> QED BY <1>1, <2>2
<1> HIDE DEF nest
<1>5. Start' = Start
  BY DEF Start, Continues
<1>6. From(Now) \in Nat /\ From(t) \in Nat
  BY <1>2, StateTyped
<1>7. Typed'
  BY <1>2, <1>3, <1>4 DEF IInv, Typed, Continues
<1>8. Grammar'
  BY <1>4 DEF IInv, Grammar, Continues
<1>9. Mode'
  BY DEF IInv, Mode, Continues
<1>10. Newest'
  BY <1>1, <1>2, <1>3, <1>5, <1>6 DEF Newest
<1>11. Own'
  <2>1. ASSUME alive' PROVE Owns(nest, t, Start)
    <3>1. /\ Now.here = here /\ Now.cf = cf /\ Owns(nest, Now, Start)
      BY <1>1, <1>2, <1>3, <2>1 DEF Now
    <3> QED BY <1>1, <1>2, <3>1, OwnsOn
  <2> QED BY <1>3, <1>4, <1>5, <2>1 DEF Own, nest
<1>12. Below(mem, t.mem, Start)
  BY <1>1, <1>2, <1>6, SizesTyped DEF Below
<1>13. WritesStep
  BY <1>2, <1>12, StepWrites
<1> QED BY <1>7, <1>8, <1>9, <1>10, <1>11, <1>13 DEF IInv

\* A token of control flow: what it leaves for those to come is the definition's.
LEMMA Turns ==
  ASSUME IInv, text # Closed, NEW x \in Tokens,
         Promise!Accepts(Promise!Nest(text), Promise!Kind(x)),
         NEW t \in Writable, Types(<< x >>, t), Start <= From(t),
         t.alive => Owns(Promise!Nested(Promise!Nest(text), x), t, Start),
         Below(mem, t.mem, Start)
  PROVE  IInv' /\ WritesStep
<1> DEFINE nest == Promise!Nest(text)
           next == Promise!Nested(nest, x)
<1>1. text \in Seq(Tokens) /\ Sentence(text)
  BY Opened
<1>2. Now' = t /\ t \in States /\ alive' = t.alive /\ words' = words
  BY BecomesNow DEF Writable, Types, Becomes
<1>3. text' = text \o << x >> /\ interp' = interp /\ failed' = failed
  BY DEF Types
<1>4. text' \in Seq(Tokens) /\ Sentence(text') /\ Promise!Nest(text') = next
  <2>1. << x >> \in Seq(Tokens)
    OBVIOUS
  <2>2. Sentence(text \o << x >>) /\ Promise!Nest(text \o << x >>) = next
    BY <1>1, TextAdd
  <2> HIDE DEF next
  <2> QED BY <1>1, <1>3, <2>1, <2>2, ConcatProperties
<1> HIDE DEF nest, next
<1>5. Start' = Start /\ text' # Closed
  BY <1>2, <1>4, TextAssumption DEF Start
<1>6. Typed'
  BY <1>2, <1>3, <1>4 DEF IInv, Typed
<1>7. Grammar'
  BY <1>2, <1>4 DEF IInv, Grammar
<1>8. Mode'
  BY <1>2, <1>5 DEF IInv, Mode
<1>9. Newest'
  BY <1>2, <1>5 DEF Newest
<1>10. Own'
  BY <1>2, <1>4, <1>5 DEF Own, next, nest
<1>11. WritesStep
  <2>1. Becomes(t)
    BY DEF Types
  <2> QED BY <1>2, <2>1, StepWrites
<1> QED BY <1>6, <1>7, <1>8, <1>9, <1>10, <1>11 DEF IInv

-----------------------------------------------------------------------------
(* One lemma for each way to go on.                                        *)

LEMMA Fitting ==
  ASSUME Orderly, NEW kind, Fits(kind)
  PROVE  /\ Promise!Accepts(Nest, kind)
         /\ kind \in {"if", "begin", "while"} => Len(cf) < CfLimit
  BY DEF Orderly, Fits

LEMMA Plain ==
  ASSUME IInv, Compiling, NEW t \in Compiled(Now), NEW u \in Seq(Tokens), Balanced(u), Types(u, t)
  PROVE  IInv' /\ WritesStep
<1>1. text # Closed
  BY DEF IInv, Mode, Compiling
<1>2. text' = text \o u /\ Becomes(t)
  BY <1>1 DEF Types
<1>3. text \o u \in Seq(Tokens)
  BY <1>1, Opened, ConcatProperties
<1>4. Continues
  BY <1>2, <1>3, TextAssumption DEF Types, Continues, IInv, Typed
<1> QED BY <1>1, <1>2, <1>4, Goes

\* The operations written by tokens that are no control flow.
LEMMA OpsTyped ==
  /\ \A op \in {"lit", "native", "foreign", "word", "skip", "error", "end", "redzone", "0branch",
                "branch"} : OpCell(op) \in Value
  /\ \A n \in Int : Num(n) \in Value /\ At(n) \in Value
  BY ValuesTyped DEF Ops

LEMMA PlainTexts ==
  ASSUME NEW u \in Seq({x \in Tokens : x[1] \notin ControlKinds})
  PROVE  u \in Seq(Tokens) /\ Balanced(u)
<1>1. u \in Seq(Tokens) /\ \A k \in 1 .. Len(u) : u[k][1] \notin ControlKinds
  OBVIOUS
<1> QED BY <1>1, PlainText

LEMMA PlainToken ==
  ASSUME NEW kind \in TokenKinds \ ControlKinds, NEW n \in Nat
  PROVE  << <<kind, n>> >> \in Seq(Tokens) /\ Balanced(<< <<kind, n>> >>)
<1> DEFINE P == {x \in Tokens : x[1] \notin ControlKinds}
           u == << <<kind, n>> >>
<1>1. <<kind, n>> \in P
  BY DEF Tokens
<1>2. u \in Seq(P)
  BY <1>1
<1> HIDE DEF u
<1>3. u \in Seq(Tokens) /\ Balanced(u)
  BY <1>2, PlainTexts
<1> QED BY <1>3 DEF u

LEMMA WritableNow ==
  ASSUME IInv, Compiling
  PROVE  text # Closed /\ Now \in Writable /\ Now \in States /\ Nest = Promise!Nest(text)
<1>1. text # Closed
  BY DEF IInv, Mode, Compiling
<1> QED BY <1>1, Opened

\* Two cells in one piece, or three.
LEMMA PutsTwo ==
  ASSUME NEW s \in Writable, NEW a \in Value, NEW b \in Value
  PROVE  PutAll(<< a, b >>, s) \in Compiled(s)
<1> DEFINE p == << a, b >>
<1>1. p \in Seq(Value)
  OBVIOUS
<1> HIDE DEF p
<1>2. PutAll(p, s) \in Compiled(s)
  BY <1>1, PutAllCompiles
<1> QED BY <1>2 DEF p

LEMMA PutsThree ==
  ASSUME NEW s \in Writable, NEW a \in Value, NEW b \in Value, NEW c \in Value
  PROVE  PutAll(<< a, b, c >>, s) \in Compiled(s)
<1> DEFINE p == << a, b, c >>
<1>1. p \in Seq(Value)
  OBVIOUS
<1> HIDE DEF p
<1>2. PutAll(p, s) \in Compiled(s)
  BY <1>1, PutAllCompiles
<1> QED BY <1>2 DEF p

LEMMA NumberGoes ==
  ASSUME IInv, Number
  PROVE  IInv' /\ WritesStep
<1>1. Compiling
  BY DEF Number
<1>2. PutAll(<< OpCell("lit"), Num(1) >>, Now) \in Compiled(Now)
  <2>1. OpCell("lit") \in Value /\ Num(1) \in Value
    BY OpsTyped
  <2> QED BY <1>1, <2>1, WritableNow, PutsTwo
<1>3. << <<"lit", 1>> >> \in Seq(Tokens) /\ Balanced(<< <<"lit", 1>> >>)
  BY PlainToken DEF TokenKinds, ControlKinds
<1> QED BY <1>1, <1>2, <1>3, Plain DEF Number

LEMMA NativeGoes ==
  ASSUME IInv, Native
  PROVE  IInv' /\ WritesStep
<1>1. Compiling
  BY DEF Native
<1>2. PutAll(<< OpCell("native"), Num(0), Num(1) >>, Now) \in Compiled(Now)
  <2>1. OpCell("native") \in Value /\ Num(0) \in Value /\ Num(1) \in Value
    BY OpsTyped
  <2> QED BY <1>1, <2>1, WritableNow, PutsThree
<1>3. << <<"native", 1>> >> \in Seq(Tokens) /\ Balanced(<< <<"native", 1>> >>)
  BY PlainToken DEF TokenKinds, ControlKinds
<1> QED BY <1>1, <1>2, <1>3, Plain DEF Native

LEMMA ForeignGoes ==
  ASSUME IInv, Foreign
  PROVE  IInv' /\ WritesStep
<1>1. Compiling
  BY DEF Foreign
<1>2. PutAll(<< OpCell("foreign"), Num(1) >>, Now) \in Compiled(Now)
  <2>1. OpCell("foreign") \in Value /\ Num(1) \in Value
    BY OpsTyped
  <2> QED BY <1>1, <2>1, WritableNow, PutsTwo
<1>3. << <<"foreign", 1>> >> \in Seq(Tokens) /\ Balanced(<< <<"foreign", 1>> >>)
  BY PlainToken DEF TokenKinds, ControlKinds
<1> QED BY <1>1, <1>2, <1>3, Plain DEF Foreign

LEMMA ExitGoes ==
  ASSUME IInv, Exit
  PROVE  IInv' /\ WritesStep
<1>1. Compiling
  BY DEF Exit
<1>2. Put(OpCell("end"), Now) \in Compiled(Now)
  BY <1>1, WritableNow, OpsTyped, PutCompiles
<1>3. << <<"exit", 0>> >> \in Seq(Tokens) /\ Balanced(<< <<"exit", 0>> >>)
  BY PlainToken DEF TokenKinds, ControlKinds
<1> QED BY <1>1, <1>2, <1>3, Plain DEF Exit

\* The words of the session, one by one.
LEMMA WordTyped ==
  ASSUME IInv, NEW w \in DOMAIN words
  PROVE  /\ w \in Nat /\ words[w].start \in Places /\ words[w].start \in Nat
         /\ words[w].done \in BOOLEAN /\ words[w].inline \in BOOLEAN
         /\ words[w].body \in Seq(Tokens)
         /\ words[w].done => Balanced(words[w].body)
<1> DEFINE W == [start : Places, inline : BOOLEAN, done : BOOLEAN, body : Seq(Tokens)]
<1>1. words \in Seq(W)
  BY DEF IInv, Typed
<1>2. \A v \in W : v.start \in Places /\ v.start \in Nat /\ v.done \in BOOLEAN
                   /\ v.inline \in BOOLEAN /\ v.body \in Seq(Tokens)
  BY SizesTyped DEF Places, Null
<1> HIDE DEF W
<1>3. words[w] \in W /\ w \in Nat
  BY <1>1
<1> QED BY <1>2, <1>3 DEF IInv, Grammar

LEMMA CallGoes ==
  ASSUME IInv, NEW w \in DOMAIN words, Call(w)
  PROVE  IInv' /\ WritesStep
<1>1. Compiling /\ w \in Nat /\ words[w].start \in Nat
  BY WordTyped DEF Call
<1>2. PutAll(<< OpCell("word"), Num(words[w].start), Num(w) >>, Now) \in Compiled(Now)
  <2>1. Num(words[w].start) \in Value /\ Num(w) \in Value
    BY <1>1, OpsTyped
  <2>2. OpCell("word") \in Value
    BY OpsTyped
  <2> QED BY <1>1, <2>1, <2>2, WritableNow, PutsThree
<1>3. << <<"word", w>> >> \in Seq(Tokens) /\ Balanced(<< <<"word", w>> >>)
  BY <1>1, PlainToken DEF TokenKinds, ControlKinds
<1> QED BY <1>1, <1>2, <1>3, Plain DEF Call

\* What is read at an address can be written elsewhere.
LEMMA ReadTyped ==
  ASSUME NEW m \in Memories, NEW a
  PROVE  CodeAt(a, m) \in Value
<1>1. PICK D \in SUBSET Addresses : m \in [D -> Value]
  BY DEF Memories
<1> QED BY <1>1, ValuesTyped DEF CodeAt

LEMMA CopyCompiles ==
  ASSUME IInv, Compiling, NEW w \in DOMAIN words
  PROVE  Copy(w, Now) \in Compiled(Now)
<1>1. Now \in Writable /\ Now \in States
  BY WritableNow
<1>2. CASE Ends(w) = {}
  <2> DEFINE t == [Now EXCEPT !.alive = FALSE]
  <2>1. t \in States
    BY <1>1, Updated
  <2>2. /\ t.top = Now.top /\ t.here = Now.here /\ t.cf = Now.cf /\ t.c00 = Now.c00
        /\ t.mem = Now.mem /\ t.alive = FALSE
    BY DEF Now
  <2> HIDE DEF t
  <2>3. t \in Compiled(Now)
    BY <1>1, <2>1, <2>2, CompilesBeside, StateTyped
  <2> QED BY <1>2, <2>3 DEF Copy, t
<1>3. CASE Ends(w) # {}
  <2> DEFINE n == Min(Ends(w))
             values == [k \in 1 .. n |-> CodeAt(words[w].start + (k - 1) * Cell, mem)]
  <2>1. PICK k \in Ends(w) : k \in Nat
    BY <1>3 DEF Ends
  <2>2. n \in Nat
    <3> DEFINE S == Nat \ Ends(w)
    <3>1. k \in Nat /\ k \notin S
      BY <2>1
    <3> HIDE DEF S
    <3>2. PICK m \in Nat : m \notin S /\ \A j \in Nat : j < m => j \in S
      BY <3>1, Smallest
    <3>3. Ends(w) \subseteq Nat
      BY SizesTyped DEF Ends
    <3>4. m \in Ends(w) /\ \A j \in Ends(w) : m <= j
      BY <3>2, <3>3 DEF S
    <3>5. n = CHOOSE x \in Ends(w) : \A y \in Ends(w) : x <= y
      BY DEF Min
    <3> QED BY <3>3, <3>4, <3>5
  <2>3. values \in Seq(Value)
    <3> HIDE DEF n
    <3>1. mem \in Memories
      BY <1>1, StateTyped DEF Now
    <3>2. values \in [1 .. n -> Value]
      BY <3>1, ReadTyped
    <3> QED BY <2>2, <3>2
  <2>4. Copy(w, Now) = PutAll(values, Now)
    BY <1>3 DEF Copy
  <2> HIDE DEF values
  <2> QED BY <1>1, <2>3, <2>4, PutAllCompiles
<1> QED BY <1>2, <1>3

LEMMA CallInlineGoes ==
  ASSUME IInv, NEW w \in DOMAIN words, CallInline(w)
  PROVE  IInv' /\ WritesStep
<1>1. Compiling /\ words[w].body \in Seq(Tokens) /\ Balanced(words[w].body)
  BY WordTyped DEF CallInline
<1>2. Copy(w, Now) \in Compiled(Now)
  BY <1>1, CopyCompiles
<1> QED BY <1>1, <1>2, Plain DEF CallInline

\* A skip over what is allotted, which lies within memory.
LEMMA AllotGoes ==
  ASSUME Orderly, IInv, NEW n \in Sizes, Allot(n)
  PROVE  IInv' /\ WritesStep
<1> DEFINE s == Put(OpCell("skip"), Now)
           t == [s EXCEPT !.top = @ + n]
<1>1. Compiling /\ Now \in Writable /\ n \in Nat
  BY WritableNow, SizesTyped DEF Allot
<1>2. s \in Compiled(Now)
  BY <1>1, OpsTyped, PutCompiles
<1>3. /\ s \in Writable /\ s \in States /\ From(s) \in Nat
      /\ s.top \in Nat /\ s.top \in Cell .. Cell + Ram
      /\ (s.here # Null => s.here + Cell <= s.top) /\ s.here \in Nat
  BY <1>1, <1>2, CompiledHere, StateTyped
<1>4. Allots(n, s) /\ Types(<< <<"skip", 0>> >>, Put(Num(n), t))
  BY DEF Allot
<1> HIDE DEF s
<1>5. s.top + n <= Cell + Ram
  BY <1>4 DEF Allots, Orderly
<1>6. t \in States
  <2> DEFINE top2 == s.top + n
  <2>1. top2 \in Cell .. Cell + Ram /\ (s.here # Null => s.here + Cell <= top2)
    BY <1>1, <1>3, <1>5, SizesTyped, StateTyped
  <2>2. t = [s EXCEPT !.top = top2]
    BY <1>3 DEF States
  <2> HIDE DEF top2, t
  <2> QED BY <1>3, <2>1, <2>2, Updated
<1>7. /\ t.top = s.top + n /\ t.here = s.here /\ t.cf = s.cf /\ t.c00 = s.c00 /\ t.mem = s.mem
      /\ t.alive = s.alive
  BY <1>3 DEF States
<1> HIDE DEF t
<1>8. t \in Compiled(s)
  <2>1. s.top <= t.top
    BY <1>1, <1>3, <1>7
  <2> QED BY <1>3, <1>6, <1>7, <2>1, CompilesBeside
<1>9. Put(Num(n), t) \in Compiled(Now)
  <2>1. t \in Writable /\ t \in Compiled(Now)
    BY <1>1, <1>2, <1>8, CompilesOn DEF Compiled
  <2>2. Num(n) \in Value
    BY <1>1, OpsTyped
  <2> QED BY <1>1, <2>1, <2>2, PutCompiles, CompilesOn
<1>10. << <<"skip", 0>> >> \in Seq(Tokens) /\ Balanced(<< <<"skip", 0>> >>)
  BY PlainToken DEF TokenKinds, ControlKinds
<1> QED BY <1>1, <1>4, <1>9, <1>10, Plain

\* The tokens that s", ." and error" stand for.
LEMMA StringTokens ==
  LET two == << <<"skip", 0>>, <<"error", 0>> >>
      three == << <<"skip", 0>>, <<"lit", 0>>, <<"lit", StringSize>> >>
      four == Append(three, <<"native", 1>>)
  IN  /\ two \in Seq(Tokens) /\ Balanced(two)
      /\ three \in Seq(Tokens) /\ Balanced(three)
      /\ four \in Seq(Tokens) /\ Balanced(four)
<1> DEFINE P == {x \in Tokens : x[1] \notin ControlKinds}
           a == <<"skip", 0>>
           b == <<"error", 0>>
           c == <<"lit", 0>>
           d == <<"lit", StringSize>>
           e == <<"native", 1>>
<1>1. a \in P /\ b \in P /\ c \in P /\ d \in P /\ e \in P
  BY SizesTyped DEF Tokens, TokenKinds, ControlKinds
<1> HIDE DEF P, a, b, c, d, e
<1> DEFINE two == << a, b >>
           three == << a, c, d >>
           four == Append(three, e)
<1>2. two \in Seq(P) /\ three \in Seq(P) /\ four \in Seq(P)
  BY <1>1
<1> HIDE DEF two, three, four
<1>3. /\ two \in Seq(Tokens) /\ Balanced(two)
      /\ three \in Seq(Tokens) /\ Balanced(three)
      /\ four \in Seq(Tokens) /\ Balanced(four)
  BY <1>2, PlainTexts DEF P
<1> QED BY <1>3 DEF two, three, four, a, b, c, d, e

LEMMA StringGoes ==
  ASSUME IInv, NEW typed \in BOOLEAN, String(typed)
  PROVE  IInv' /\ WritesStep
<1> DEFINE pushed == << OpCell("lit"), StringAt(Now), OpCell("lit"), Num(StringSize) >>
           type == IF typed THEN << OpCell("native"), Num(0), Num(1) >> ELSE << >>
           three == << <<"skip", 0>>, <<"lit", 0>>, <<"lit", StringSize>> >>
           four == Append(three, <<"native", 1>>)
           tokens == IF typed THEN Append(three, <<"native", 1>>) ELSE three
           t == PutAll(pushed \o type, Skipped(Now))
<1>1. Compiling /\ Now \in Writable
  BY WritableNow DEF String
<1>2. Types(tokens, t)
  BY DEF String
<1>3. tokens \in Seq(Tokens) /\ Balanced(tokens)
  <2>1. /\ three \in Seq(Tokens) /\ Balanced(three) /\ four \in Seq(Tokens) /\ Balanced(four)
    BY StringTokens
  <2>2. tokens = IF typed THEN four ELSE three
    OBVIOUS
  <2> QED BY <2>1, <2>2
<1> HIDE DEF tokens
<1>4. Skipped(Now) \in Compiled(Now) /\ StringAt(Now) \in Value
  BY <1>1, SkippedCompiles
<1>5. pushed \in Seq(Value) /\ type \in Seq(Value)
  <2>1. Num(StringSize) \in Value /\ OpCell("lit") \in Value /\ OpCell("native") \in Value
        /\ Num(0) \in Value /\ Num(1) \in Value
    BY SizesTyped, OpsTyped
  <2> DEFINE lit == OpCell("lit")
             at == StringAt(Now)
             size == Num(StringSize)
             native == OpCell("native")
             none == Num(0)
             one == Num(1)
  <2>2. /\ lit \in Value /\ at \in Value /\ size \in Value
        /\ native \in Value /\ none \in Value /\ one \in Value
    BY <1>4, <2>1
  <2>3. pushed = << lit, at, lit, size >>
    <3>1. pushed = << OpCell("lit"), StringAt(Now), OpCell("lit"), Num(StringSize) >>
      OBVIOUS
    <3> HIDE DEF pushed
    <3> QED BY <3>1, Zenon
  <2>4. type = << native, none, one >> \/ type = << >>
    <3>1. CASE typed
      BY <3>1
    <3>2. CASE ~typed
      BY <3>2
    <3> QED BY <3>1, <3>2
  <2> HIDE DEF lit, at, size, native, none, one, pushed, type
  <2>5. << lit, at, lit, size >> \in Seq(Value) /\ << native, none, one >> \in Seq(Value)
        /\ << >> \in Seq(Value)
    BY <2>2
  <2> QED BY <2>3, <2>4, <2>5
<1>6. pushed \o type \in Seq(Value)
  <2> HIDE DEF pushed, type
  <2> QED BY <1>5, ConcatProperties
<1> DEFINE values == pushed \o type
<1> HIDE DEF pushed, type, values
<1>7. PutAll(values, Skipped(Now)) \in Compiled(Now)
  <2>1. Skipped(Now) \in Writable
    BY <1>1, <1>4, CompiledHere
  <2>2. values \in Seq(Value)
    BY <1>6 DEF values
  <2> QED BY <1>1, <1>4, <2>1, <2>2, PutAllCompiles, CompilesOn
<1> QED BY <1>1, <1>2, <1>3, <1>7, Plain DEF values

LEMMA ErrorStringGoes ==
  ASSUME IInv, ErrorString
  PROVE  IInv' /\ WritesStep
<1>1. Compiling /\ Now \in Writable
  BY WritableNow DEF ErrorString
<1>2. Skipped(Now) \in Compiled(Now) /\ Skipped(Now) \in Writable /\ StringAt(Now) \in Value
  BY <1>1, SkippedCompiles, CompiledHere
<1>3. PutAll(<< OpCell("error"), OpCell("lit"), StringAt(Now), OpCell("lit"), Num(StringSize) >>,
             Skipped(Now)) \in Compiled(Now)
  <2>1. Num(StringSize) \in Value /\ OpCell("lit") \in Value /\ OpCell("error") \in Value
    BY SizesTyped, OpsTyped
  <2> DEFINE lit == OpCell("lit")
             at == StringAt(Now)
             size == Num(StringSize)
             error == OpCell("error")
             values == << error, lit, at, lit, size >>
             skipped == Skipped(Now)
  <2>2. lit \in Value /\ at \in Value /\ size \in Value /\ error \in Value
    BY <1>2, <2>1
  <2>3. skipped \in Compiled(Now) /\ skipped \in Writable
    BY <1>2
  <2> HIDE DEF lit, at, size, error, skipped
  <2>4. values \in Seq(Value)
    BY <2>2
  <2> HIDE DEF values
  <2>5. PutAll(values, skipped) \in Compiled(Now)
    BY <1>1, <2>3, <2>4, PutAllCompiles, CompilesOn
  <2> QED BY <2>5 DEF lit, at, size, error, skipped, values
<1>4. /\ << <<"skip", 0>>, <<"error", 0>> >> \in Seq(Tokens)
      /\ Balanced(<< <<"skip", 0>>, <<"error", 0>> >>)
  BY StringTokens
<1> QED BY <1>1, <1>3, <1>4, Plain DEF ErrorString

-----------------------------------------------------------------------------
(* Control flow.                                                           *)

\* What a token of control flow adds to what is owed, or takes from it.
LEMMA OwedNested ==
  ASSUME NEW nest \in Kinds, NEW x \in Tokens, Promise!Accepts(nest, Promise!Kind(x))
  PROVE  LET kind == Promise!Kind(x)
             owed == Owed(nest)
             then == Owed(Promise!Nested(nest, x))
         IN  /\ owed \in Nat /\ then \in Nat
             /\ kind \in {"if", "begin", "while"} => then = owed + 1
             /\ kind = "else" => then = owed /\ \E m \in Nat : owed = m + 1
             /\ kind = "then" => owed = then + 1
             /\ kind = "repeat" => owed = (then + 1) + 1
<1> DEFINE kind == Promise!Kind(x)
<1>1. kind \in TokenKinds
  BY DEF Promise!Kind, Tokens
<1>2. Promise!Nested(nest, x) \in Kinds
  BY NestedTyped
<1>3. \A n \in Kinds, k \in TokenKinds :
        Owed(n) \in Nat /\ Owed(Append(n, k)) = Owed(n) + (IF k = "while" THEN 2 ELSE 1)
  BY OwedAdd
<1>4. Owed(nest) \in Nat /\ Owed(Promise!Nested(nest, x)) \in Nat
  BY <1>1, <1>2, <1>3
<1>5. CASE kind \in {"if", "begin"}
  <2>1. Promise!Nested(nest, x) = Append(nest, kind)
    BY <1>5 DEF Promise!Nested
  <2> QED BY <1>1, <1>3, <1>4, <1>5, <2>1
<1>6. CASE kind \in {"else", "then", "while", "repeat"}
  <2>1. nest # << >>
    BY <1>6 DEF Promise!Accepts
  <2>2. PICK front \in Kinds, e \in TokenKinds : nest = Append(front, e)
    BY <2>1, SequenceEmptyOrAppend DEF Kinds
  <2>3. Promise!Front(nest) = front /\ Promise!Last(nest) = e
    BY <2>2, FrontLast DEF Kinds
  <2>4. (kind = "repeat" => e = "while") /\ (kind # "repeat" => e # "while")
    BY <1>6, <2>3 DEF Promise!Accepts
  <2>5. Promise!Nested(nest, x) = IF kind \in {"else", "while"} THEN Append(front, kind) ELSE front
    BY <1>6, <2>3 DEF Promise!Nested
  <2>6. Owed(nest) = Owed(front) + (IF e = "while" THEN 2 ELSE 1) /\ Owed(front) \in Nat
    BY <1>3, <2>2
  <2>7. Owed(Append(front, kind)) = Owed(front) + (IF kind = "while" THEN 2 ELSE 1)
    BY <1>1, <1>3
  <2> HIDE DEF kind
  <2>8. CASE kind = "else"
    BY <1>4, <2>4, <2>5, <2>6, <2>7, <2>8 DEF kind
  <2>9. CASE kind = "then"
    BY <1>4, <2>4, <2>5, <2>6, <2>9 DEF kind
  <2>10. CASE kind = "while"
    BY <1>4, <2>4, <2>5, <2>6, <2>7, <2>10 DEF kind
  <2>11. CASE kind = "repeat"
    BY <1>4, <2>4, <2>5, <2>6, <2>11 DEF kind
  <2> QED BY <1>6, <2>8, <2>9, <2>10, <2>11
<1> QED BY <1>4, <1>5, <1>6

LEMMA PushTyped ==
  ASSUME NEW s \in Writable, NEW a \in Places, Len(s.cf) < CfLimit
  PROVE  LET t == PushCf(a, s)
         IN  /\ t \in Writable /\ t.cf = Append(s.cf, a)
             /\ t.top = s.top /\ t.here = s.here /\ t.mem = s.mem /\ t.alive = s.alive
             /\ t.c00 = s.c00
<1>1. s \in States /\ (s.here = Null => ~Room(Cell, s))
  BY DEF Writable
<1>2. Len(s.cf) \in Nat /\ CfLimit \in Nat /\ s.cf \in Seq(Places)
  BY <1>1, StateTyped, SizesTyped
<1> DEFINE stack == Append(s.cf, a)
           t == [s EXCEPT !.cf = stack]
<1>3. stack \in Seq(Places) /\ Len(stack) <= CfLimit
  BY <1>2
<1>4. PushCf(a, s) = t
  BY <1>2 DEF PushCf
<1> HIDE DEF stack
<1>5. /\ t \in States /\ t.cf = stack
      /\ t.top = s.top /\ t.here = s.here /\ t.mem = s.mem /\ t.alive = s.alive
      /\ t.c00 = s.c00
  BY <1>1, <1>3 DEF States
<1> HIDE DEF t
<1>6. t \in Writable
  BY <1>1, <1>5 DEF Writable, Room
<1> QED BY <1>4, <1>5, <1>6 DEF stack

LEMMA PopTyped ==
  ASSUME NEW s \in Writable, NEW f \in Seq(Places), NEW a \in Places, s.cf = Append(f, a)
  PROVE  LET t == PopCf(s)
         IN  /\ t \in Writable /\ t.cf = f /\ t.c00 = a /\ Len(f) < CfLimit
             /\ t.top = s.top /\ t.here = s.here /\ t.mem = s.mem /\ t.alive = s.alive
<1>1. s \in States /\ (s.here = Null => ~Room(Cell, s))
  BY DEF Writable
<1>2. /\ Front(s.cf) = f /\ Last(s.cf) = a /\ s.cf # << >>
      /\ Len(s.cf) = Len(f) + 1 /\ Len(f) \in Nat
  BY FrontLast
<1>3. Len(s.cf) <= CfLimit /\ CfLimit \in Nat
  BY <1>1, StateTyped, SizesTyped
<1> DEFINE t == [s EXCEPT !.c00 = a, !.cf = f]
<1>4. PopCf(s) = t
  BY <1>2 DEF PopCf
<1>5. /\ t \in States /\ t.cf = f /\ t.c00 = a
      /\ t.top = s.top /\ t.here = s.here /\ t.mem = s.mem /\ t.alive = s.alive
  <2> DEFINE u == [s EXCEPT !.c00 = a]
  <2>1. u \in States
    BY <1>1 DEF States
  <2>2. t = [u EXCEPT !.cf = f] /\ Len(f) <= CfLimit
    BY <1>2, <1>3
  <2> HIDE DEF u
  <2>3. [u EXCEPT !.cf = f] \in States
    BY <2>1, <2>2 DEF States
  <2> QED BY <1>1, <2>2, <2>3 DEF States
<1> HIDE DEF t
<1>6. t \in Writable
  BY <1>1, <1>5 DEF Writable, Room
<1> QED BY <1>2, <1>3, <1>4, <1>5, <1>6

LEMMA RegisterTyped ==
  ASSUME NEW s \in Writable, NEW a \in Places
  PROVE  LET t == [s EXCEPT !.c00 = a]
         IN  /\ t \in Writable /\ t.cf = s.cf /\ t.c00 = a
             /\ t.top = s.top /\ t.here = s.here /\ t.mem = s.mem /\ t.alive = s.alive
<1>1. s \in States /\ (s.here = Null => ~Room(Cell, s))
  BY DEF Writable
<1> DEFINE t == [s EXCEPT !.c00 = a]
<1>2. /\ t \in States /\ t.cf = s.cf /\ t.c00 = a
      /\ t.top = s.top /\ t.here = s.here /\ t.mem = s.mem /\ t.alive = s.alive
  BY <1>1 DEF States
<1> HIDE DEF t
<1>3. t \in Writable
  BY <1>1, <1>2 DEF Writable, Room
<1> QED BY <1>2, <1>3 DEF t

\* The next cell, behind the one that waits to be filled in.
LEMMA NewCellOn ==
  ASSUME NEW s \in Writable, NEW start \in Nat, start <= From(s)
  PROVE  /\ NewCell(s) \in Writable /\ Later(s.here, NewCell(s).here)
         /\ start <= From(NewCell(s)) /\ Mine(s.here, NewCell(s).here, start)
         /\ NewCell(s).cf = s.cf /\ NewCell(s).c00 = s.c00
         /\ NewCell(s).mem = s.mem /\ NewCell(s).alive = s.alive
<1> DEFINE t == NewCell(s)
<1>1. s \in States /\ (s.here = Null => ~Room(Cell, s))
  BY DEF Writable
<1>2. /\ t \in Writable /\ s.top <= t.top /\ t.here \in {s.top, Null}
      /\ (Room(Cell, s) <=> t.here # Null)
      /\ t.cf = s.cf /\ t.c00 = s.c00 /\ t.mem = s.mem /\ t.alive = s.alive
  BY <1>1, NewCellTyped
<1>3. t \in States
  BY <1>2 DEF Writable
<1> HIDE DEF t
<1>4. /\ s.top \in Nat /\ t.top \in Nat /\ s.here \in Nat /\ Cell \in Nat
      /\ (s.here # Null => s.here + Cell <= s.top) /\ From(s) <= s.top
  BY <1>1, <1>3, StateTyped, SizesTyped
<1>5. Later(s.here, t.here) /\ Mine(s.here, t.here, start)
  BY <1>1, <1>2, <1>4 DEF Later, Mine, From
<1>6. start <= From(t)
  BY <1>2, <1>4, <1>1, StateTyped DEF From
<1> QED BY <1>2, <1>5, <1>6 DEF t

\* The operation of ELSE: without a cell the process ends.
LEMMA StoreNewCell ==
  ASSUME NEW s \in Writable, NEW v \in Value
  PROVE  NewCell(Store(s.here, v, s)) \in Compiled(s)
<1>1. CASE s.here # Null
  BY <1>1, PutCompiles DEF Put
<1>2. CASE s.here = Null
  <2> DEFINE u == Store(s.here, v, s)
             t == NewCell(u)
  <2>1. s \in States /\ ~Room(Cell, s)
    BY <1>2 DEF Writable
  <2>2. /\ u \in States /\ u.top = s.top /\ u.here = s.here /\ u.cf = s.cf /\ u.c00 = s.c00
        /\ (u.alive => s.alive)
        /\ \A b \in Addresses \ {s.here} : CodeAt(b, u.mem) = CodeAt(b, s.mem)
    BY <2>1, StoreTyped
  <2> HIDE DEF u
  <2>3. /\ t \in Writable /\ u.top <= t.top /\ (Room(Cell, u) <=> t.here # Null)
        /\ t.cf = u.cf /\ t.c00 = u.c00 /\ t.mem = u.mem /\ t.alive = u.alive
    BY <2>2, NewCellTyped
  <2> HIDE DEF t
  <2>4. t \in States /\ t.here = Null
    BY <2>1, <2>2, <2>3 DEF Writable, Room
  <2>5. \A a \in Addresses : a >= From(s) \/ CodeAt(a, t.mem) = CodeAt(a, s.mem)
    BY <1>2, <2>2, <2>3, SizesTyped
  <2>6. t \in Compiled(s)
    BY <1>2, <2>2, <2>3, <2>4, <2>5, CompilesBeside
  <2> QED BY <2>6 DEF t, u
<1> QED BY <1>1, <1>2

LEMMA CompiledBelow ==
  ASSUME NEW s \in Writable, NEW t \in Compiled(s), NEW m, NEW start \in Nat,
         start <= From(s), Below(m, s.mem, start)
  PROVE  Below(m, t.mem, start) /\ start <= From(t)
<1>1. /\ s \in States /\ t \in States /\ From(s) <= From(t)
      /\ \A a \in Addresses : a >= From(s) \/ CodeAt(a, t.mem) = CodeAt(a, s.mem)
  BY CompiledHere
<1>2. From(s) \in Nat /\ From(t) \in Nat
  BY <1>1, StateTyped
<1> QED BY <1>1, <1>2, SizesTyped DEF Below

\* A cell of the definition is filled in, if it was allocated.
LEMMA StoreBelow ==
  ASSUME NEW s \in Writable, NEW v \in Value, NEW m, NEW start \in Nat,
         NEW a \in Places, NEW h, Mine(a, h, start), Below(m, s.mem, start)
  PROVE  LET t == Store(a, v, s)
         IN  /\ t \in Writable /\ t.here = s.here /\ t.cf = s.cf /\ From(t) = From(s)
             /\ Below(m, t.mem, start)
<1> DEFINE t == Store(a, v, s)
<1>1. s \in States /\ (s.here = Null => ~Room(Cell, s))
  BY DEF Writable
<1>2. /\ t \in States /\ t.top = s.top /\ t.here = s.here /\ t.cf = s.cf
      /\ \A b \in Addresses \ {a} : CodeAt(b, t.mem) = CodeAt(b, s.mem)
  BY <1>1, StoreTyped
<1> HIDE DEF t
<1>3. t \in Writable /\ From(t) = From(s)
  BY <1>1, <1>2 DEF Writable, Room, From
<1>4. Below(m, t.mem, start)
  BY <1>2, SizesTyped DEF Below, Mine
<1> QED BY <1>2, <1>3, <1>4 DEF t

\* What a control-flow word starts from.
LEMMA ControlStart ==
  ASSUME Orderly, IInv, Compiling, NEW kind, Fits(kind)
  PROVE  /\ text # Closed /\ Now \in Writable /\ Promise!Nest(text) \in Kinds
         /\ Promise!Accepts(Promise!Nest(text), kind)
         /\ Start \in Nat /\ Start <= From(Now) /\ here \in Places /\ cf \in Seq(Places)
         /\ Mines(Owed(Promise!Nest(text)), cf, here, Start)
         /\ Below(mem, Now.mem, Start) /\ Now.cf = cf /\ Now.here = here /\ Now.mem = mem
         /\ kind \in {"if", "begin", "while"} => Len(cf) < CfLimit
<1>1. text # Closed /\ Now \in Writable /\ Now \in States /\ Nest = Promise!Nest(text) /\ alive
  BY WritableNow DEF Compiling, Ready
<1>2. /\ Promise!Nest(text) \in Kinds /\ Start \in Nat /\ Start <= From(Now)
      /\ Owns(Promise!Nest(text), Now, Start)
  BY <1>1, Opened
<1>3. Now.cf = cf /\ Now.here = here /\ Now.mem = mem
  BY DEF Now
<1>4. here \in Places /\ cf \in Seq(Places)
  BY <1>1, <1>3, StateTyped
<1> QED BY <1>1, <1>2, <1>3, <1>4, Fitting DEF Owns, Below

LEMMA KindTyped ==
  ASSUME NEW kind \in ControlKinds
  PROVE  /\ <<kind, 0>> \in Tokens /\ Promise!Kind(<<kind, 0>>) = kind
  BY DEF Tokens, TokenKinds, Promise!Kind

LEMMA BeginGoes ==
  ASSUME Orderly, IInv, Begin
  PROVE  IInv' /\ WritesStep
<1> DEFINE nest == Promise!Nest(text)
           x == <<"begin", 0>>
           pushed == PushCf(here, Now)
           t == [pushed EXCEPT !.c00 = here]
<1>1. Compiling /\ Fits("begin") /\ Types(<< x >>, t)
  BY DEF Begin
<1>2. /\ text # Closed /\ Now \in Writable /\ nest \in Kinds /\ Promise!Accepts(nest, "begin")
      /\ Start \in Nat /\ Start <= From(Now) /\ here \in Places /\ cf \in Seq(Places)
      /\ Mines(Owed(nest), cf, here, Start) /\ Below(mem, Now.mem, Start)
      /\ Now.cf = cf /\ Now.here = here /\ Now.mem = mem /\ Len(cf) < CfLimit
  BY <1>1, ControlStart
<1>3. x \in Tokens /\ Promise!Kind(x) = "begin"
  BY KindTyped DEF ControlKinds
<1> HIDE DEF nest, x
<1>4. Owed(nest) \in Nat /\ Owed(Promise!Nested(nest, x)) = Owed(nest) + 1
  BY <1>2, <1>3, OwedNested
<1>5. /\ pushed \in Writable /\ pushed.cf = Append(cf, here)
      /\ pushed.top = Now.top /\ pushed.here = here /\ pushed.mem = mem
  BY <1>2, PushTyped
<1> HIDE DEF pushed
<1>6. /\ t \in Writable /\ t.cf = pushed.cf /\ t.here = here /\ t.mem = mem /\ t.top = Now.top
  BY <1>2, <1>5, RegisterTyped
<1> HIDE DEF t
<1>7. Mine(here, here, Start)
  BY <1>2, SizesTyped DEF Mine, From, Places, Null
<1>8. Mines(Owed(nest) + 1, t.cf, t.here, Start)
  BY <1>2, <1>4, <1>5, <1>6, <1>7, MinesPush
<1>9. Start <= From(t) /\ Below(mem, t.mem, Start)
  BY <1>2, <1>6 DEF From
<1>10. Owns(Promise!Nested(nest, x), t, Start)
  BY <1>4, <1>8 DEF Owns
<1> QED BY <1>1, <1>2, <1>3, <1>6, <1>9, <1>10, Turns DEF nest

LEMMA ZeroBranchGoes ==
  ASSUME Orderly, IInv, NEW kind \in {"if", "while"}, ZeroBranch(kind)
  PROVE  IInv' /\ WritesStep
<1> DEFINE nest == Promise!Nest(text)
           x == <<kind, 0>>
           op == Put(OpCell("0branch"), Now)
           pushed == PushCf(op.here, op)
           u == [pushed EXCEPT !.c00 = op.here]
           t == NewCell(u)
<1>1. Compiling /\ Fits(kind) /\ Types(<< x >>, t)
  BY DEF ZeroBranch
<1>2. /\ text # Closed /\ Now \in Writable /\ nest \in Kinds /\ Promise!Accepts(nest, kind)
      /\ Start \in Nat /\ Start <= From(Now) /\ here \in Places /\ cf \in Seq(Places)
      /\ Mines(Owed(nest), cf, here, Start) /\ Below(mem, Now.mem, Start)
      /\ Now.cf = cf /\ Now.here = here /\ Now.mem = mem /\ Len(cf) < CfLimit
  BY <1>1, ControlStart
<1>3. x \in Tokens /\ Promise!Kind(x) = kind
  BY KindTyped DEF ControlKinds
<1> HIDE DEF nest, x
<1>4. Owed(nest) \in Nat /\ Owed(Promise!Nested(nest, x)) = Owed(nest) + 1
  BY <1>2, <1>3, OwedNested
<1>5. op \in Compiled(Now)
  BY <1>2, OpsTyped, PutCompiles
<1> HIDE DEF op
<1>6. /\ op \in Writable /\ op \in States /\ Later(here, op.here) /\ op.cf = cf
      /\ Below(mem, op.mem, Start) /\ Start <= From(op) /\ op.here \in Places
  BY <1>2, <1>5, CompiledHere, CompiledBelow, StateTyped
<1>7. /\ pushed \in Writable /\ pushed.cf = Append(cf, op.here)
      /\ pushed.top = op.top /\ pushed.here = op.here /\ pushed.mem = op.mem
  BY <1>2, <1>6, PushTyped
<1> HIDE DEF pushed
<1>8. /\ u \in Writable /\ u.cf = pushed.cf /\ u.here = op.here /\ u.mem = op.mem /\ u.top = op.top
  BY <1>6, <1>7, RegisterTyped
<1> HIDE DEF u
<1>9. Start <= From(u)
  BY <1>6, <1>8 DEF From
<1>10. /\ t \in Writable /\ Later(op.here, t.here) /\ Start <= From(t)
       /\ Mine(op.here, t.here, Start) /\ t.cf = Append(cf, op.here) /\ t.mem = op.mem
  BY <1>2, <1>7, <1>8, <1>9, NewCellOn
<1> HIDE DEF t
<1>11. t.here \in Places
  BY <1>10, StateTyped DEF Writable
<1>12. Mines(Owed(nest) + 1, t.cf, t.here, Start)
  <2>1. Mines(Owed(nest), cf, op.here, Start)
    BY <1>2, <1>4, <1>6, MinesOn
  <2>2. Mines(Owed(nest), cf, t.here, Start)
    BY <1>2, <1>4, <1>6, <1>10, <1>11, <2>1, MinesOn
  <2> QED BY <1>2, <1>4, <1>6, <1>10, <2>2, MinesPush
<1>13. Owns(Promise!Nested(nest, x), t, Start) /\ Below(mem, t.mem, Start)
  BY <1>4, <1>6, <1>10, <1>12 DEF Owns
<1> QED BY <1>1, <1>2, <1>3, <1>10, <1>13, Turns DEF nest

LEMMA ThenGoes ==
  ASSUME Orderly, IInv, Then
  PROVE  IInv' /\ WritesStep
<1> DEFINE nest == Promise!Nest(text)
           x == <<"then", 0>>
           popped == PopCf(Now)
           v == Num(here - popped.c00)
           t == Store(popped.c00, v, popped)
           n == Owed(Promise!Nested(nest, x))
<1>1. Compiling /\ Fits("then") /\ Types(<< x >>, t)
  BY DEF Then
<1>2. /\ text # Closed /\ Now \in Writable /\ nest \in Kinds /\ Promise!Accepts(nest, "then")
      /\ Start \in Nat /\ Start <= From(Now) /\ here \in Places /\ cf \in Seq(Places)
      /\ Mines(Owed(nest), cf, here, Start) /\ Below(mem, Now.mem, Start)
      /\ Now.cf = cf /\ Now.here = here /\ Now.mem = mem
  BY <1>1, ControlStart
<1>3. x \in Tokens /\ Promise!Kind(x) = "then"
  BY KindTyped DEF ControlKinds
<1> HIDE DEF nest, x
<1>4. n \in Nat /\ Owed(nest) = n + 1
  BY <1>2, <1>3, OwedNested
<1> HIDE DEF n
<1>5. PICK f \in Seq(Places), a \in Places :
        cf = Append(f, a) /\ Mine(a, here, Start) /\ Mines(n, f, here, Start)
  BY <1>2, <1>4, MinesSome
<1>6. /\ popped \in Writable /\ popped.cf = f /\ popped.c00 = a
      /\ popped.top = Now.top /\ popped.here = here /\ popped.mem = mem
  BY <1>2, <1>5, PopTyped
<1>7. v \in Value
  <2>1. here - a \in Int
    BY <1>2, <1>5, SizesTyped DEF Places, Null
  <2> QED BY <1>6, <2>1, OpsTyped
<1>8. /\ t \in Writable /\ t.here = here /\ t.cf = f /\ From(t) = From(popped)
      /\ Below(mem, t.mem, Start)
  <2>1. t = Store(a, v, popped) /\ Below(mem, popped.mem, Start)
    BY <1>2, <1>6
  <2> HIDE DEF popped, v, t
  <2>2. /\ popped \in Writable /\ v \in Value /\ Start \in Nat /\ a \in Places
        /\ Mine(a, here, Start) /\ Below(mem, popped.mem, Start)
    BY <1>2, <1>5, <1>6, <1>7, <2>1
  <2>3. LET r == Store(a, v, popped)
        IN  /\ r \in Writable /\ r.here = popped.here /\ r.cf = popped.cf /\ From(r) = From(popped)
            /\ Below(mem, r.mem, Start)
    BY <2>2, StoreBelow
  <2> QED BY <1>6, <2>1, <2>3
<1> HIDE DEF t
<1>9. Start <= From(t)
  <2>1. From(popped) = From(Now)
    BY <1>2, <1>6 DEF From
  <2> QED BY <1>2, <1>8, <2>1
<1>10. Owns(Promise!Nested(nest, x), t, Start)
  BY <1>5, <1>8 DEF Owns, n
<1> QED BY <1>1, <1>2, <1>3, <1>8, <1>9, <1>10, Turns DEF nest

LEMMA ElseGoes ==
  ASSUME Orderly, IInv, Else
  PROVE  IInv' /\ WritesStep
<1> DEFINE nest == Promise!Nest(text)
           x == <<"else", 0>>
           popped == PopCf(Now)
           op == NewCell(Store(here, OpCell("branch"), popped))
           pushed == PushCf(op.here, op)
           next == NewCell(pushed)
           v == Num(next.here - popped.c00)
           t == Store(popped.c00, v, next)
<1>1. Compiling /\ Fits("else") /\ Types(<< x >>, t)
  BY DEF Else
<1>2. /\ text # Closed /\ Now \in Writable /\ nest \in Kinds /\ Promise!Accepts(nest, "else")
      /\ Start \in Nat /\ Start <= From(Now) /\ here \in Places /\ cf \in Seq(Places)
      /\ Mines(Owed(nest), cf, here, Start) /\ Below(mem, Now.mem, Start)
      /\ Now.cf = cf /\ Now.here = here /\ Now.mem = mem
  BY <1>1, ControlStart
<1>3. x \in Tokens /\ Promise!Kind(x) = "else"
  BY KindTyped DEF ControlKinds
<1> HIDE DEF nest, x
<1>4. PICK n \in Nat : Owed(nest) = n + 1 /\ Owed(Promise!Nested(nest, x)) = n + 1
  BY <1>2, <1>3, OwedNested
<1>5. PICK f \in Seq(Places), a \in Places :
        cf = Append(f, a) /\ Mine(a, here, Start) /\ Mines(n, f, here, Start)
  BY <1>2, <1>4, MinesSome
<1>6. /\ popped \in Writable /\ popped.cf = f /\ popped.c00 = a /\ Len(f) < CfLimit
      /\ popped.top = Now.top /\ popped.here = here /\ popped.mem = mem
  BY <1>2, <1>5, PopTyped
<1> HIDE DEF popped
<1>7. Start <= From(popped) /\ Below(mem, popped.mem, Start)
  BY <1>2, <1>6 DEF From
<1>8. op \in Compiled(popped)
  BY <1>6, OpsTyped, StoreNewCell
<1> HIDE DEF op
<1>9. /\ op \in Writable /\ op \in States /\ Later(here, op.here) /\ op.cf = f
      /\ Below(mem, op.mem, Start) /\ Start <= From(op) /\ op.here \in Places
  BY <1>2, <1>6, <1>7, <1>8, CompiledHere, CompiledBelow, StateTyped
<1>10. /\ pushed \in Writable /\ pushed.cf = Append(f, op.here)
       /\ pushed.top = op.top /\ pushed.here = op.here /\ pushed.mem = op.mem
  BY <1>6, <1>9, PushTyped
<1> HIDE DEF pushed
<1>11. Start <= From(pushed)
  BY <1>9, <1>10 DEF From
<1>12. /\ next \in Writable /\ Later(op.here, next.here) /\ Start <= From(next)
       /\ Mine(op.here, next.here, Start) /\ next.cf = Append(f, op.here) /\ next.mem = op.mem
  BY <1>2, <1>10, <1>11, NewCellOn
<1> HIDE DEF next
<1>13. next.here \in Places
  BY <1>12, StateTyped DEF Writable
<1>14. Mines(n + 1, next.cf, next.here, Start)
  <2>1. Mines(n, f, op.here, Start)
    BY <1>2, <1>5, <1>9, MinesOn
  <2>2. Mines(n, f, next.here, Start)
    BY <1>2, <1>9, <1>12, <1>13, <2>1, MinesOn
  <2> QED BY <1>9, <1>12, <2>2, MinesPush
<1>15. v \in Value
  <2>1. next.here - a \in Int
    BY <1>5, <1>13, SizesTyped DEF Places, Null
  <2> QED BY <1>6, <2>1, OpsTyped
<1>16. /\ t \in Writable /\ t.here = next.here /\ t.cf = next.cf /\ From(t) = From(next)
       /\ Below(mem, t.mem, Start)
  <2> HIDE DEF v
  <2> QED BY <1>2, <1>5, <1>6, <1>9, <1>12, <1>15, StoreBelow
<1> HIDE DEF t
<1>17. Owns(Promise!Nested(nest, x), t, Start) /\ Start <= From(t)
  BY <1>4, <1>12, <1>14, <1>16 DEF Owns
<1> QED BY <1>1, <1>2, <1>3, <1>16, <1>17, Turns DEF nest

LEMMA RepeatGoes ==
  ASSUME Orderly, IInv, Repeat
  PROVE  IInv' /\ WritesStep
<1> DEFINE nest == Promise!Nest(text)
           x == <<"repeat", 0>>
           while == PopCf(Now)
           begin == PopCf(while)
           op == Put(OpCell("branch"), begin)
           back == Num(begin.c00 - op.here)
           s == Put(back, op)
           v == Num(s.here - while.c00)
           u == Store(while.c00, v, s)
           t == [u EXCEPT !.c00 = while.c00]
           n == Owed(Promise!Nested(nest, x))
<1>1. Compiling /\ Fits("repeat") /\ Types(<< x >>, t)
  BY DEF Repeat
<1>2. /\ text # Closed /\ Now \in Writable /\ nest \in Kinds /\ Promise!Accepts(nest, "repeat")
      /\ Start \in Nat /\ Start <= From(Now) /\ here \in Places /\ cf \in Seq(Places)
      /\ Mines(Owed(nest), cf, here, Start) /\ Below(mem, Now.mem, Start)
      /\ Now.cf = cf /\ Now.here = here /\ Now.mem = mem
  BY <1>1, ControlStart
<1>3. x \in Tokens /\ Promise!Kind(x) = "repeat"
  BY KindTyped DEF ControlKinds
<1> HIDE DEF nest, x
<1>4. n \in Nat /\ Owed(nest) = (n + 1) + 1 /\ n + 1 \in Nat
  BY <1>2, <1>3, OwedNested
<1> HIDE DEF n
<1>5. PICK f \in Seq(Places), a \in Places :
        cf = Append(f, a) /\ Mine(a, here, Start) /\ Mines(n + 1, f, here, Start)
  BY <1>2, <1>4, MinesSome
<1>6. PICK g \in Seq(Places), b \in Places :
        f = Append(g, b) /\ Mine(b, here, Start) /\ Mines(n, g, here, Start)
  BY <1>4, <1>5, MinesSome
<1>7. /\ while \in Writable /\ while.cf = f /\ while.c00 = a
      /\ while.top = Now.top /\ while.here = here /\ while.mem = mem
  BY <1>2, <1>5, PopTyped
<1> HIDE DEF while
<1>8. /\ begin \in Writable /\ begin.cf = g /\ begin.c00 = b
      /\ begin.top = Now.top /\ begin.here = here /\ begin.mem = mem
  BY <1>6, <1>7, PopTyped
<1> HIDE DEF begin
<1>9. Start <= From(begin) /\ Below(mem, begin.mem, Start)
  BY <1>2, <1>8 DEF From
<1>10. op \in Compiled(begin)
  BY <1>8, OpsTyped, PutCompiles
<1> HIDE DEF op
<1>11. /\ op \in Writable /\ op \in States /\ Later(here, op.here) /\ op.cf = g
       /\ Below(mem, op.mem, Start) /\ Start <= From(op) /\ op.here \in Places
  <2>1. /\ op \in Writable /\ op \in States /\ Later(begin.here, op.here) /\ op.cf = begin.cf
    BY <1>8, <1>10, CompiledHere
  <2>2. Below(mem, op.mem, Start) /\ Start <= From(op)
    BY <1>2, <1>8, <1>9, <1>10, CompiledBelow
  <2> QED BY <1>8, <2>1, <2>2, StateTyped
<1>12. back \in Value
  <2>1. b - op.here \in Int
    BY <1>6, <1>11, SizesTyped DEF Places, Null
  <2> QED BY <1>8, <2>1, OpsTyped
<1>13. s \in Compiled(op)
  <2> HIDE DEF back
  <2> QED BY <1>11, <1>12, PutCompiles
<1> HIDE DEF s
<1>14. /\ s \in Writable /\ s \in States /\ Later(op.here, s.here) /\ s.cf = g
       /\ Below(mem, s.mem, Start) /\ Start <= From(s) /\ s.here \in Places
  BY <1>2, <1>11, <1>13, CompiledHere, CompiledBelow, StateTyped
<1>15. v \in Value
  <2>1. s.here - a \in Int
    BY <1>5, <1>14, SizesTyped DEF Places, Null
  <2> QED BY <1>7, <2>1, OpsTyped
<1>16. /\ u \in Writable /\ u.here = s.here /\ u.cf = g /\ From(u) = From(s)
       /\ Below(mem, u.mem, Start)
  <2>1. u = Store(a, v, s)
    BY <1>7
  <2> HIDE DEF v, u
  <2>2. /\ s \in Writable /\ v \in Value /\ Start \in Nat /\ a \in Places
        /\ Mine(a, here, Start) /\ Below(mem, s.mem, Start)
    BY <1>2, <1>5, <1>14, <1>15, <2>1
  <2>3. LET r == Store(a, v, s)
        IN  /\ r \in Writable /\ r.here = s.here /\ r.cf = s.cf /\ From(r) = From(s)
            /\ Below(mem, r.mem, Start)
    BY <2>2, StoreBelow
  <2> QED BY <1>14, <2>1, <2>3
<1> HIDE DEF u
<1>17. /\ t \in Writable /\ t.here = s.here /\ t.cf = g /\ t.top = u.top /\ t.mem = u.mem
  BY <1>5, <1>7, <1>16, RegisterTyped
<1> HIDE DEF t
<1>18. From(t) = From(s)
  BY <1>16, <1>17 DEF From
<1>19. Mines(n, g, s.here, Start)
  <2>1. Mines(n, g, op.here, Start)
    BY <1>2, <1>4, <1>6, <1>11, MinesOn
  <2> QED BY <1>2, <1>4, <1>11, <1>14, <2>1, MinesOn
<1>20. Owns(Promise!Nested(nest, x), t, Start)
  BY <1>17, <1>19 DEF Owns, n
<1> QED BY <1>1, <1>2, <1>3, <1>14, <1>16, <1>17, <1>18, <1>20, Turns DEF nest

-----------------------------------------------------------------------------
(* Definitions, and what happens beside compiling.                         *)

WordRecords == [start : Places, inline : BOOLEAN, done : BOOLEAN, body : Seq(Tokens)]

\* Nothing is compiled, and the text stays.
LEMMA Leaves ==
  ASSUME IInv, UNCHANGED <<mem, top, here, cf, c00, alive, words, text>>,
         interp' \in {"interpret", "compile"}, failed' \in {"no", "typo", "word"},
         interp' = "compile" => text # Closed
  PROVE  IInv' /\ WritesStep
<1>1. Now' = Now /\ Start' = Start /\ mem' = mem
  BY DEF Now, Start
<1>2. Typed' /\ Grammar' /\ Mode'
  BY <1>1 DEF IInv, Typed, Grammar, Mode
<1>3. Newest' /\ Own'
  BY <1>1 DEF IInv, Newest, Own
<1>4. WritesStep
  BY <1>1 DEF WritesStep, CodeAt
<1> QED BY <1>2, <1>3, <1>4 DEF IInv

\* No definition is open afterwards.
LEMMA Closes ==
  ASSUME NEW s \in States, Becomes(s), text' = Closed, interp' = "interpret",
         failed' \in {"no", "typo", "word"}, words' \in Seq(WordRecords),
         \A i \in DOMAIN words' : words'[i].done => Balanced(words'[i].body)
  PROVE  IInv'
<1>1. Now' = s
  BY BecomesNow
<1>2. Typed' /\ Grammar' /\ Mode' /\ Newest' /\ Own'
  BY <1>1 DEF Typed, Grammar, Mode, Newest, Own, WordRecords
<1> QED BY <1>2 DEF IInv

LEMMA WordsTyped ==
  ASSUME IInv
  PROVE  /\ words \in Seq(WordRecords) /\ Now \in States
         /\ \A i \in DOMAIN words : words[i].done => Balanced(words[i].body)
  BY DEF IInv, Typed, Grammar, WordRecords

LEMMA ColonGoes ==
  ASSUME Orderly, IInv, NEW named \in BOOLEAN, Colon(named)
  PROVE  IInv' /\ WritesStep
<1> DEFINE s == Header(named, Now)
           w == [start |-> s.here, inline |-> FALSE, done |-> FALSE, body |-> << >>]
<1>1. /\ text = Closed /\ Becomes(s) /\ words' = Append(words, w)
      /\ interp' = "compile" /\ text' = << >> /\ failed' = failed
  BY DEF Colon, Orderly
<1>2. /\ words \in Seq(WordRecords) /\ Now \in States
      /\ \A i \in DOMAIN words : words[i].done => Balanced(words[i].body)
  BY WordsTyped
<1>3. /\ s \in Writable /\ s.here <= From(s) /\ s.mem = mem
  BY <1>2, HeaderTyped DEF Now
<1> HIDE DEF s
<1>4. s \in States /\ s.here \in Places /\ s.cf \in Seq(Places)
  BY <1>3, StateTyped DEF Writable
<1>5. Now' = s /\ mem' = mem
  BY <1>1, <1>3, <1>4, BecomesNow DEF Becomes
<1>6. w \in WordRecords
  <2>1. << >> \in Seq(Tokens)
    OBVIOUS
  <2> QED BY <1>4, <2>1 DEF WordRecords
<1>7. w.start = s.here /\ w.done = FALSE
  OBVIOUS
<1> HIDE DEF w
<1>8. /\ words' \in Seq(WordRecords) /\ words' # << >> /\ Last(words') = w
      /\ \A i \in DOMAIN words' : words'[i] = w \/ (i \in DOMAIN words /\ words'[i] = words[i])
  <2>1. words' # << >> /\ Last(words') = w
    BY <1>1, <1>2, <1>6, FrontLast
  <2> QED BY <1>1, <1>2, <1>6, <2>1
<1>9. text' \in Seq(Tokens) /\ text' # Closed /\ Sentence(text') /\ Promise!Nest(text') = << >>
  <2>1. << >> \in Seq(Tokens) /\ Len(<< >>) = 0
    OBVIOUS
  <2>2. Promise!Nests(text')[0] = << >>
    BY <1>1, <2>1, NestsDefined
  <2>3. Promise!Nest(text') = << >>
    BY <1>1, <2>1, <2>2 DEF Promise!Nest
  <2>4. Sentence(text')
    BY <1>1, <2>1 DEF Sentence
  <2> QED BY <1>1, <2>1, <2>3, <2>4, TextAssumption
<1>10. Typed'
  BY <1>1, <1>4, <1>5, <1>8, <1>9 DEF IInv, Typed, WordRecords
<1>11. Grammar'
  BY <1>2, <1>7, <1>8, <1>9 DEF Grammar
<1>12. Mode'
  BY <1>8, <1>9 DEF Mode
<1>13. Start' = s.here
  BY <1>7, <1>8 DEF Start
<1>14. Newest'
  BY <1>3, <1>5, <1>13 DEF Newest
<1>15. Own'
  <2>1. Mines(0, s.cf, s.here, s.here)
    BY <1>4 DEF Mines
  <2> QED BY <1>5, <1>9, <1>13, <2>1, OwedNone DEF Own, Owns
<1>16. WritesStep
  BY <1>5 DEF WritesStep, CodeAt
<1> QED BY <1>10, <1>11, <1>12, <1>14, <1>15, <1>16 DEF IInv

LEMMA SemicolonGoes ==
  ASSUME Orderly, IInv, Semicolon
  PROVE  IInv' /\ WritesStep
<1> DEFINE ended == Put(OpCell("end"), Now)
           t == Put(OpCell("redzone"), ended)
           last == Len(words)
           w == [words[last] EXCEPT !.done = ended.here # Null, !.body = text]
<1>1. Compiling /\ Becomes(t) /\ interp' = "interpret" /\ text' = Closed /\ failed' = failed
  BY DEF Semicolon
<1>2. text # Closed /\ Now \in Writable /\ Nest = Promise!Nest(text)
  BY <1>1, WritableNow
<1>3. /\ text \in Seq(Tokens) /\ Sentence(text) /\ words # << >> /\ last \in DOMAIN words
      /\ Start \in Nat /\ Start <= From(Now)
  BY <1>2, Opened
<1>4. Balanced(text)
  BY <1>2, <1>3 DEF Semicolon, Orderly, Balanced
<1>5. words' = [words EXCEPT ![last] = w]
  BY <1>2, <1>3 DEF Semicolon
<1>6. /\ words \in Seq(WordRecords)
      /\ \A i \in DOMAIN words : words[i].done => Balanced(words[i].body)
  BY WordsTyped
<1>7. w \in WordRecords /\ w.body = text
  <2>1. words[last] \in WordRecords
    BY <1>3, <1>6
  <2> QED BY <1>3, <2>1 DEF WordRecords
<1> HIDE DEF w
<1>8. /\ words' \in Seq(WordRecords)
      /\ \A i \in DOMAIN words' : words'[i].done => Balanced(words'[i].body)
  <2>1. DOMAIN words' = DOMAIN words /\ words' \in Seq(WordRecords)
    BY <1>3, <1>5, <1>6, <1>7
  <2> QED BY <1>3, <1>4, <1>5, <1>6, <1>7, <2>1
<1>9. ended \in Compiled(Now) /\ ended \in Writable
  BY <1>2, OpsTyped, PutCompiles, CompiledHere
<1> HIDE DEF ended
<1>10. t \in Compiled(Now) /\ t \in States
  BY <1>2, <1>9, OpsTyped, PutCompiles, CompilesOn, CompiledHere
<1> HIDE DEF t
<1>11. Below(mem, t.mem, Start)
  <2>1. Now.mem = mem /\ Below(mem, Now.mem, Start)
    BY DEF Now, Below
  <2> QED BY <1>2, <1>3, <1>10, <2>1, CompiledBelow
<1>12. failed' \in {"no", "typo", "word"}
  BY <1>1 DEF IInv, Typed
<1>13. IInv'
  BY <1>1, <1>8, <1>10, <1>12, Closes
<1>14. WritesStep
  BY <1>1, <1>2, <1>10, <1>11, StepWrites
<1> QED BY <1>13, <1>14

LEMMA InlineGoes ==
  ASSUME IInv, Inline
  PROVE  IInv' /\ WritesStep
<1> DEFINE last == Len(words)
           w == [words[last] EXCEPT !.inline = TRUE]
<1>1. /\ text = Closed /\ words # << >> /\ words' = [words EXCEPT ![last] = w]
      /\ UNCHANGED <<mem, top, here, cf, c00, interp, failed, alive, text>>
  BY DEF Inline
<1>2. /\ words \in Seq(WordRecords) /\ Now \in States
      /\ \A i \in DOMAIN words : words[i].done => Balanced(words[i].body)
  BY WordsTyped
<1>3. last \in DOMAIN words
  BY <1>1, <1>2
<1>4. w \in WordRecords /\ w.body = words[last].body /\ w.done = words[last].done
  <2>1. words[last] \in WordRecords
    BY <1>2, <1>3
  <2> QED BY <2>1 DEF WordRecords
<1> HIDE DEF w
<1>5. /\ words' \in Seq(WordRecords)
      /\ \A i \in DOMAIN words' : words'[i].done => Balanced(words'[i].body)
  <2>1. DOMAIN words' = DOMAIN words /\ words' \in Seq(WordRecords)
    BY <1>1, <1>2, <1>3, <1>4
  <2> QED BY <1>1, <1>2, <1>3, <1>4, <2>1
<1>6. Becomes(Now) /\ mem' = mem
  BY <1>1 DEF Becomes, Now
<1>7. interp' = "interpret" /\ text' = Closed /\ failed' \in {"no", "typo", "word"}
  BY <1>1 DEF IInv, Typed, Mode
<1>8. IInv'
  BY <1>2, <1>5, <1>6, <1>7, Closes
<1>9. WritesStep
  BY <1>6 DEF WritesStep, CodeAt
<1> QED BY <1>8, <1>9

\* A definition that is given up.
LEMMA AbortGoes ==
  ASSUME IInv, DebuggerAbort \/ Abort
  PROVE  IInv' /\ WritesStep
<1>1. /\ words \in Seq(WordRecords) /\ Now \in States
      /\ \A i \in DOMAIN words : words[i].done => Balanced(words[i].body)
  BY WordsTyped
<1> DEFINE t == [Now EXCEPT !.cf = << >>]
<1>2. t \in States
  <2>1. << >> \in Seq(Places) /\ Len(<< >>) = 0
    OBVIOUS
  <2>2. CfLimit \in Nat
    BY SizesTyped
  <2> DEFINE e == << >>
  <2>3. e \in Seq(Places) /\ Len(e) <= CfLimit
    BY <2>1, <2>2
  <2> HIDE DEF e
  <2>4. [Now EXCEPT !.cf = e] \in States
    BY <1>1, <2>3 DEF States
  <2> QED BY <2>4 DEF e
<1>3. t = [mem |-> mem, top |-> top, here |-> here, cf |-> << >>, c00 |-> c00, alive |-> alive]
  BY DEF Now
<1>4. Becomes(Now) \/ Becomes(t)
  BY <1>3 DEF Becomes, Now, DebuggerAbort, Abort
<1> HIDE DEF t
<1>5. /\ text' = Closed /\ interp' = "interpret" /\ failed' \in {"no", "typo", "word"}
      /\ words' = words /\ mem' = mem
  BY DEF DebuggerAbort, Abort, Ready
<1>6. IInv'
  BY <1>1, <1>2, <1>4, <1>5, Closes
<1>7. WritesStep
  BY <1>5 DEF WritesStep, CodeAt
<1> QED BY <1>6, <1>7

\* Memory taken while a definition is open stays free of its code.
LEMMA BesideGoes ==
  ASSUME IInv, text # Closed, NEW t \in Compiled(Now), Becomes(t), text' = text, words' = words,
         interp' \in {"interpret", "compile"}, failed' \in {"no", "typo", "word"}
  PROVE  IInv' /\ WritesStep
<1> DEFINE e == << >>
<1>1. e \in Seq(Tokens) /\ Balanced(e)
  <2>1. e \in Seq(Tokens) /\ \A k \in 1 .. Len(e) : e[k][1] \notin ControlKinds
    OBVIOUS
  <2> HIDE DEF e
  <2> QED BY <2>1, PlainText
<1> HIDE DEF e
<1>2. Continues
  BY DEF Continues
<1> QED BY <1>1, <1>2, Goes

LEMMA AllocateGoes ==
  ASSUME Orderly, IInv, NEW n \in Sizes, Allocate(n)
  PROVE  IInv' /\ WritesStep
<1> DEFINE high == top + n
           t == [Now EXCEPT !.top = @ + n]
<1>1. /\ Becomes(t) /\ interp = "interpret" /\ Allots(n, Now)
      /\ interp' = interp /\ words' = words /\ failed' = failed /\ text' = text
  BY DEF Allocate
<1>2. /\ words \in Seq(WordRecords) /\ Now \in States
      /\ \A i \in DOMAIN words : words[i].done => Balanced(words[i].body)
  BY WordsTyped
<1>3. /\ top \in Nat /\ top \in Cell .. Cell + Ram /\ n \in Nat /\ here \in Nat /\ Cell \in Nat
      /\ (here # Null => here + Cell <= top) /\ Now.here = here
  BY <1>2, StateTyped, SizesTyped DEF Now
<1>4. high \in Cell .. Cell + Ram /\ top <= high /\ (here # Null => here + Cell <= high)
  BY <1>1, <1>3, SizesTyped DEF Allots, Orderly, Now
<1>5. t = [Now EXCEPT !.top = high]
  BY DEF Now
<1> HIDE DEF high, t
<1>6. t \in States
  BY <1>2, <1>3, <1>4, <1>5, Updated
<1>7. /\ t.top = high /\ t.here = here /\ t.cf = cf /\ t.c00 = c00 /\ t.mem = mem /\ t.alive = alive
  BY <1>5 DEF Now
<1>8. interp' = "interpret" /\ failed' \in {"no", "typo", "word"}
  BY <1>1 DEF IInv, Typed
<1>9. CASE text = Closed
  <2>1. IInv'
    BY <1>1, <1>2, <1>6, <1>8, <1>9, Closes
  <2>2. mem' = mem
    BY <1>1, <1>7 DEF Becomes
  <2> QED BY <2>1, <2>2 DEF WritesStep, CodeAt
<1>10. CASE text # Closed
  <2>1. Now \in Writable
    BY <1>10, Opened
  <2>2. Now.top <= t.top /\ t.here = Now.here /\ t.cf = Now.cf /\ t.c00 = Now.c00
        /\ t.alive = Now.alive /\ t.mem = Now.mem
    BY <1>4, <1>7 DEF Now
  <2>3. t \in Compiled(Now)
    BY <1>6, <2>1, <2>2, CompilesBeside
  <2> QED BY <1>1, <1>8, <1>10, <2>3, BesideGoes
<1> QED BY <1>9, <1>10

LEMMA FailsGoes ==
  ASSUME IInv, Fails
  PROVE  IInv' /\ WritesStep
<1> DEFINE a == Aligned(Now)
           b == Alloc(MessageSize, a)
           c == Aligned(b)
           t == Alloc(MessageSize, c)
<1>1. /\ Compiling /\ Becomes(t) /\ failed' = "word"
      /\ interp' = interp /\ words' = words /\ text' = text
  BY DEF Fails
<1>2. text # Closed /\ Now \in Writable /\ Now \in States
  BY <1>1, WritableNow
<1>3. /\ a \in States /\ Now.top <= a.top /\ a.here = Now.here /\ a.cf = Now.cf /\ a.c00 = Now.c00
      /\ a.mem = Now.mem /\ a.alive = Now.alive
  BY <1>2, AlignedKeeps
<1> HIDE DEF a
<1>4. /\ b \in States /\ a.top <= b.top /\ b.here = a.here /\ b.cf = a.cf /\ b.c00 = a.c00
      /\ b.mem = a.mem /\ (b.alive => a.alive)
  BY <1>3, SizesTyped, AllocTyped
<1> HIDE DEF b
<1>5. /\ c \in States /\ b.top <= c.top /\ c.here = b.here /\ c.cf = b.cf /\ c.c00 = b.c00
      /\ c.mem = b.mem /\ c.alive = b.alive
  BY <1>4, AlignedKeeps
<1> HIDE DEF c
<1>6. /\ t \in States /\ c.top <= t.top /\ t.here = c.here /\ t.cf = c.cf /\ t.c00 = c.c00
      /\ t.mem = c.mem /\ (t.alive => c.alive)
  BY <1>5, SizesTyped, AllocTyped
<1> HIDE DEF t
<1>7. Now.top <= t.top
  <2>1. Now.top \in Nat /\ a.top \in Nat /\ b.top \in Nat /\ c.top \in Nat /\ t.top \in Nat
    BY <1>2, <1>3, <1>4, <1>5, <1>6, StateTyped
  <2> QED BY <1>3, <1>4, <1>5, <1>6, <2>1
<1>8. t \in Compiled(Now)
  BY <1>2, <1>3, <1>4, <1>5, <1>6, <1>7, CompilesBeside
<1>9. interp' \in {"interpret", "compile"}
  BY <1>1 DEF IInv, Typed
<1> QED BY <1>1, <1>2, <1>8, <1>9, BesideGoes

\* Brackets, a token that is none, and going on from the debugger.
LEMMA LeavesGoes ==
  ASSUME Orderly, IInv, Bracket \/ Mistype \/ DebuggerContinue \/ vars' = vars
  PROVE  IInv' /\ WritesStep
<1>1. UNCHANGED <<mem, top, here, cf, c00, alive, words, text>>
  BY DEF Bracket, Mistype, DebuggerContinue, vars
<1>2. /\ interp' \in {"interpret", "compile"} /\ failed' \in {"no", "typo", "word"}
      /\ interp' = "compile" => text # Closed
  BY DEF Bracket, Mistype, DebuggerContinue, vars, IInv, Typed, Mode, Orderly
<1> QED BY <1>1, <1>2, Leaves

-----------------------------------------------------------------------------
(* The theorems.                                                           *)

LEMMA InitKept ==
  ASSUME Init
  PROVE  IInv
<1>1. Now \in States
  <2> DEFINE e == << >>
  <2>1. e \in Seq(Places) /\ Len(e) = 0 /\ e \in [{} -> Value] /\ {} \in SUBSET Addresses
    OBVIOUS
  <2> HIDE DEF e
  <2>2. e \in Memories
    BY <2>1 DEF Memories
  <2>3. Now = [mem |-> e, top |-> Cell, here |-> Null, cf |-> e, c00 |-> Null, alive |-> TRUE]
    BY DEF Now, Init, e
  <2>4. Cell \in Cell .. Cell + Ram /\ Null \in Places
    BY SizesTyped DEF Places
  <2> QED BY <2>1, <2>2, <2>3, <2>4, SizesTyped DEF States
<1>2. words \in Seq(WordRecords) /\ DOMAIN words = {}
  BY DEF Init
<1>3. Typed /\ Grammar /\ Mode /\ Newest /\ Own
  BY <1>1, <1>2 DEF Init, Typed, Grammar, Mode, Newest, Own, WordRecords
<1> QED BY <1>3 DEF IInv

LEMMA StepKept ==
  ASSUME Orderly, IInv, [Next]_vars
  PROVE  IInv' /\ WritesStep
<1>1. CASE \E named \in BOOLEAN : Colon(named)
  BY <1>1, ColonGoes
<1>2. CASE Semicolon
  BY <1>2, SemicolonGoes
<1>3. CASE Inline
  BY <1>3, InlineGoes
<1>4. CASE Number \/ Native \/ Foreign \/ Exit \/ ErrorString
  BY <1>4, NumberGoes, NativeGoes, ForeignGoes, ExitGoes, ErrorStringGoes
<1>5. CASE \E w \in DOMAIN words : Call(w) \/ CallInline(w)
  BY <1>5, CallGoes, CallInlineGoes
<1>6. CASE \E n \in Sizes : Allot(n) \/ Allocate(n)
  BY <1>6, AllotGoes, AllocateGoes
<1>7. CASE \E typed \in BOOLEAN : String(typed)
  BY <1>7, StringGoes
<1>8. CASE \E kind \in {"if", "while"} : ZeroBranch(kind)
  BY <1>8, ZeroBranchGoes
<1>9. CASE Else \/ Then \/ Begin \/ Repeat
  BY <1>9, ElseGoes, ThenGoes, BeginGoes, RepeatGoes
<1>10. CASE Bracket \/ Mistype \/ DebuggerContinue \/ vars' = vars
  BY <1>10, LeavesGoes
<1>11. CASE Fails
  BY <1>11, FailsGoes
<1>12. CASE DebuggerAbort \/ Abort
  BY <1>12, AbortGoes
<1> QED BY <1>1, <1>2, <1>3, <1>4, <1>5, <1>6, <1>7, <1>8, <1>9, <1>10, <1>11, <1>12 DEF Next

\* The invariant holds as long as the program is orderly.
THEOREM Invariant == ASSUME Orderly PROVE Spec => []IInv
<1>1. Init => IInv
  BY InitKept
<1>2. IInv /\ [Next]_vars => IInv'
  BY StepKept
<1> QED BY <1>1, <1>2, PTL DEF Spec

\* What is compiled goes to a cell of memory or nowhere, and so does what is
\* patched (words/askforth_words.c:2360-2507, library/library.c:322-338): for every
\* size of memory and of what is put there.
THEOREM CellsTyped == ASSUME Orderly PROVE Spec => []TypeOK
<1>1. IInv => TypeOK
  <2> SUFFICES ASSUME IInv PROVE TypeOK
    OBVIOUS
  <2>1. Now \in States
    BY DEF IInv, Typed
  <2>2. /\ top \in Nat /\ here \in Places /\ c00 \in Places /\ cf \in Seq(Places)
        /\ Len(cf) <= CfLimit /\ alive \in BOOLEAN /\ mem \in Memories
    BY <2>1, StateTyped DEF Now
  <2>3. DOMAIN mem \subseteq Addresses
    BY <2>2 DEF Memories
  <2>4. interp \in {"interpret", "compile"} /\ failed \in {"no", "typo", "word"}
    BY DEF IInv, Typed
  <2> QED BY <2>2, <2>3, <2>4 DEF TypeOK, Places
<1> QED BY <1>1, Invariant, PTL

\* ELSE, THEN and REPEAT find on the control-flow stack the addresses that the
\* construct they belong to left there, in the code of the word being defined
\* (words/askforth_words.c:2360-2507), whatever was given up before.
THEOREM OwnCode == ASSUME Orderly PROVE Spec => []OpenInOwnCode
<1>1. IInv => OpenInOwnCode
  <2> SUFFICES ASSUME IInv, text # Closed, alive, here # Null
               PROVE  /\ Len(cf) >= Len(Promise!Nest(text))
                      /\ \A i \in 1 .. Len(Promise!Nest(text)) :
                           cf[Len(cf) + 1 - i] \in Last(words).start .. here
    BY DEF OpenInOwnCode
  <2> DEFINE nest == Promise!Nest(text)
             n == Owed(nest)
  <2>1. /\ nest \in Kinds /\ Now \in States /\ Start \in Nat /\ Owns(nest, Now, Start)
    BY Opened
  <2>2. /\ here \in Nat /\ cf \in Seq(Places) /\ Mines(n, cf, here, Start)
    BY <2>1, StateTyped DEF Now, Owns
  <2>3. n \in Nat /\ Len(nest) \in Nat /\ Len(nest) <= n
    <3>1. "if" \in TokenKinds
      BY DEF TokenKinds, ControlKinds
    <3> QED BY <2>1, <3>1, OwedAdd
  <2> HIDE DEF nest, n
  <2>4. ASSUME NEW i \in 1 .. Len(nest) PROVE cf[Len(cf) + 1 - i] \in Start .. here
    <3> DEFINE k == Len(cf) + 1 - i
    <3>1. k \in 1 .. Len(cf) /\ k > Len(cf) - n
      BY <2>2, <2>3 DEF Mines
    <3> HIDE DEF k
    <3>2. Mine(cf[k], here, Start) /\ cf[k] \in Places
      BY <2>2, <3>1 DEF Mines
    <3>3. cf[k] \in Nat
      BY <3>2, SizesTyped DEF Places, Null
    <3>4. cf[k] \in Start .. here
      BY <2>1, <2>2, <3>2, <3>3 DEF Mine
    <3> QED BY <3>4 DEF k
  <2> QED BY <2>2, <2>3, <2>4 DEF nest, Start, Mines
<1> QED BY <1>1, Invariant, PTL

\* No step writes below the definition that is being compiled or was compiled last
\* (words/askforth_words.c:2405-2507, fallback_loop/fallback.c:440-456): words that
\* are complete keep their code.
THEOREM NewestWritten == ASSUME Orderly PROVE Spec => WritesNewest
<1>1. IInv /\ [Next]_vars => [WritesStep]_vars
  BY StepKept
<1>2. Spec => [][WritesStep]_vars
  BY <1>1, Invariant, PTL DEF Spec
<1> QED BY <1>2 DEF WritesNewest, WritesStep
=============================================================================
