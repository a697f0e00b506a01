------------------------------- MODULE Lemmas --------------------------------
(***************************************************************************)
(* What the proofs share about numbers: division, induction, and functions *)
(* defined by recursion.                                                   *)
(*                                                                         *)
(* Induction is stated for the numbers of a set: one that did not have all *)
(* of them would lack a smallest one.                                      *)
(***************************************************************************)
EXTENDS Integers, WellFoundedInduction, TLAPS

\* A number that is not in the set has a smallest one like it.
LEMMA Smallest ==
  ASSUME NEW S, NEW n \in Nat, n \notin S
  PROVE  \E m \in Nat : m \notin S /\ \A k \in Nat : k < m => k \in S
<1> DEFINE R == OpToRel(<, Nat)
           T == {m \in Nat : m \notin S}
<1>1. \A x, y \in Nat : <<y, x>> \in R <=> y < x
  BY DEF OpToRel
<1>2. IsWellFoundedOn(R, Nat)
  BY NatLessThanWellFounded
<1> HIDE DEF R
<1>3. T \subseteq Nat /\ T # {}
  OBVIOUS
<1>4. PICK m \in T : \A k \in T : ~(<<k, m>> \in R)
  BY <1>2, <1>3, WFMin
<1>5. m \in Nat /\ m \notin S /\ \A k \in Nat : k < m => k \in S
  BY <1>1, <1>4
<1> QED BY <1>5

\* Induction up to a number.
LEMMA Induct ==
  ASSUME NEW N \in Nat, NEW S, 0 \in S, \A n \in 0 .. N - 1 : n \in S => n + 1 \in S
  PROVE  0 .. N \subseteq S
<1> SUFFICES ASSUME NEW n \in 0 .. N, n \notin S PROVE FALSE
  OBVIOUS
<1> DEFINE T == {k \in Nat : k \in S \/ k > N}
<1>1. n \in Nat /\ n \notin T
  OBVIOUS
<1> HIDE DEF T
<1>2. PICK m \in Nat : m \notin T /\ \A k \in Nat : k < m => k \in T
  BY <1>1, Smallest
<1>3. m \notin S /\ m <= N /\ m # 0
  BY <1>2 DEF T
<1>4. m - 1 \in 0 .. N - 1 /\ m - 1 \in T /\ (m - 1) + 1 = m
  BY <1>2, <1>3
<1>5. m - 1 \in S
  BY <1>4 DEF T
<1> QED BY <1>3, <1>4, <1>5

\* G says which value follows as the n-th on a value of V, and it is in V.
Steps(G, N, V) == \A n \in 1 .. N, v \in V : G[<<n, v>>] \in V

\* f begins with a, and goes on as G says.
Follows(f, a, G, N) == f[0] = a /\ \A n \in 1 .. N : f[n] = G[<<n, f[n - 1]>>]

\* Such a function can be defined on 0 .. N.
LEMMA Defined ==
  ASSUME NEW N \in Nat, NEW V, NEW a \in V, NEW G, Steps(G, N, V)
  PROVE  \E f \in [0 .. N -> V] : Follows(f, a, G, N)
<1> DEFINE Upto(k, f) == f[0] = a /\ \A n \in 1 .. k : f[n] = G[<<n, f[n - 1]>>]
           S == {k \in 0 .. N : \E f \in [0 .. k -> V] : Upto(k, f)}
<1>1. 0 \in S
  <2> DEFINE f == [n \in 0 .. 0 |-> a]
  <2>1. f \in [0 .. 0 -> V] /\ f[0] = a /\ \A n \in 1 .. 0 : f[n] = G[<<n, f[n - 1]>>]
    OBVIOUS
  <2> HIDE DEF f
  <2>2. Upto(0, f)
    BY <2>1
  <2>3. \E h \in [0 .. 0 -> V] : Upto(0, h)
    BY <2>1, <2>2
  <2> QED BY <2>3
<1>2. ASSUME NEW k \in 0 .. N - 1, k \in S PROVE k + 1 \in S
  <2>1. PICK f \in [0 .. k -> V] : Upto(k, f)
    BY <1>2
  <2> DEFINE g == [n \in 0 .. k + 1 |-> IF n = k + 1 THEN G[<<n, f[k]>>] ELSE f[n]]
  <2>2. k + 1 \in 1 .. N /\ f[k] \in V
    OBVIOUS
  <2>3. g \in [0 .. k + 1 -> V]
    BY <2>2 DEF Steps
  <2>4. g[0] = a
    BY <2>1
  <2>5. ASSUME NEW n \in 1 .. k + 1 PROVE g[n] = G[<<n, g[n - 1]>>]
    <3>1. CASE n = k + 1
      BY <3>1
    <3>2. CASE n # k + 1
      <4>1. n \in 1 .. k /\ n - 1 \in 0 .. k
        BY <3>2
      <4> QED BY <2>1, <4>1
    <3> QED BY <3>1, <3>2
  <2> HIDE DEF g
  <2>6. k + 1 \in 0 .. N /\ Upto(k + 1, g)
    BY <2>2, <2>4, <2>5
  <2> QED BY <2>3, <2>6
<1> HIDE DEF S
<1>3. N \in S
  <2>1. \A n \in 0 .. N - 1 : n \in S => n + 1 \in S
    BY <1>2
  <2> QED BY <1>1, <2>1, Induct
<1> QED BY <1>3 DEF S, Follows

-----------------------------------------------------------------------------
(* Division.                                                               *)

\* A number from its quotient and its remainder.
LEMMA Divided ==
  ASSUME NEW w \in Nat \ {0}, NEW k \in Nat
  PROVE  k \div w \in Nat /\ k % w \in 0 .. w - 1 /\ k = (k \div w) * w + (k % w)
  OBVIOUS

\* A quotient lies below n as long as its number lies below n cells.
LEMMA QuotientBelow ==
  ASSUME NEW w \in Nat \ {0}, NEW n \in Nat, NEW k \in Nat, k < n * w
  PROVE  k \div w < n
<1> DEFINE q == k \div w
<1>1. q \in Nat /\ q * w \in Nat /\ q * w <= k /\ n * w \in Nat
  OBVIOUS
<1> HIDE DEF q
<1>2. CASE q >= n
  <2>1. PICK d \in Nat : q = n + d
    <3>1. q - n \in Nat /\ q = n + (q - n)
      BY <1>1, <1>2
    <3> QED BY <3>1
  <2>2. q * w = n * w + d * w /\ d * w \in Nat
    BY <2>1
  <2> QED BY <1>1, <2>2
<1> QED BY <1>1, <1>2 DEF q

\* How many cells n whole cells of the same width are.
LEMMA SameCount ==
  ASSUME NEW w \in Nat \ {0}, NEW n \in Nat
  PROVE  (n * w + w - 1) \div w = n
<1>1. \A r \in 0 .. w - 1 : (n * w + r) \div w = n
  OBVIOUS
<1>2. (n * w + (w - 1)) \div w = n
  BY <1>1
<1>3. n * w + w - 1 = n * w + (w - 1)
  OBVIOUS
<1> QED BY <1>2, <1>3
=============================================================================
