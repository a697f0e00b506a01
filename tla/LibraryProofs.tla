---------------------------- MODULE LibraryProofs ----------------------------
(***************************************************************************)
(* Proofs about Library, for all dictionaries, words and names, of         *)
(* programs that take no liberties.                                        *)
(***************************************************************************)
EXTENDS Library, Lemmas, SequenceTheorems, FiniteSetTheorems

\* A walk from x reaches all of S: nothing less is closed under the links.
Spans(S, next, x) ==
  \A T \in SUBSET S :
    (x # Null => x \in T) /\ (\A z \in T : next[z] # Null => next[z] \in T) => T = S

\* S is one list: linked both ways, and reached from either end.  Linked alone
\* leaves room for a ring beside the list, that no walk finds.
Line(S, first, last, next, prev) ==
  /\ Linked(S, first, last, next, prev)
  /\ Spans(S, next, first) /\ Spans(S, prev, last)

DictLines ==
  /\ Line(listed, base, recent, dnext, dprev)
  /\ Line(dicts \ listed, sdbase, sdrecent, dnext, dprev)

WordLines ==
  /\ \A d \in Dicts : Line(WordsOf(d), wbase[d], wrecent[d], wnext, wprev)
  /\ Line(words \ kept, swbase, swrecent, wnext, wprev)

\* The inductive invariant: besides the lists, every word was defined in one of
\* the dictionaries created so far.
IInv ==
  /\ TypeOK /\ DictLines /\ WordLines
  /\ \A w \in words : origin[w] \in dicts

-----------------------------------------------------------------------------
(* Lists: what the operations do to one, whatever its nodes are.           *)

\* A list whose members keep their links is the same list.
LEMMA Same ==
  ASSUME NEW S, NEW first, NEW last, NEW next, NEW prev, NEW next2, NEW prev2,
         Linked(S, first, last, next, prev),
         \A y \in S : next2[y] = next[y] /\ prev2[y] = prev[y]
  PROVE  Linked(S, first, last, next2, prev2)
BY DEF Linked

\* A member is taken out.
LEMMA Without ==
  ASSUME NEW S, NEW first, NEW last, NEW next, NEW prev, NEW next2, NEW prev2,
         NEW first2, NEW last2, NEW x, NEW T,
         x \in S, Null \notin S, T = S \ {x},
         Linked(S, first, last, next, prev),
         x = first => first2 = next[x], x # first => first2 = first,
         x = last => last2 = prev[x], x # last => last2 = last,
         \A y \in T : IF y = prev[x] THEN next2[y] = next[x] ELSE next2[y] = next[y],
         \A y \in T : IF y = next[x] THEN prev2[y] = prev[x] ELSE prev2[y] = prev[y]
  PROVE  Linked(T, first2, last2, next2, prev2)
<1>1. \A y \in S : (y = first <=> prev[y] = Null) /\ (y = last <=> next[y] = Null)
  BY DEF Linked
<1>2. \A y, z \in S : next[y] = z <=> prev[z] = y
  BY <1>1 DEF Linked
<1>3. \A y \in S : next[y] \in S \cup {Null} /\ prev[y] \in S \cup {Null}
  BY DEF Linked
<1>5. ASSUME NEW y \in T
      PROVE  IF y = first2 THEN prev2[y] = Null
             ELSE prev2[y] \in T /\ next2[prev2[y]] = y
  <2>1. CASE y = next[x]
    BY <2>1, <1>1, <1>2, <1>3 DEF Linked
  <2>2. CASE y # next[x]
    <3>1. prev2[y] = prev[y] /\ prev[y] # x
      BY <2>2, <1>2
    <3> QED BY <3>1, <2>2, <1>1, <1>2, <1>3 DEF Linked
  <2> QED BY <2>1, <2>2
<1>6. ASSUME NEW y \in T
      PROVE  IF y = last2 THEN next2[y] = Null
             ELSE next2[y] \in T /\ prev2[next2[y]] = y
  <2>1. CASE y = prev[x]
    BY <2>1, <1>1, <1>2, <1>3 DEF Linked
  <2>2. CASE y # prev[x]
    <3>1. next2[y] = next[y] /\ next[y] # x
      BY <2>2, <1>2
    <3> QED BY <3>1, <2>2, <1>1, <1>2, <1>3 DEF Linked
  <2> QED BY <2>1, <2>2
<1>7. first2 = Null <=> last2 = Null
  BY <1>1, <1>2, <1>3 DEF Linked
<1>8. {first2, last2} \ {Null} \subseteq T
  BY <1>1, <1>2, <1>3 DEF Linked
<1> QED BY <1>5, <1>6, <1>7, <1>8 DEF Linked

\* A node is put behind the last one.
LEMMA Appended ==
  ASSUME NEW S, NEW first, NEW last, NEW next, NEW prev, NEW next2, NEW prev2,
         NEW first2, NEW x, x \notin S, x # Null, Null \notin S,
         first = Null => first2 = x, first # Null => first2 = first,
         Linked(S, first, last, next, prev),
         \A y \in S : IF y = last THEN next2[y] = x ELSE next2[y] = next[y],
         \A y \in S : prev2[y] = prev[y],
         next2[x] = Null, prev2[x] = last
  PROVE  Linked(S \cup {x}, first2, x, next2, prev2)
BY DEF Linked

\* A node is put before the first one.
LEMMA Prepended ==
  ASSUME NEW S, NEW first, NEW last, NEW next, NEW prev, NEW next2, NEW prev2,
         NEW last2, NEW x, x \notin S, x # Null, Null \notin S,
         last = Null => last2 = x, last # Null => last2 = last,
         Linked(S, first, last, next, prev),
         \A y \in S : next2[y] = next[y],
         \A y \in S : IF y = first THEN prev2[y] = x ELSE prev2[y] = prev[y],
         next2[x] = first, prev2[x] = Null
  PROVE  Linked(S \cup {x}, x, last2, next2, prev2)
BY DEF Linked

\* The two directions of a list are alike.
LEMMA Turned ==
  ASSUME NEW S, NEW first, NEW last, NEW next, NEW prev,
         Linked(S, first, last, next, prev)
  PROVE  Linked(S, last, first, prev, next)
BY DEF Linked

\* A walk reaches the rest after a member was taken out: what it reaches now,
\* with that member if it comes by, is what it reached before.
LEMMA SpansWithout ==
  ASSUME NEW S, NEW first, NEW last, NEW next, NEW prev, NEW next2,
         NEW first2, NEW x, NEW T,
         x \in S, Null \notin S, T = S \ {x},
         Linked(S, first, last, next, prev), Spans(S, next, first),
         x = first => first2 = next[x], x # first => first2 = first,
         \A y \in T : IF y = prev[x] THEN next2[y] = next[x] ELSE next2[y] = next[y]
  PROVE  Spans(T, next2, first2)
<1> SUFFICES ASSUME NEW U \in SUBSET T, first2 # Null => first2 \in U,
                    \A z \in U : next2[z] # Null => next2[z] \in U
             PROVE  U = T
  BY DEF Spans
<1>1. /\ x = first <=> prev[x] = Null
      /\ \A y \in S : next[y] = x <=> prev[x] = y
      /\ \A y \in S : next[y] # Null => next[y] \in S
  BY DEF Linked
<1>2. CASE x = first \/ prev[x] \in U
  <2> DEFINE V == U \cup {x}
  <2>1. V \in SUBSET S /\ (first # Null => first \in V)
    BY <1>1, <1>2
  <2>2. ASSUME NEW z \in V, next[z] # Null PROVE next[z] \in V
    <3>1. CASE z = x
      BY <1>1, <1>2, <2>2, <3>1 DEF Linked
    <3>2. CASE z # x /\ z = prev[x]
      BY <1>1, <3>2
    <3>3. CASE z # x /\ z # prev[x]
      BY <2>2, <3>3
    <3> QED BY <3>1, <3>2, <3>3
  <2>3. V = S
    BY <2>1, <2>2 DEF Spans
  <2> QED BY <2>3
<1>3. CASE x # first /\ prev[x] \notin U
  <2>1. U \in SUBSET S /\ (first # Null => first \in U)
    BY <1>3
  <2>2. \A z \in U : next[z] # Null => next[z] \in U
    BY <1>3
  <2>3. U = S
    BY <2>1, <2>2 DEF Spans
  <2> QED BY <2>3
<1> QED BY <1>2, <1>3

\* A walk from the first reaches a node that was put behind the last.
LEMMA SpansAppended ==
  ASSUME NEW S, NEW first, NEW last, NEW next, NEW prev, NEW next2,
         NEW first2, NEW x, x \notin S, x # Null, Null \notin S,
         first = Null => first2 = x, first # Null => first2 = first,
         Linked(S, first, last, next, prev), Spans(S, next, first),
         \A y \in S : IF y = last THEN next2[y] = x ELSE next2[y] = next[y]
  PROVE  Spans(S \cup {x}, next2, first2)
<1> SUFFICES ASSUME NEW U \in SUBSET (S \cup {x}), first2 # Null => first2 \in U,
                    \A z \in U : next2[z] # Null => next2[z] \in U
             PROVE  U = S \cup {x}
  BY DEF Spans
<1>1. /\ first = Null <=> last = Null
      /\ last # Null => last \in S /\ next[last] = Null
      /\ first # Null => first \in S
      /\ \A y \in S : next[y] # Null => next[y] \in S
  BY DEF Linked
<1>2. U \cap S = S
  <2>1. U \cap S \in SUBSET S /\ (first # Null => first \in U \cap S)
    BY <1>1
  <2>2. \A z \in U \cap S : next[z] # Null => next[z] \in U \cap S
    BY <1>1
  <2> QED BY ONLY <2>1, <2>2, Spans(S, next, first) DEF Spans
<1>3. x \in U
  BY <1>1, <1>2
<1> QED BY <1>2, <1>3

\* A walk from a node that was put before the first reaches the list.
LEMMA SpansPrepended ==
  ASSUME NEW S, NEW first, NEW last, NEW next, NEW prev, NEW next2, NEW x,
         x \notin S, x # Null, Null \notin S,
         Linked(S, first, last, next, prev), Spans(S, next, first),
         \A y \in S : next2[y] = next[y], next2[x] = first
  PROVE  Spans(S \cup {x}, next2, x)
<1> SUFFICES ASSUME NEW U \in SUBSET (S \cup {x}), x \in U,
                    \A z \in U : next2[z] # Null => next2[z] \in U
             PROVE  U = S \cup {x}
  BY DEF Spans
<1>1. /\ first # Null => first \in S
      /\ \A y \in S : next[y] # Null => next[y] \in S
  BY DEF Linked
<1>2. U \cap S = S
  <2>1. U \cap S \in SUBSET S /\ (first # Null => first \in U \cap S)
    BY <1>1
  <2>2. \A z \in U \cap S : next[z] # Null => next[z] \in U \cap S
    BY <1>1
  <2> QED BY ONLY <2>1, <2>2, Spans(S, next, first) DEF Spans
<1> QED BY <1>2

\* The same of lists.
LEMMA SameLine ==
  ASSUME NEW S, NEW first, NEW last, NEW next, NEW prev, NEW next2, NEW prev2,
         Line(S, first, last, next, prev),
         \A y \in S : next2[y] = next[y] /\ prev2[y] = prev[y]
  PROVE  Line(S, first, last, next2, prev2)
<1>1. Linked(S, first, last, next2, prev2)
  BY Same DEF Line
<1>2. Spans(S, next2, first)
  BY DEF Line, Spans
<1>3. Spans(S, prev2, last)
  BY DEF Line, Spans
<1> QED BY <1>1, <1>2, <1>3 DEF Line

LEMMA WithoutLine ==
  ASSUME NEW S, NEW first, NEW last, NEW next, NEW prev, NEW next2, NEW prev2,
         NEW first2, NEW last2, NEW x, NEW T,
         x \in S, Null \notin S, T = S \ {x},
         Line(S, first, last, next, prev),
         x = first => first2 = next[x], x # first => first2 = first,
         x = last => last2 = prev[x], x # last => last2 = last,
         \A y \in T : IF y = prev[x] THEN next2[y] = next[x] ELSE next2[y] = next[y],
         \A y \in T : IF y = next[x] THEN prev2[y] = prev[x] ELSE prev2[y] = prev[y]
  PROVE  Line(T, first2, last2, next2, prev2)
<1>1. Linked(S, first, last, next, prev) /\ Spans(S, next, first) /\ Spans(S, prev, last)
  BY DEF Line
<1>2. Linked(S, last, first, prev, next)
  BY <1>1, Turned
<1>3. Linked(T, first2, last2, next2, prev2)
  BY <1>1, Without
<1>4. Spans(T, next2, first2)
  BY <1>1, SpansWithout
<1>5. Spans(T, prev2, last2)
  BY <1>1, <1>2, SpansWithout
<1> QED BY <1>3, <1>4, <1>5 DEF Line

LEMMA AppendedLine ==
  ASSUME NEW S, NEW first, NEW last, NEW next, NEW prev, NEW next2, NEW prev2,
         NEW first2, NEW x, x \notin S, x # Null, Null \notin S,
         first = Null => first2 = x, first # Null => first2 = first,
         Line(S, first, last, next, prev),
         \A y \in S : IF y = last THEN next2[y] = x ELSE next2[y] = next[y],
         \A y \in S : prev2[y] = prev[y],
         next2[x] = Null, prev2[x] = last
  PROVE  Line(S \cup {x}, first2, x, next2, prev2)
<1>1. Linked(S, first, last, next, prev) /\ Spans(S, next, first) /\ Spans(S, prev, last)
  BY DEF Line
<1>2. Linked(S, last, first, prev, next)
  BY <1>1, Turned
<1>3. Linked(S \cup {x}, first2, x, next2, prev2)
  BY <1>1, Appended
<1>4. Spans(S \cup {x}, next2, first2)
  BY <1>1, SpansAppended
<1>5. Spans(S \cup {x}, prev2, x)
  BY <1>1, <1>2, SpansPrepended
<1> QED BY <1>3, <1>4, <1>5 DEF Line

LEMMA PrependedLine ==
  ASSUME NEW S, NEW first, NEW last, NEW next, NEW prev, NEW next2, NEW prev2,
         NEW last2, NEW x, x \notin S, x # Null, Null \notin S,
         last = Null => last2 = x, last # Null => last2 = last,
         Line(S, first, last, next, prev),
         \A y \in S : next2[y] = next[y],
         \A y \in S : IF y = first THEN prev2[y] = x ELSE prev2[y] = prev[y],
         next2[x] = first, prev2[x] = Null
  PROVE  Line(S \cup {x}, x, last2, next2, prev2)
<1>1. Linked(S, first, last, next, prev) /\ Spans(S, next, first) /\ Spans(S, prev, last)
  BY DEF Line
<1>2. Linked(S, last, first, prev, next)
  BY <1>1, Turned
<1>3. Linked(S \cup {x}, x, last2, next2, prev2)
  BY <1>1, Prepended
<1>4. Spans(S \cup {x}, next2, x)
  BY <1>1, SpansPrepended
<1>5. Spans(S \cup {x}, prev2, last2)
  BY <1>1, <1>2, SpansAppended
<1> QED BY <1>3, <1>4, <1>5 DEF Line

\* A walk stays in a set that has its start and is closed under its links.
LEMMA ReachStays ==
  ASSUME NEW Node, NEW next, NEW x, NEW S \in SUBSET Node,
         x # Null => x \in S,
         \A z \in S : next[z] # Null => next[z] \in S
  PROVE  Reach(Node, next, x) \subseteq S
BY DEF Reach

\* A walk along either link from an end of a list stays among its members.
LEMMA WalksStay ==
  ASSUME NEW Node, NEW S \in SUBSET Node, NEW first, NEW last, NEW next, NEW prev,
         Linked(S, first, last, next, prev)
  PROVE  Reach(Node, next, first) \subseteq S /\ Reach(Node, prev, last) \subseteq S
<1>1. (first # Null => first \in S) /\ (last # Null => last \in S)
  BY DEF Linked
<1>2. \A z \in S : (next[z] # Null => next[z] \in S) /\ (prev[z] # Null => prev[z] \in S)
  BY DEF Linked
<1>3. Reach(Node, next, first) \subseteq S
  BY <1>1, <1>2, ReachStays
<1>4. Reach(Node, prev, last) \subseteq S
  BY <1>1, <1>2, ReachStays
<1> QED BY <1>3, <1>4

\* A walk along either link from an end of a list finds all its members.
LEMMA WalksFindAll ==
  ASSUME NEW Node, NEW S \in SUBSET Node, NEW first, NEW last, NEW next, NEW prev,
         Line(S, first, last, next, prev)
  PROVE  Reach(Node, next, first) = S /\ Reach(Node, prev, last) = S
<1>1. Linked(S, first, last, next, prev) /\ Spans(S, next, first) /\ Spans(S, prev, last)
  BY DEF Line
<1>2. Reach(Node, next, first) \subseteq S /\ Reach(Node, prev, last) \subseteq S
  BY <1>1, WalksStay
<1>3. /\ first # Null => first \in S
      /\ last # Null => last \in S
      /\ \A z \in S : (next[z] # Null => next[z] \in S) /\ (prev[z] # Null => prev[z] \in S)
  BY <1>1 DEF Linked
<1>4. ASSUME NEW x, NEW link, Spans(S, link, x), x # Null => x \in S,
             \A z \in S : link[z] # Null => link[z] \in S
      PROVE  S \subseteq Reach(Node, link, x)
  <2> SUFFICES ASSUME NEW T \in SUBSET Node, x # Null => x \in T,
                      \A z \in T : link[z] # Null => link[z] \in T
               PROVE  S \subseteq T
    BY DEF Reach
  <2>1. S \cap T \in SUBSET S /\ (x # Null => x \in S \cap T)
    BY <1>4
  <2>2. \A z \in S \cap T : link[z] # Null => link[z] \in S \cap T
    BY <1>4
  <2>3. S \cap T = S
    BY ONLY <1>4, <2>1, <2>2 DEF Spans
  <2> QED BY <2>3
<1>5. S \subseteq Reach(Node, next, first) /\ S \subseteq Reach(Node, prev, last)
  BY ONLY <1>1, <1>3, <1>4
<1> QED BY <1>2, <1>5

\* Taking a node out changes the links of its neighbours.
LEMMA Skipped ==
  ASSUME NEW Node, Null \notin Node, NEW x \in Node,
         NEW next \in [Node -> Node \cup {Null}], NEW prev \in [Node -> Node \cup {Null}]
  PROVE  /\ SkippedNext(next, prev, x) \in [Node -> Node \cup {Null}]
         /\ SkippedPrev(next, prev, x) \in [Node -> Node \cup {Null}]
         /\ \A y \in Node : SkippedNext(next, prev, x)[y] =
                              IF y = prev[x] THEN next[x] ELSE next[y]
         /\ \A y \in Node : SkippedPrev(next, prev, x)[y] =
                              IF y = next[x] THEN prev[x] ELSE prev[y]
BY DEF SkippedNext, SkippedPrev

-----------------------------------------------------------------------------
(* Lists as sequences.                                                     *)

\* q is the list S in order: the members, each once, as next links them.
Path(q, S, first, next) ==
  /\ q \in Seq(S) /\ \A x \in S : \E i \in 1 .. Len(q) : q[i] = x
  /\ \A i, j \in 1 .. Len(q) : q[i] = q[j] => i = j
  /\ first = IF Len(q) = 0 THEN Null ELSE q[1]
  /\ \A i \in 1 .. Len(q) : next[q[i]] = IF i = Len(q) THEN Null ELSE q[i + 1]

\* The smallest of some numbers.
LEMMA MinIs ==
  ASSUME NEW S \in SUBSET Nat, NEW m \in S, \A k \in S : m <= k
  PROVE  Min(S) = m
<1>1. \E x \in S : \A y \in S : x <= y
  OBVIOUS
<1>2. Min(S) \in S /\ \A y \in S : Min(S) <= y
  BY <1>1 DEF Min
<1>3. Min(S) \in Nat /\ m \in Nat /\ Min(S) <= m /\ m <= Min(S)
  BY <1>2
<1> QED  BY <1>3

LEMMA Least ==
  ASSUME NEW S \in SUBSET Nat, S # {}
  PROVE  Min(S) \in S /\ \A k \in S : Min(S) <= k
<1>1. PICK n \in Nat : n \in S
  OBVIOUS
<1> DEFINE T == Nat \ S
<1>2. n \notin T
  BY <1>1
<1> HIDE DEF T
<1>3. PICK m \in Nat : m \notin T /\ \A k \in Nat : k < m => k \in T
  BY <1>2, Smallest
<1>4. m \in S /\ \A k \in S : m <= k
  BY <1>3 DEF T
<1> QED  BY <1>4 DEF Min

\* A path is not longer than there are nodes.
LEMMA PathLength ==
  ASSUME NEW Node, IsFiniteSet(Node), NEW n \in Nat, NEW f \in [1 .. n -> Node],
         \A i, j \in 1 .. n : f[i] = f[j] => i = j
  PROVE  n <= Cardinality(Node)
<1>1. f \in Injection(1 .. n, Node)
  BY DEF Injection, IsInjective
<1>2. Cardinality(1 .. n) <= Cardinality(Node)
  BY <1>1, FS_Injection
<1>3. Cardinality(1 .. n) = n
  BY FS_Interval
<1> QED  BY <1>2, <1>3

\* Chain walks along a path to its end.
LEMMA ChainIs ==
  ASSUME NEW S, Null \notin S, NEW first, NEW next, NEW q, Path(q, S, first, next),
         NEW n \in Nat, Len(q) <= n
  PROVE  Chain(next, first, n) = q
<1> DEFINE Def(g) == [i \in 0 .. n |-> IF i = 0 THEN first
                                       ELSE IF g[i - 1] = Null THEN Null ELSE next[g[i - 1]]]
           at == CHOOSE g : g = Def(g)
           l == Len(q)
           f == [i \in 0 .. n |-> IF i < l THEN q[i + 1] ELSE Null]
<1>1. /\ l \in Nat /\ l <= n /\ q \in [1 .. l -> S] /\ q \in Seq(S)
      /\ first = IF l = 0 THEN Null ELSE q[1]
      /\ \A i \in 1 .. l : next[q[i]] = IF i = l THEN Null ELSE q[i + 1]
  BY LenProperties DEF Path
<1> HIDE DEF l
<1>2. ASSUME NEW i \in 0 .. n
      PROVE  f[i] = IF i = 0 THEN first
                    ELSE IF f[i - 1] = Null THEN Null ELSE next[f[i - 1]]
  <2>1. CASE i = 0
    BY <1>1, <2>1
  <2>2. CASE i # 0 /\ i - 1 < l
    <3>1. f[i - 1] = q[i] /\ q[i] \in S /\ i \in 1 .. l
      BY <1>1, <2>2
    <3> QED  BY <1>1, <2>2, <3>1
  <2>3. CASE i # 0 /\ i - 1 >= l
    BY <1>1, <2>3
  <2> QED  BY <1>1, <2>1, <2>2, <2>3
<1>3. f = Def(f)
  BY <1>2
<1>4. at = Def(at)
  BY <1>3
<1>5. \A i \in 0 .. n : at[i] = IF i = 0 THEN first
                                ELSE IF at[i - 1] = Null THEN Null ELSE next[at[i - 1]]
  <2>1. \A i \in 0 .. n : at[i] = Def(at)[i]
    BY <1>4
  <2> HIDE DEF at
  <2> QED  BY <2>1
<1> DEFINE T == {i \in 0 .. n : at[i] = f[i]}
<1>6. 0 .. n \subseteq T
  <2> HIDE DEF at
  <2>1. 0 \in T
    <3> HIDE DEF f
    <3>1. at[0] = f[0] /\ 0 \in 0 .. n
      BY <1>2, <1>5
    <3> QED  BY <3>1
  <2>2. ASSUME NEW k \in 0 .. n - 1, k \in T PROVE k + 1 \in T
    <3>1. k + 1 \in 0 .. n /\ k + 1 # 0 /\ (k + 1) - 1 = k /\ at[k] = f[k]
      BY <2>2
    <3>2. at[k + 1] = f[k + 1]
      <4> HIDE DEF f
      <4> QED  BY <1>2, <1>5, <3>1
    <3> QED  BY <3>1, <3>2
  <2> HIDE DEF T
  <2> QED  BY <2>1, <2>2, Induct
<1> DEFINE ends == {i \in 0 .. n : i = n \/ at[i] = Null}
<1>7. Min(ends) = l
  <2>1. l \in ends
    BY <1>1, <1>6
  <2>2. \A k \in ends : l <= k
    <3> SUFFICES ASSUME NEW k \in ends, k < l PROVE FALSE
      BY <1>1
    <3>1. k \in 0 .. n /\ at[k] = f[k] /\ f[k] = q[k + 1] /\ q[k + 1] \in S /\ k # n
      BY <1>1, <1>6
    <3> HIDE DEF at, f
    <3> QED  BY <3>1
  <2>3. ends \in SUBSET Nat
    OBVIOUS
  <2> HIDE DEF ends
  <2> QED  BY <2>1, <2>2, <2>3, MinIs
<1>8. Chain(next, first, n) = [i \in 1 .. Min(ends) |-> at[i - 1]]
  BY DEF Chain
<1>9. [i \in 1 .. l |-> at[i - 1]] = q
  <2>1. \A i \in 1 .. l : at[i - 1] = q[i]
    <3> SUFFICES ASSUME NEW i \in 1 .. l PROVE at[i - 1] = q[i]
      OBVIOUS
    <3>1. i - 1 \in 0 .. n /\ i - 1 < l /\ (i - 1) + 1 = i
      BY <1>1
    <3>2. at[i - 1] = f[i - 1]
      BY <1>6, <3>1
    <3>3. f[i - 1] = q[i]
      BY <3>1
    <3> QED  BY <3>2, <3>3
  <2> HIDE DEF at
  <2> QED  BY <1>1, <2>1
<1> QED  BY <1>7, <1>8, <1>9

\* A list has a path.
LEMMA PathExists ==
  ASSUME NEW Node, IsFiniteSet(Node), Null \notin Node, NEW S \in SUBSET Node,
         NEW first, NEW last, NEW next, NEW prev, Line(S, first, last, next, prev)
  PROVE  \E q : Path(q, S, first, next)
<1> DEFINE N == Cardinality(Node)
           V == S \cup {Null}
           G == [p \in (1 .. N) \X V |-> IF p[2] = Null THEN Null ELSE next[p[2]]]
<1>1. N \in Nat /\ Null \notin S
  BY FS_CardinalityType
<1>2. /\ first \in V
      /\ \A x \in S : next[x] \in V
      /\ \A x, y \in S : next[x] = y => prev[y] = x
      /\ first # Null => prev[first] = Null
  BY <1>1 DEF Line, Linked
<1>3. PICK f \in [0 .. N -> V] : f[0] = first /\ \A n \in 1 .. N : f[n] = G[<<n, f[n - 1]>>]
  <2>1. Steps(G, N, V)
    BY <1>2 DEF Steps
  <2> HIDE DEF N, V, G
  <2>2. \E f \in [0 .. N -> V] : Follows(f, first, G, N)
    BY <1>1, <1>2, <2>1, Defined
  <2> QED  BY <2>2 DEF Follows
<1>4. \A n \in 1 .. N : f[n] = IF f[n - 1] = Null THEN Null ELSE next[f[n - 1]]
  <2>1. \A n \in 1 .. N : n - 1 \in 0 .. N
    BY <1>1
  <2> QED  BY <1>3, <2>1
<1> HIDE DEF N, G
\* No member comes twice: the first that does would have another before it.
<1>5. ASSUME NEW i \in 0 .. N, NEW j \in 0 .. N, f[i] # Null, f[i] = f[j] PROVE i = j
  <2> DEFINE Twice(k) == k \in 0 .. N /\ f[k] # Null /\ \E h \in 0 .. N : h # k /\ f[h] = f[k]
             T == {k \in Nat : ~Twice(k)}
  <2> SUFFICES ASSUME i # j PROVE FALSE
    OBVIOUS
  <2>1. i \in Nat /\ i \notin T
    BY <1>1, <1>5
  <2>2. PICK k \in Nat : k \notin T /\ \A h \in Nat : h < k => h \in T
    <3> HIDE DEF T
    <3> QED  BY <2>1, Smallest
  <2>3. PICK h \in 0 .. N : h # k /\ f[h] = f[k]
    BY <2>2
  <2>4. k \in 0 .. N /\ f[k] # Null
    BY <2>2
  <2>5. k < h
    <3>1. CASE h < k
      <4>1. h \in Nat /\ Twice(h)
        BY <1>1, <2>3, <2>4, <3>1
      <4> QED  BY <2>2, <3>1, <4>1
    <3> QED  BY <1>1, <2>3, <2>4, <3>1
  <2>6. h \in 1 .. N /\ h - 1 \in 0 .. N /\ f[h - 1] \in S /\ next[f[h - 1]] = f[h]
    <3>1. h \in 1 .. N /\ h - 1 \in 0 .. N
      BY <1>1, <2>3, <2>4, <2>5
    <3>2. f[h - 1] # Null
      BY <1>4, <2>3, <2>4, <3>1
    <3> QED  BY <1>4, <3>1, <3>2
  <2>7. f[h] \in S /\ prev[f[h]] = f[h - 1]
    BY <1>2, <2>3, <2>4, <2>6
  <2>8. k # 0
    <3>1. CASE k = 0
      <4>1. f[h] = first /\ first # Null
        BY <1>3, <2>3, <2>4, <3>1
      <4>2. f[h - 1] = Null
        BY <1>2, <2>7, <4>1
      <4> QED  BY <1>1, <2>6, <4>2
    <3> QED  BY <3>1
  <2>9. k \in 1 .. N /\ k - 1 \in 0 .. N /\ f[k - 1] \in S /\ next[f[k - 1]] = f[k]
    <3>1. k \in 1 .. N /\ k - 1 \in 0 .. N
      BY <1>1, <2>4, <2>8
    <3>2. f[k - 1] # Null
      BY <1>4, <2>4, <3>1
    <3> QED  BY <1>4, <3>1, <3>2
  <2>10. f[k - 1] = f[h - 1]
    BY <1>2, <2>3, <2>7, <2>9
  <2>11. Twice(k - 1)
    BY <1>1, <2>3, <2>6, <2>9, <2>10
  <2>12. k - 1 \in Nat /\ k - 1 < k
    BY <2>9
  <2> HIDE DEF Twice
  <2> QED  BY <2>2, <2>11, <2>12
<1> DEFINE ends == {i \in 0 .. N : f[i] = Null}
<1>6. ends # {}
  <2> SUFFICES ASSUME ends = {} PROVE FALSE
    OBVIOUS
  <2> DEFINE g == [i \in 1 .. N + 1 |-> f[i - 1]]
             m == N + 1
  <2>1. m \in Nat
    BY <1>1
  <2>2. \A i \in 1 .. m : i - 1 \in 0 .. N /\ f[i - 1] \in Node /\ f[i - 1] # Null
    BY <1>1
  <2>3. g \in [1 .. m -> Node]
    BY <2>2
  <2>4. \A i, j \in 1 .. m : g[i] = g[j] => i = j
    <3> SUFFICES ASSUME NEW i \in 1 .. m, NEW j \in 1 .. m, g[i] = g[j] PROVE i = j
      OBVIOUS
    <3>1. f[i - 1] = f[j - 1]
      OBVIOUS
    <3>2. i - 1 = j - 1
      BY <1>5, <2>2, <3>1
    <3> QED  BY <1>1, <3>2
  <2> HIDE DEF g, m
  <2>5. m <= N
    BY <2>1, <2>3, <2>4, PathLength DEF N
  <2> QED  BY <1>1, <2>5 DEF m
<1> DEFINE m == Min(ends)
           q == [i \in 1 .. m |-> f[i - 1]]
<1>7. m \in 0 .. N /\ f[m] = Null /\ \A i \in 0 .. N : f[i] = Null => m <= i
  <2>1. ends \in SUBSET Nat
    OBVIOUS
  <2>2. m \in ends /\ \A i \in ends : m <= i
    <3> HIDE DEF ends
    <3> QED  BY <1>6, <2>1, Least
  <2> HIDE DEF m
  <2> QED  BY <2>2
<1> HIDE DEF m, ends
<1>8. \A i \in 1 .. m : i - 1 \in 0 .. N /\ f[i - 1] # Null /\ f[i - 1] \in S
  BY <1>1, <1>7
<1>9. /\ q \in [1 .. m -> S] /\ q \in Seq(S) /\ Len(q) = m
      /\ \A i \in 1 .. m : q[i] = f[i - 1]
  BY <1>1, <1>7, <1>8
<1>10. \A i, j \in 1 .. m : q[i] = q[j] => i = j
  <2> SUFFICES ASSUME NEW i \in 1 .. m, NEW j \in 1 .. m, q[i] = q[j] PROVE i = j
    OBVIOUS
  <2>1. i - 1 = j - 1
    BY <1>5, <1>8, <1>9
  <2> QED  BY <1>7, <2>1
<1>11. first = IF m = 0 THEN Null ELSE q[1]
  BY <1>3, <1>7, <1>9
<1>12. \A i \in 1 .. m : next[q[i]] = IF i = m THEN Null ELSE q[i + 1]
  <2> SUFFICES ASSUME NEW i \in 1 .. m PROVE next[q[i]] = IF i = m THEN Null ELSE q[i + 1]
    OBVIOUS
  <2>1. i \in 1 .. N
    BY <1>1, <1>7
  <2>2. f[i] = next[q[i]]
    BY <1>4, <1>8, <1>9, <2>1
  <2>3. i # m => i + 1 \in 1 .. m /\ (i + 1) - 1 = i
    BY <1>7
  <2> QED  BY <1>7, <1>9, <2>2, <2>3
<1> HIDE DEF q
<1>13. \A x \in S : \E i \in 1 .. m : q[i] = x
  <2> DEFINE T == {q[i] : i \in 1 .. m}
  <2>1. T \in SUBSET S
    BY <1>9
  <2>2. first # Null => first \in T
    BY <1>7, <1>11
  <2>3. ASSUME NEW z \in T, next[z] # Null PROVE next[z] \in T
    <3>1. PICK i \in 1 .. m : z = q[i]
      OBVIOUS
    <3>2. i # m /\ next[z] = q[i + 1] /\ i + 1 \in 1 .. m
      BY <1>7, <1>12, <2>3, <3>1
    <3> QED  BY <3>2
  <2>4. T = S
    <3> HIDE DEF T
    <3> QED  BY <2>1, <2>2, <2>3 DEF Line, Spans
  <2> QED  BY <2>4
<1>14. Path(q, S, first, next)
  BY <1>9, <1>10, <1>11, <1>12, <1>13 DEF Path
<1> QED  BY <1>14

\* The path of a list with x taken out, put behind the others or before them; or
\* as it was.
Shrunk(S, first, next, T, first2, next2, x) ==
  \A q : Path(q, S, first, next) => Path(RemoveFirst(q, x), T, first2, next2)
Grown(S, first, next, T, first2, next2, x) ==
  \A q : Path(q, S, first, next) => Path(Append(q, x), T, first2, next2)
Led(S, first, next, T, first2, next2, x) ==
  \A q : Path(q, S, first, next) => Path(<< x >> \o q, T, first2, next2)
Kept(S, first, next, T, first2, next2) ==
  \A q : Path(q, S, first, next) => Path(q, T, first2, next2)

LEMMA KeptPath ==
  ASSUME NEW S, NEW first, NEW next, NEW next2, \A y \in S : next2[y] = next[y]
  PROVE  Kept(S, first, next, S, first, next2)
<1> SUFFICES ASSUME NEW q, Path(q, S, first, next) PROVE Path(q, S, first, next2)
  BY DEF Kept
<1>1. \A i \in 1 .. Len(q) : q[i] \in S
  BY LenProperties DEF Path
<1> QED  BY <1>1 DEF Path

\* What a path says of the links of its list.
LEMMA PathLinks ==
  ASSUME NEW S, Null \notin S, NEW first, NEW next, NEW q, Path(q, S, first, next)
  PROVE  /\ Len(q) \in Nat /\ q \in Seq(S)
         /\ \A i \in 1 .. Len(q) : q[i] \in S
         /\ \A i \in 1 .. Len(q) : next[q[i]] = Null <=> i = Len(q)
         /\ \A i \in 1 .. Len(q) : i # Len(q) => next[q[i]] = q[i + 1]
         /\ Len(q) = 0 <=> first = Null
         /\ Len(q) # 0 => first = q[1]
<1>1. /\ Len(q) \in Nat /\ q \in Seq(S)
      /\ \A i \in 1 .. Len(q) : q[i] \in S
  BY LenProperties DEF Path
<1> DEFINE l == Len(q)
<1>2. \A i \in 1 .. l : next[q[i]] = IF i = l THEN Null ELSE q[i + 1]
  BY DEF Path
<1>3. first = IF l = 0 THEN Null ELSE q[1]
  BY DEF Path
<1>4. \A i \in 1 .. l : i # l => i + 1 \in 1 .. l
  BY <1>1
<1> QED  BY <1>1, <1>2, <1>3, <1>4

LEMMA GrownPath ==
  ASSUME NEW S, NEW first, NEW last, NEW next, NEW prev, NEW next2,
         NEW first2, NEW x, x \notin S, x # Null, Null \notin S,
         first = Null => first2 = x, first # Null => first2 = first,
         Linked(S, first, last, next, prev),
         \A y \in S : IF y = last THEN next2[y] = x ELSE next2[y] = next[y],
         next2[x] = Null
  PROVE  Grown(S, first, next, S \cup {x}, first2, next2, x)
<1> SUFFICES ASSUME NEW q, Path(q, S, first, next)
             PROVE  Path(Append(q, x), S \cup {x}, first2, next2)
  BY DEF Grown
<1> DEFINE T == S \cup {x}
           r == Append(q, x)
           l == Len(q)
<1>1. /\ l \in Nat /\ q \in Seq(S)
      /\ \A i \in 1 .. l : q[i] \in S
      /\ \A i \in 1 .. l : next[q[i]] = Null <=> i = l
      /\ \A i \in 1 .. l : i # l => next[q[i]] = q[i + 1]
      /\ l = 0 <=> first = Null
      /\ l # 0 => first = q[1]
  BY PathLinks
<1>2. /\ \A y \in S : \E i \in 1 .. l : q[i] = y
      /\ \A i, j \in 1 .. l : q[i] = q[j] => i = j
  BY DEF Path
<1>3. \A y \in S : y = last <=> next[y] = Null
  BY DEF Linked
<1>4. q \in Seq(T) /\ x \in T
  BY <1>1
<1>5. /\ r \in Seq(T) /\ Len(r) = l + 1
      /\ \A i \in 1 .. l : r[i] = q[i]
      /\ r[l + 1] = x
  BY <1>4, AppendProperties
<1> HIDE DEF r, l
<1>6. \A y \in T : \E i \in 1 .. l + 1 : r[i] = y
  <2>1. \A y \in S : \E i \in 1 .. l + 1 : r[i] = y
    BY <1>1, <1>2, <1>5
  <2>2. l + 1 \in 1 .. l + 1
    BY <1>1
  <2> QED  BY <1>5, <2>1, <2>2
<1>7. \A i, j \in 1 .. l + 1 : r[i] = r[j] => i = j
  <2>1. \A i \in 1 .. l + 1 : i = l + 1 \/ i \in 1 .. l
    BY <1>1
  <2> QED  BY <1>1, <1>2, <1>5, <2>1
<1>8. first2 = r[1]
  BY <1>1, <1>5
<1>9. ASSUME NEW i \in 1 .. l + 1
      PROVE  next2[r[i]] = IF i = l + 1 THEN Null ELSE r[i + 1]
  <2>1. CASE i = l + 1
    BY <1>5, <2>1
  <2>2. CASE i = l /\ i \in 1 .. l
    BY <1>1, <1>3, <1>5, <2>2
  <2>3. CASE i # l /\ i \in 1 .. l
    <3>1. i + 1 \in 1 .. l /\ i # l + 1
      BY <1>1, <2>3
    <3> QED  BY <1>1, <1>3, <1>5, <2>3, <3>1
  <2> QED  BY <1>1, <2>1, <2>2, <2>3
<1>10. Len(r) # 0 /\ 1 \in 1 .. l + 1
  BY <1>1, <1>5
<1> HIDE DEF T
<1>11. Path(r, T, first2, next2)
  BY <1>5, <1>6, <1>7, <1>8, <1>9, <1>10 DEF Path
<1> QED  BY <1>11 DEF T, r

LEMMA LedPath ==
  ASSUME NEW S, NEW first, NEW next, NEW next2, NEW x, x \notin S, x # Null, Null \notin S,
         \A y \in S : next2[y] = next[y], next2[x] = first
  PROVE  Led(S, first, next, S \cup {x}, x, next2, x)
<1> SUFFICES ASSUME NEW q, Path(q, S, first, next)
             PROVE  Path(<< x >> \o q, S \cup {x}, x, next2)
  BY DEF Led
<1> DEFINE T == S \cup {x}
           r == << x >> \o q
           l == Len(q)
<1>1. /\ l \in Nat /\ q \in Seq(S)
      /\ \A i \in 1 .. l : q[i] \in S
      /\ \A i \in 1 .. l : next[q[i]] = Null <=> i = l
      /\ \A i \in 1 .. l : i # l => next[q[i]] = q[i + 1]
      /\ l = 0 <=> first = Null
      /\ l # 0 => first = q[1]
  BY PathLinks
<1>2. /\ \A y \in S : \E i \in 1 .. l : q[i] = y
      /\ \A i, j \in 1 .. l : q[i] = q[j] => i = j
  BY DEF Path
<1>3. /\ q \in Seq(T) /\ << x >> \in Seq(T) /\ Len(<< x >>) = 1 /\ << x >>[1] = x
  BY <1>1
<1>4. /\ r \in Seq(T) /\ Len(r) = 1 + l
      /\ \A i \in 1 .. 1 + l : r[i] = IF i <= 1 THEN << x >>[i] ELSE q[i - 1]
  BY <1>3, ConcatProperties
<1>5. /\ Len(r) = l + 1 /\ r[1] = x
      /\ \A i \in 1 .. l : r[i + 1] = q[i]
  <2>1. \A i \in 1 .. l : i + 1 \in 1 .. 1 + l /\ ~(i + 1 <= 1) /\ (i + 1) - 1 = i
    BY <1>1
  <2> HIDE DEF r, l
  <2> QED  BY <1>1, <1>3, <1>4, <2>1
<1> HIDE DEF r, l
<1>6. \A y \in T : \E i \in 1 .. l + 1 : r[i] = y
  <2>1. \A y \in S : \E i \in 1 .. l + 1 : r[i] = y
    <3> SUFFICES ASSUME NEW y \in S PROVE \E i \in 1 .. l + 1 : r[i] = y
      OBVIOUS
    <3>1. PICK i \in 1 .. l : q[i] = y
      BY <1>2
    <3>2. i + 1 \in 1 .. l + 1 /\ r[i + 1] = y
      BY <1>1, <1>5, <3>1
    <3> QED  BY <3>2
  <2>2. 1 \in 1 .. l + 1
    BY <1>1
  <2> QED  BY <1>5, <2>1, <2>2
<1>7. \A i \in 1 .. l + 1 : i = 1 \/ (i - 1 \in 1 .. l /\ r[i] = q[i - 1])
  <2>1. \A i \in 1 .. l + 1 : i = 1 \/ (i - 1 \in 1 .. l /\ (i - 1) + 1 = i)
    BY <1>1
  <2> QED  BY <1>5, <2>1
<1>8. ASSUME NEW i \in 1 .. l + 1, NEW j \in 1 .. l + 1, r[i] = r[j] PROVE i = j
  <2>1. CASE i # 1 /\ j # 1
    <3>1. i - 1 = j - 1
      BY <1>2, <1>7, <1>8, <2>1
    <3> QED  BY <1>1, <3>1
  <2> QED  BY <1>1, <1>5, <1>7, <1>8, <2>1
<1>9. ASSUME NEW i \in 1 .. l + 1
      PROVE  next2[r[i]] = IF i = l + 1 THEN Null ELSE r[i + 1]
  <2>1. CASE i = 1
    <3>1. l # 0 => 1 \in 1 .. l
      BY <1>1
    <3> QED  BY <1>1, <1>5, <2>1, <3>1
  <2>2. CASE i # 1
    <3>1. i - 1 \in 1 .. l /\ r[i] = q[i - 1] /\ next2[r[i]] = next[q[i - 1]]
      BY <1>1, <1>7, <2>2
    <3>2. i # l + 1 => i \in 1 .. l /\ r[i + 1] = q[i] /\ (i - 1) + 1 = i /\ i - 1 # l
      BY <1>1, <1>5, <2>2
    <3>3. i = l + 1 => i - 1 = l
      BY <1>1
    <3> QED  BY <1>1, <3>1, <3>2, <3>3
  <2> QED  BY <2>1, <2>2
<1>10. Len(r) # 0
  BY <1>1, <1>5
<1> HIDE DEF T
<1>11. Path(r, T, x, next2)
  BY <1>4, <1>5, <1>6, <1>8, <1>9, <1>10 DEF Path
<1> QED  BY <1>11 DEF T, r

\* r is q without its k-th member, and what it has is of T.
Skips(r, q, k, T) ==
  /\ r \in Seq(T) /\ Len(r) = Len(q) - 1
  /\ \A i \in 1 .. Len(q) - 1 : r[i] = IF i < k THEN q[i] ELSE q[i + 1]

\* A sequence whose k-th member, and no other, is x, without x.
LEMMA Removed ==
  ASSUME NEW S, NEW q \in Seq(S), NEW k \in 1 .. Len(q), NEW x, q[k] = x,
         \A i, j \in 1 .. Len(q) : q[i] = q[j] => i = j,
         NEW T, \A i \in 1 .. Len(q) : i # k => q[i] \in T
  PROVE  Skips(RemoveFirst(q, x), q, k, T)
<1> DEFINE l == Len(q)
           I == {i \in 1 .. l : q[i] = x}
           a == SubSeq(q, 1, k - 1)
           b == SubSeq(q, k + 1, l)
<1>1. l \in Nat /\ k \in 1 .. l
  BY LenProperties
<1>2. I # {} /\ Min(I) = k
  <2>1. I = {k}
    OBVIOUS
  <2>2. k \in Nat /\ {k} \in SUBSET Nat
    OBVIOUS
  <2>3. Min({k}) = k
    BY <2>2, MinIs
  <2> QED  BY <2>1, <2>3
<1>3. RemoveFirst(q, x) = a \o b
  <2>1. SelectInSeq(q, LAMBDA v : v = x) = k
    BY <1>2 DEF SelectInSeq
  <2> QED  BY <2>1 DEF RemoveFirst, RemoveAt
<1>4. /\ a \in Seq(T) /\ Len(a) = k - 1
      /\ \A i \in 1 .. k - 1 : a[i] = q[i]
  <2>1. \A i \in 1 .. k - 1 : q[i] \in T
    BY <1>1
  <2>2. 1 \in Int /\ k - 1 \in Int
    BY <1>1
  <2>3. /\ a \in Seq(T) /\ Len(a) = IF 1 <= k - 1 THEN (k - 1) - 1 + 1 ELSE 0
        /\ \A i \in 1 .. (k - 1) - 1 + 1 : a[i] = q[1 + i - 1]
    BY <2>1, <2>2, SubSeqProperties
  <2> HIDE DEF a
  <2> QED  BY <1>1, <2>3
<1>5. /\ b \in Seq(T) /\ Len(b) = l - k
      /\ \A i \in 1 .. l - k : b[i] = q[k + i]
  <2>1. \A i \in k + 1 .. l : q[i] \in T
    BY <1>1
  <2>2. k + 1 \in Int /\ l \in Int
    BY <1>1
  <2>3. /\ b \in Seq(T) /\ Len(b) = IF k + 1 <= l THEN l - (k + 1) + 1 ELSE 0
        /\ \A i \in 1 .. l - (k + 1) + 1 : b[i] = q[(k + 1) + i - 1]
    BY <2>1, <2>2, SubSeqProperties
  <2> HIDE DEF b, l
  <2>4. \A i \in 1 .. l - k : (k + 1) + i - 1 = k + i /\ i \in 1 .. l - (k + 1) + 1
    BY <1>1
  <2> QED  BY <1>1, <2>3, <2>4
<1> HIDE DEF a, b
<1>6. /\ a \o b \in Seq(T) /\ Len(a \o b) = Len(a) + Len(b)
      /\ \A i \in 1 .. Len(a) + Len(b) :
           (a \o b)[i] = IF i <= Len(a) THEN a[i] ELSE b[i - Len(a)]
  <2>1. a \in Seq(T) /\ b \in Seq(T)
    BY <1>4, <1>5
  <2> QED  BY ONLY <2>1, ConcatProperties
<1> DEFINE r == a \o b
<1> HIDE DEF r, l
<1>7. r \in Seq(T) /\ Len(r) = l - 1
  BY <1>1, <1>4, <1>5, <1>6 DEF r
<1>8. \A i \in 1 .. l - 1 : r[i] = IF i < k THEN q[i] ELSE q[i + 1]
  <2> SUFFICES ASSUME NEW i \in 1 .. l - 1 PROVE r[i] = IF i < k THEN q[i] ELSE q[i + 1]
    OBVIOUS
  <2>1. r[i] = IF i <= k - 1 THEN a[i] ELSE b[i - (k - 1)]
    BY <1>1, <1>4, <1>5, <1>6 DEF r
  <2>2. CASE i < k
    BY <1>1, <1>4, <2>1, <2>2
  <2>3. CASE i >= k
    <3>1. i - (k - 1) \in 1 .. l - k /\ k + (i - (k - 1)) = i + 1
      BY <1>1, <2>3
    <3> QED  BY <1>1, <1>5, <2>1, <2>3, <3>1
  <2> QED  BY <1>1, <2>2, <2>3
<1> QED  BY <1>3, <1>7, <1>8 DEF r, l, Skips

LEMMA ShrunkPath ==
  ASSUME NEW S, NEW first, NEW last, NEW next, NEW prev, NEW next2,
         NEW first2, NEW x, NEW T,
         x \in S, Null \notin S, T = S \ {x},
         Linked(S, first, last, next, prev),
         x = first => first2 = next[x], x # first => first2 = first,
         \A y \in T : IF y = prev[x] THEN next2[y] = next[x] ELSE next2[y] = next[y]
  PROVE  Shrunk(S, first, next, T, first2, next2, x)
<1> SUFFICES ASSUME NEW q, Path(q, S, first, next)
             PROVE  Path(RemoveFirst(q, x), T, first2, next2)
  BY DEF Shrunk
<1> DEFINE r == RemoveFirst(q, x)
           l == Len(q)
<1>1. /\ l \in Nat /\ q \in Seq(S)
      /\ \A i \in 1 .. l : q[i] \in S
      /\ \A i \in 1 .. l : next[q[i]] = Null <=> i = l
      /\ \A i \in 1 .. l : i # l => next[q[i]] = q[i + 1]
      /\ l = 0 <=> first = Null
      /\ l # 0 => first = q[1]
  BY PathLinks
<1>2. /\ \A y \in S : \E i \in 1 .. l : q[i] = y
      /\ \A i, j \in 1 .. l : q[i] = q[j] => i = j
  BY DEF Path
<1>3. PICK k \in 1 .. l : q[k] = x
  BY <1>2
<1>4. \A i \in 1 .. l : i # k => q[i] \in T
  BY <1>1, <1>2, <1>3
<1>5. /\ r \in Seq(T) /\ Len(r) = l - 1
      /\ \A i \in 1 .. l - 1 : r[i] = IF i < k THEN q[i] ELSE q[i + 1]
  <2>1. /\ k \in 1 .. Len(q) /\ q \in Seq(S) /\ q[k] = x
        /\ \A i, j \in 1 .. Len(q) : q[i] = q[j] => i = j
        /\ \A i \in 1 .. Len(q) : i # k => q[i] \in T
    BY <1>1, <1>2, <1>3, <1>4
  <2>2. Skips(RemoveFirst(q, x), q, k, T)
    BY ONLY <2>1, Removed
  <2> QED  BY <2>2 DEF Skips
<1>6. \A y \in T : y = prev[x] <=> next[y] = x
  BY DEF Linked
<1> HIDE DEF r, l
<1>7. \A y \in T : \E i \in 1 .. l - 1 : r[i] = y
  <2> SUFFICES ASSUME NEW y \in T PROVE \E i \in 1 .. l - 1 : r[i] = y
    OBVIOUS
  <2>1. PICK i \in 1 .. l : q[i] = y
    BY <1>2
  <2>2. i # k
    BY <1>3, <2>1
  <2>3. CASE i < k
    <3>1. i \in 1 .. l - 1 /\ r[i] = y
      BY <1>1, <1>3, <1>5, <2>1, <2>3
    <3> QED  BY <3>1
  <2>4. CASE i > k
    <3>1. i - 1 \in 1 .. l - 1 /\ ~(i - 1 < k) /\ (i - 1) + 1 = i
      BY <1>1, <1>3, <2>4
    <3>2. r[i - 1] = y
      BY <1>5, <2>1, <3>1
    <3> QED  BY <3>1, <3>2
  <2> QED  BY <1>1, <2>2, <2>3, <2>4
<1>8. ASSUME NEW i \in 1 .. l - 1, NEW j \in 1 .. l - 1, r[i] = r[j] PROVE i = j
  <2> DEFINE at(h) == IF h < k THEN h ELSE h + 1
  <2>1. \A h \in 1 .. l - 1 : at(h) \in 1 .. l /\ r[h] = q[at(h)]
    BY <1>1, <1>5
  <2>2. at(i) = at(j)
    <3> HIDE DEF at
    <3> QED  BY <1>2, <1>8, <2>1
  <2> QED  BY <1>1, <2>2
<1>9. first2 = IF Len(r) = 0 THEN Null ELSE r[1]
  <2>1. k = 1 <=> x = first
    <3>1. first = q[1] /\ 1 \in 1 .. l
      BY <1>1, <1>3
    <3> QED  BY <1>2, <1>3, <3>1
  <2>2. CASE k = 1
    <3>1. first2 = next[q[1]]
      BY <1>3, <2>1, <2>2
    <3>2. CASE l = 1
      BY <1>1, <1>5, <3>1, <3>2
    <3>3. CASE l # 1
      <4>1. 1 \in 1 .. l - 1 /\ 1 \in 1 .. l
        BY <1>1, <1>3, <3>3
      <4>2. r[1] = q[1 + 1] /\ next[q[1]] = q[1 + 1] /\ Len(r) # 0
        BY <1>1, <1>5, <2>2, <3>3, <4>1
      <4> QED  BY <3>1, <4>2
    <3> QED  BY <3>2, <3>3
  <2>3. CASE k # 1
    <3>1. 1 \in 1 .. l - 1 /\ 1 < k /\ l - 1 # 0 /\ l # 0
      BY <1>1, <1>3, <2>3
    <3>2. r[1] = q[1] /\ first2 = first
      BY <1>5, <2>1, <2>3, <3>1
    <3> QED  BY <1>1, <1>5, <3>1, <3>2
  <2> QED  BY <2>2, <2>3
<1>10. ASSUME NEW i \in 1 .. l - 1
       PROVE  next2[r[i]] = IF i = l - 1 THEN Null ELSE r[i + 1]
  <2>1. r[i] \in T
    BY <1>1, <1>4, <1>5
  <2>2. CASE i < k - 1
    <3>1. i \in 1 .. l /\ i # l /\ i + 1 \in 1 .. l - 1 /\ i + 1 < k /\ i + 1 \in 1 .. l
      BY <1>1, <1>3, <2>2
    <3>2. r[i] = q[i] /\ r[i + 1] = q[i + 1] /\ next[q[i]] = q[i + 1] /\ i # l - 1
      BY <1>1, <1>3, <1>5, <2>2, <3>1
    <3>3. next[r[i]] # x
      BY <1>2, <1>3, <3>1, <3>2
    <3> QED  BY <1>6, <2>1, <3>2, <3>3
  <2>3. CASE i = k - 1
    <3>1. i \in 1 .. l /\ i # l /\ i + 1 = k /\ i < k
      BY <1>1, <1>3, <2>3
    <3>2. r[i] = q[i] /\ next[r[i]] = x
      BY <1>1, <1>3, <1>5, <3>1
    <3>3. next2[r[i]] = next[q[k]]
      BY <1>3, <1>6, <2>1, <3>2
    <3>4. CASE i = l - 1
      <4>1. k = l
        BY <1>1, <3>1, <3>4
      <4> QED  BY <1>1, <3>3, <3>4, <4>1
    <3>5. CASE i # l - 1
      <4>1. k # l /\ i + 1 \in 1 .. l - 1 /\ ~(i + 1 < k)
        BY <1>1, <3>1, <3>5
      <4>2. r[i + 1] = q[k + 1]
        BY <1>5, <3>1, <4>1
      <4> QED  BY <1>1, <1>3, <3>3, <3>5, <4>1, <4>2
    <3> QED  BY <3>4, <3>5
  <2>4. CASE i >= k
    <3>1. i + 1 \in 1 .. l /\ ~(i < k) /\ i # 0
      BY <1>1, <1>3, <2>4
    <3>2. r[i] = q[i + 1]
      BY <1>5, <3>1
    <3>3. next[r[i]] = IF i + 1 = l THEN Null ELSE q[(i + 1) + 1]
      BY <1>1, <3>1, <3>2
    <3>4. next[r[i]] # x
      <4>1. CASE i + 1 = l
        BY <3>3, <4>1
      <4>2. CASE i + 1 # l
        <5>1. (i + 1) + 1 \in 1 .. l /\ (i + 1) + 1 # k
          BY <1>1, <1>3, <2>4, <3>1, <4>2
        <5> QED  BY <1>2, <1>3, <3>3, <4>2, <5>1
      <4> QED  BY <4>1, <4>2
    <3>5. next2[r[i]] = next[r[i]]
      BY <1>6, <2>1, <3>4
    <3>6. i + 1 # l => i + 1 \in 1 .. l - 1 /\ ~(i + 1 < k)
      BY <1>1, <2>4, <3>1
    <3>7. i + 1 # l => r[i + 1] = q[(i + 1) + 1]
      BY <1>5, <3>6
    <3>8. i + 1 = l <=> i = l - 1
      BY <1>1
    <3> QED  BY <3>3, <3>5, <3>7, <3>8
  <2> QED  BY <1>1, <1>3, <2>2, <2>3, <2>4
<1> HIDE DEF Path
<1>11. Path(r, T, first2, next2)
  BY <1>5, <1>7, <1>8, <1>9, <1>10 DEF Path
<1> QED  BY <1>11 DEF r

-----------------------------------------------------------------------------
(* The operations on dictionaries.                                         *)

\* Nothing is in an empty list, and a list of one is reached at once.
LEMMA NoneLine ==
  ASSUME NEW next, NEW prev
  PROVE  Line({}, Null, Null, next, prev)
<1>1. Linked({}, Null, Null, next, prev)
  BY DEF Linked
<1>2. Spans({}, next, Null) /\ Spans({}, prev, Null)
  BY DEF Spans
<1> QED BY <1>1, <1>2 DEF Line

LEMMA OneLine ==
  ASSUME NEW x, x # Null, NEW next, NEW prev, next[x] = Null, prev[x] = Null
  PROVE  Line({x}, x, x, next, prev)
<1>1. Linked({x}, x, x, next, prev)
  BY DEF Linked
<1>2. Spans({x}, next, x) /\ Spans({x}, prev, x)
  BY DEF Spans
<1> QED BY <1>1, <1>2 DEF Line

LEMMA InitHolds == Init => IInv
<1> SUFFICES ASSUME Init PROVE IInv
  OBVIOUS
<1> USE LibraryAssumption
<1>1. TypeOK /\ \A w \in words : origin[w] \in dicts
  BY DEF Init, TypeOK, DictOrNull, WordOrNull
<1>2. DictLines
  <2>1. Line({Core}, Core, Core, dnext, dprev)
    BY OneLine DEF Init
  <2>2. Line({}, Null, Null, dnext, dprev)
    BY NoneLine
  <2>3. listed = {Core} /\ dicts \ listed = {}
    BY DEF Init
  <2> QED BY <2>1, <2>2, <2>3 DEF Init, DictLines
<1>3. WordLines
  <2>1. \A d \in Dicts : WordsOf(d) = {} /\ wbase[d] = Null /\ wrecent[d] = Null
    BY DEF Init, WordsOf
  <2>2. words \ kept = {} /\ swbase = Null /\ swrecent = Null
    BY DEF Init
  <2> QED BY <2>1, <2>2, NoneLine DEF WordLines
<1> QED BY <1>1, <1>2, <1>3 DEF IInv

\* What an operation on dictionaries has to show.
LEMMA WordsStay ==
  ASSUME IInv, UNCHANGED wordVars, TypeOK', DictLines', dicts \subseteq dicts'
  PROVE  IInv'
<1>1. WordLines'
  BY DEF IInv, WordLines, WordsOf, wordVars
<1> QED BY <1>1 DEF IInv, wordVars

\* DICTIONARY puts the new one behind the last.
LEMMA NewDictKeeps ==
  ASSUME IInv, NEW d \in Dicts, NewDict(d)
  PROVE  IInv' /\ Grown(listed, base, dnext, listed', base', dnext', d)
<1> USE LibraryAssumption DEF IInv, NewDict, DictOrNull
<1>1. TypeOK'
  BY DEF TypeOK, mainVars, shadowVars, wordVars
<1>2. /\ Line(listed, base, recent, dnext, dprev)
      /\ Line(dicts \ listed, sdbase, sdrecent, dnext, dprev)
  BY DEF DictLines
<1>3. base # Null /\ recent \in listed /\ d \notin listed /\ d # recent
  BY <1>2 DEF TypeOK, Line, Linked
<1>4. \A y \in Dicts : /\ dnext'[y] = IF y = recent THEN d ELSE IF y = d THEN Null ELSE dnext[y]
                       /\ dprev'[y] = IF y = d THEN recent ELSE dprev[y]
  BY <1>3 DEF TypeOK
<1>5. /\ Line(listed', base', recent', dnext', dprev')
      /\ Grown(listed, base, dnext, listed', base', dnext', d)
  <2>1. \A y \in listed : /\ dnext'[y] = IF y = recent THEN d ELSE dnext[y]
                          /\ dprev'[y] = dprev[y]
    BY <1>3, <1>4 DEF TypeOK
  <2>2. dnext'[d] = Null /\ dprev'[d] = recent /\ d # Null /\ Null \notin listed
    BY <1>3, <1>4 DEF TypeOK
  <2>3. base' = IF base = Null THEN d ELSE base
    BY <1>3
  <2>4. Line(listed \cup {d}, base', d, dnext', dprev')
    BY ONLY <1>2, <1>3, <2>1, <2>2, <2>3, AppendedLine
  <2>5. Linked(listed, base, recent, dnext, dprev)
    BY <1>2 DEF Line
  <2>6. Grown(listed, base, dnext, listed \cup {d}, base', dnext', d)
    BY ONLY <2>5, <1>3, <2>1, <2>2, <2>3, GrownPath
  <2> QED BY <2>4, <2>6
<1>6. Line((dicts \ listed)', sdbase', sdrecent', dnext', dprev')
  <2>1. (dicts \ listed)' = dicts \ listed
    BY <1>3
  <2>2. \A y \in dicts \ listed : dnext'[y] = dnext[y] /\ dprev'[y] = dprev[y]
    BY <1>3, <1>4 DEF TypeOK
  <2>3. Line(dicts \ listed, sdbase, sdrecent, dnext', dprev')
    BY ONLY <1>2, <2>2, SameLine
  <2> QED BY <2>1, <2>3 DEF shadowVars
<1>7. UNCHANGED wordVars /\ dicts \subseteq dicts'
  OBVIOUS
<1> QED BY <1>1, <1>5, <1>6, <1>7, WordsStay DEF DictLines

\* FORGET-DICT takes one out of the library and puts it behind the last of the
\* shadow library.
LEMMA ForgetDictKeeps ==
  ASSUME IInv, Liberties = {}, NEW d \in Dicts, ForgetDict(d)
  PROVE  IInv' /\ Shrunk(listed, base, dnext, listed', base', dnext', d)
<1> USE LibraryAssumption DEF IInv, DictOrNull
<1> DEFINE next == SkippedNext(dnext, dprev, d)
           prev == SkippedPrev(dnext, dprev, d)
<1>1. d \in listed /\ d \in dicts /\ ~OnlyOne(d) /\ listed' = listed \ {d} /\ dicts' = dicts
  BY DEF ForgetDict
<1>2. /\ Line(listed, base, recent, dnext, dprev)
      /\ Line(dicts \ listed, sdbase, sdrecent, dnext, dprev)
  BY DEF DictLines
<1>3. /\ next \in [Dicts -> DictOrNull] /\ prev \in [Dicts -> DictOrNull]
      /\ \A y \in Dicts : next[y] = IF y = dprev[d] THEN dnext[d] ELSE dnext[y]
      /\ \A y \in Dicts : prev[y] = IF y = dnext[d] THEN dprev[d] ELSE dprev[y]
  BY Skipped DEF TypeOK
<1>4. /\ sdbase = Null <=> sdrecent = Null
      /\ sdrecent \in (dicts \ listed) \cup {Null}
      /\ dnext[d] \in listed \cup {Null} /\ dprev[d] \in listed \cup {Null}
      /\ d = base <=> dprev[d] = Null
      /\ d = recent <=> dnext[d] = Null
  BY <1>1, <1>2 DEF Line, Linked, TypeOK
<1>5. /\ base' = (IF d = base THEN dnext[d] ELSE base)
      /\ recent' = (IF d = recent THEN dprev[d] ELSE recent)
  BY <1>4 DEF ForgetDict, NewestWithout
<1>6. dnext' \in [Dicts -> DictOrNull] /\ dprev' \in [Dicts -> DictOrNull]
  BY <1>3, <1>4 DEF ForgetDict, TypeOK
<1>7. TypeOK'
  <2>1. base' \in Dicts /\ recent' \in Dicts
    BY <1>1, <1>4, <1>5 DEF TypeOK, OnlyOne
  <2> QED BY <1>1, <1>6, <2>1 DEF ForgetDict, TypeOK, wordVars
<1>8. \A y \in Dicts : /\ dnext'[y] = IF y = d THEN Null ELSE IF y = sdrecent THEN d ELSE next[y]
                       /\ dprev'[y] = IF y = d THEN sdrecent ELSE prev[y]
  BY <1>3, <1>4 DEF ForgetDict, TypeOK
<1>9. /\ Line(listed', base', recent', dnext', dprev')
      /\ Shrunk(listed, base, dnext, listed', base', dnext', d)
  <2>1. /\ \A y \in listed' : IF y = dprev[d] THEN dnext'[y] = dnext[d] ELSE dnext'[y] = dnext[y]
        /\ \A y \in listed' : IF y = dnext[d] THEN dprev'[y] = dprev[d] ELSE dprev'[y] = dprev[y]
    BY <1>1, <1>3, <1>4, <1>8 DEF TypeOK
  <2>2. /\ d \in listed /\ Null \notin listed /\ listed' = listed \ {d}
        /\ (d = base => base' = dnext[d]) /\ (d # base => base' = base)
        /\ (d = recent => recent' = dprev[d]) /\ (d # recent => recent' = recent)
    BY <1>1, <1>5 DEF TypeOK
  <2>3. Line(listed', base', recent', dnext', dprev')
    BY ONLY <1>2, <2>1, <2>2, WithoutLine
  <2>4. Linked(listed, base, recent, dnext, dprev)
    BY <1>2 DEF Line
  <2>5. Shrunk(listed, base, dnext, listed', base', dnext', d)
    BY ONLY <2>1, <2>2, <2>4, ShrunkPath
  <2> QED BY <2>3, <2>5
<1>10. Line((dicts \ listed)', sdbase', sdrecent', dnext', dprev')
  <2>1. \A y \in dicts \ listed : /\ dnext'[y] = IF y = sdrecent THEN d ELSE dnext[y]
                                  /\ dprev'[y] = dprev[y]
    BY <1>1, <1>3, <1>4, <1>8 DEF TypeOK
  <2>2. /\ dnext'[d] = Null /\ dprev'[d] = sdrecent /\ d # Null
        /\ Null \notin dicts \ listed /\ d \notin dicts \ listed
    BY <1>1, <1>8 DEF TypeOK
  <2>3. sdbase' = (IF sdbase = Null THEN d ELSE sdbase) /\ sdrecent' = d
    BY DEF ForgetDict
  <2>4. Line((dicts \ listed) \cup {d}, sdbase', d, dnext', dprev')
    BY ONLY <1>2, <2>1, <2>2, <2>3, AppendedLine
  <2>5. (dicts \ listed)' = (dicts \ listed) \cup {d}
    BY <1>1
  <2> QED BY <2>3, <2>4, <2>5
<1>11. UNCHANGED wordVars /\ dicts \subseteq dicts'
  BY DEF ForgetDict
<1> QED BY <1>7, <1>9, <1>10, <1>11, WordsStay DEF DictLines

\* REMEMBER-DICT takes one out of the shadow library that is not the oldest of
\* several and puts it behind the last of the library.
LEMMA RememberDictKeeps ==
  ASSUME IInv, Liberties = {}, NEW d \in Dicts, RememberDict(d)
  PROVE  IInv' /\ Grown(listed, base, dnext, listed', base', dnext', d)
<1> USE LibraryAssumption DEF IInv, DictOrNull
<1> DEFINE next == SkippedNext(dnext, dprev, d)
           prev == SkippedPrev(dnext, dprev, d)
           shadow == dicts \ listed
<1>1. Line(listed, base, recent, dnext, dprev) /\ Line(shadow, sdbase, sdrecent, dnext, dprev)
  BY DEF DictLines
<1>2. d \in shadow /\ (d # sdbase \/ d = sdrecent)
  <2>1. shadow \in SUBSET Dicts
    BY DEF TypeOK
  <2>2. Reach(Dicts, dnext, sdbase) \subseteq shadow
    BY ONLY <1>1, <2>1, WalksFindAll
  <2> QED BY <2>2 DEF RememberDict
<1>3. /\ next \in [Dicts -> DictOrNull] /\ prev \in [Dicts -> DictOrNull]
      /\ \A y \in Dicts : next[y] = IF y = dprev[d] THEN dnext[d] ELSE dnext[y]
      /\ \A y \in Dicts : prev[y] = IF y = dnext[d] THEN dprev[d] ELSE dprev[y]
  BY Skipped DEF TypeOK
<1>4. /\ base # Null /\ base \in listed /\ recent \in listed
      /\ dnext[d] \in shadow \cup {Null} /\ dprev[d] \in shadow \cup {Null}
      /\ d = sdbase <=> dprev[d] = Null
      /\ d = sdrecent <=> dnext[d] = Null
  BY <1>1, <1>2 DEF Line, Linked, TypeOK
<1>5. /\ d = sdbase => sdbase' = dnext[d]
      /\ d # sdbase => sdbase' = sdbase
      /\ d = sdrecent => sdrecent' = dprev[d]
      /\ d # sdrecent => sdrecent' = sdrecent
  BY <1>2, <1>4 DEF RememberDict, ShadowWithout
<1>6. dprev' = [prev EXCEPT ![d] = recent]
  BY <1>2, <1>4 DEF RememberDict, SkippedPrev
<1>7. /\ dnext' \in [Dicts -> DictOrNull] /\ dprev' \in [Dicts -> DictOrNull]
      /\ \A y \in Dicts : /\ dnext'[y] = IF y = recent THEN d ELSE IF y = d THEN Null ELSE next[y]
                          /\ dprev'[y] = IF y = d THEN recent ELSE prev[y]
  BY <1>2, <1>3, <1>4, <1>6 DEF RememberDict, TypeOK
<1>8. base' = base /\ recent' = d /\ listed' = listed \cup {d} /\ shadow' = shadow \ {d}
  BY <1>2 DEF RememberDict
<1>9. TypeOK'
  <2>1. sdbase' \in DictOrNull /\ sdrecent' \in DictOrNull
    BY <1>4, <1>5 DEF TypeOK
  <2> QED BY <1>2, <1>7, <1>8, <2>1 DEF RememberDict, TypeOK, wordVars
<1>10. /\ Line(listed', base', recent', dnext', dprev')
       /\ Grown(listed, base, dnext, listed', base', dnext', d)
  <2>1. \A y \in listed : /\ dnext'[y] = IF y = recent THEN d ELSE dnext[y]
                          /\ dprev'[y] = dprev[y]
    BY <1>2, <1>3, <1>4, <1>7 DEF TypeOK
  <2>2. /\ dnext'[d] = Null /\ dprev'[d] = recent /\ d # Null
        /\ Null \notin listed /\ d \notin listed
    BY <1>2, <1>4, <1>7 DEF TypeOK
  <2>3. base' = IF base = Null THEN d ELSE base
    BY <1>4, <1>8
  <2>4. Line(listed \cup {d}, base', d, dnext', dprev')
    BY ONLY <1>1, <2>1, <2>2, <2>3, AppendedLine
  <2>5. Linked(listed, base, recent, dnext, dprev)
    BY <1>1 DEF Line
  <2>6. Grown(listed, base, dnext, listed \cup {d}, base', dnext', d)
    BY ONLY <2>1, <2>2, <2>3, <2>5, GrownPath
  <2> QED BY <1>8, <2>4, <2>6
<1>11. Line(shadow', sdbase', sdrecent', dnext', dprev')
  <2>1. /\ \A y \in shadow' : IF y = dprev[d] THEN dnext'[y] = dnext[d] ELSE dnext'[y] = dnext[y]
        /\ \A y \in shadow' : IF y = dnext[d] THEN dprev'[y] = dprev[d] ELSE dprev'[y] = dprev[y]
    BY <1>3, <1>4, <1>7, <1>8 DEF TypeOK
  <2>2. Null \notin shadow
    BY DEF TypeOK
  <2> QED BY ONLY <1>1, <1>2, <1>5, <1>8, <2>1, <2>2, WithoutLine
<1>12. UNCHANGED wordVars /\ dicts \subseteq dicts'
  BY DEF RememberDict
<1> QED BY <1>9, <1>10, <1>11, <1>12, WordsStay DEF DictLines

\* PROMOTE-DICT takes one out of the middle of the library and puts it before
\* the first.
LEMMA PromoteDictKeeps ==
  ASSUME IInv, Liberties = {}, NEW d \in Dicts, PromoteDict(d)
  PROVE  /\ IInv' /\ d \in listed /\ listed' = listed
         /\ \A q : Path(q, listed, base, dnext) =>
                    Path(<< d >> \o RemoveFirst(q, d), listed', base', dnext')
<1> USE LibraryAssumption DEF IInv, DictOrNull
<1> DEFINE next == SkippedNext(dnext, dprev, d)
           prev == SkippedPrev(dnext, dprev, d)
           others == listed \ {d}
<1>1. /\ Line(listed, base, recent, dnext, dprev)
      /\ Line(dicts \ listed, sdbase, sdrecent, dnext, dprev)
  BY DEF DictLines
<1>2. d \in listed /\ d # base /\ d # recent
  BY DEF PromoteDict
<1>3. /\ next \in [Dicts -> DictOrNull] /\ prev \in [Dicts -> DictOrNull]
      /\ \A y \in Dicts : next[y] = IF y = dprev[d] THEN dnext[d] ELSE dnext[y]
      /\ \A y \in Dicts : prev[y] = IF y = dnext[d] THEN dprev[d] ELSE dprev[y]
  BY Skipped DEF TypeOK
<1>4. /\ base # Null /\ base \in listed /\ recent # Null
      /\ dnext[d] \in listed /\ dprev[d] \in listed
  BY <1>1, <1>2 DEF Line, Linked, TypeOK
<1>5. /\ dnext' = [next EXCEPT ![d] = base]
      /\ dprev' = [prev EXCEPT ![base] = d, ![d] = Null]
      /\ base' = d /\ recent' = recent
      /\ listed' = listed /\ dicts' = dicts /\ UNCHANGED <<wordVars, shadowVars>>
  BY <1>2, <1>4 DEF PromoteDict, TypeOK
<1>6. \A y \in Dicts : /\ dnext'[y] = IF y = d THEN base ELSE next[y]
                       /\ dprev'[y] = IF y = d THEN Null ELSE IF y = base THEN d ELSE prev[y]
  BY <1>3, <1>5 DEF TypeOK
<1>7. TypeOK'
  BY <1>2, <1>3, <1>5 DEF TypeOK, wordVars, shadowVars
<1>8. /\ Line(listed', base', recent', dnext', dprev')
      /\ \A q : Path(q, listed, base, dnext) =>
                 Path(<< d >> \o RemoveFirst(q, d), listed', base', dnext')
  <2>1. /\ \A y \in others : IF y = dprev[d] THEN next[y] = dnext[d] ELSE next[y] = dnext[y]
        /\ \A y \in others : IF y = dnext[d] THEN prev[y] = dprev[d] ELSE prev[y] = dprev[y]
    BY <1>3 DEF TypeOK
  <2>2. Null \notin listed /\ d # Null
    BY DEF TypeOK
  <2>3. Line(others, base, recent, next, prev)
    BY ONLY <1>1, <1>2, <2>1, <2>2, WithoutLine
  <2>4. \A y \in others : /\ dnext'[y] = next[y]
                          /\ dprev'[y] = IF y = base THEN d ELSE prev[y]
    BY <1>6 DEF TypeOK
  <2>5. /\ dnext'[d] = base /\ dprev'[d] = Null /\ Null \notin others /\ d \notin others
        /\ recent = IF recent = Null THEN d ELSE recent
    BY <1>4, <1>6, <2>2
  <2>6. Line(others \cup {d}, d, recent, dnext', dprev')
    BY ONLY <2>2, <2>3, <2>4, <2>5, PrependedLine
  <2>7. Linked(listed, base, recent, dnext, dprev)
    BY <1>1 DEF Line
  <2>8. Shrunk(listed, base, dnext, others, base, next, d)
    BY ONLY <1>2, <2>1, <2>2, <2>7, ShrunkPath
  <2>9. Led(others, base, next, others \cup {d}, d, dnext', d)
    BY ONLY <2>2, <2>4, <2>5, LedPath
  <2>10. others \cup {d} = listed' /\ base' = d
    BY <1>2, <1>5
  <2> QED BY <1>5, <2>6, <2>8, <2>9, <2>10 DEF Shrunk, Led
<1>9. Line((dicts \ listed)', sdbase', sdrecent', dnext', dprev')
  <2>1. \A y \in dicts \ listed : dnext'[y] = dnext[y] /\ dprev'[y] = dprev[y]
    BY <1>2, <1>3, <1>4, <1>6 DEF TypeOK
  <2>2. Line(dicts \ listed, sdbase, sdrecent, dnext', dprev')
    BY ONLY <1>1, <2>1, SameLine
  <2> QED BY <1>5, <2>2 DEF shadowVars
<1> QED BY <1>2, <1>5, <1>7, <1>8, <1>9, WordsStay DEF DictLines

-----------------------------------------------------------------------------
(* The operations on words.                                                *)

\* What an operation on words has to show.
LEMMA DictsStay ==
  ASSUME IInv, UNCHANGED <<mainVars, dictVars, shadowVars, dicts, listed>>,
         TypeOK', WordLines', \A w \in words' : origin'[w] \in dicts'
  PROVE  IInv'
BY DEF IInv, TypeOK, DictLines, mainVars, dictVars, shadowVars

\* A definition is put behind the last word of its dictionary.
LEMMA AddWordKeeps ==
  ASSUME IInv, NEW d \in Dicts, NEW w \in Words, AddWord(d, w)
  PROVE  /\ IInv'
         /\ \A e \in Dicts :
              IF e = d THEN Grown(WordsOf(e), wbase[e], wnext, WordsOf(e)', wbase'[e], wnext', w)
              ELSE Kept(WordsOf(e), wbase[e], wnext, WordsOf(e)', wbase'[e], wnext')
<1> USE LibraryAssumption DEF IInv, DictOrNull, WordOrNull
<1>1. /\ \A e \in Dicts : Line(WordsOf(e), wbase[e], wrecent[e], wnext, wprev)
      /\ Line(words \ kept, swbase, swrecent, wnext, wprev)
  BY DEF WordLines
<1>2. w \notin words /\ w \notin kept /\ words' = words \cup {w} /\ kept' = kept \cup {w}
  BY DEF AddWord, TypeOK
<1>3. /\ wbase' = [wbase EXCEPT ![d] = IF wbase[d] = Null THEN w ELSE wbase[d]]
      /\ wrecent' = [wrecent EXCEPT ![d] = w]
      /\ wprev' = [wprev EXCEPT ![w] = wrecent[d]]
      /\ origin' = [origin EXCEPT ![w] = d]
      /\ wnext' \in [Words -> WordOrNull]
      /\ \A y \in Words : wnext'[y] = IF y = w THEN Null ELSE IF y = wrecent[d] THEN w ELSE wnext[y]
  <2>1. wbase' = [wbase EXCEPT ![d] = IF wbase[d] = Null THEN w ELSE wbase[d]]
    BY DEF AddWord, TypeOK
  <2>2. /\ wrecent' = [wrecent EXCEPT ![d] = w]
        /\ wprev' = [wprev EXCEPT ![w] = wrecent[d]]
        /\ origin' = [origin EXCEPT ![w] = d]
    BY DEF AddWord
  <2>3. wnext \in [Words -> WordOrNull] /\ Null \notin Words
    BY DEF TypeOK
  <2>4. /\ wnext' \in [Words -> WordOrNull]
        /\ \A y \in Words :
             wnext'[y] = IF y = w THEN Null ELSE IF y = wrecent[d] THEN w ELSE wnext[y]
    <3>1. CASE wrecent[d] = Null
      <4>1. wnext' = [wnext EXCEPT ![w] = Null]
        BY <3>1 DEF AddWord
      <4> QED BY <2>3, <3>1, <4>1
    <3>2. CASE wrecent[d] # Null
      <4>1. wnext' = [[wnext EXCEPT ![wrecent[d]] = w] EXCEPT ![w] = Null]
        BY <3>2 DEF AddWord
      <4>2. wrecent[d] \in Words
        BY <3>2 DEF TypeOK
      <4> QED BY <2>3, <4>1, <4>2
    <3> QED BY <3>1, <3>2
  <2> QED BY <2>1, <2>2, <2>4
<1>4. wrecent[d] \in WordsOf(d) \cup {Null}
  BY <1>1 DEF Line, Linked
<1>5. TypeOK'
  BY <1>2, <1>3 DEF AddWord, TypeOK, mainVars, dictVars, shadowVars
<1>6. ASSUME NEW e \in Dicts
      PROVE  /\ Line(WordsOf(e)', wbase'[e], wrecent'[e], wnext', wprev')
             /\ IF e = d THEN Grown(WordsOf(e), wbase[e], wnext, WordsOf(e)', wbase'[e], wnext', w)
                ELSE Kept(WordsOf(e), wbase[e], wnext, WordsOf(e)', wbase'[e], wnext')
  <2>1. CASE e = d
    <3>1. \A y \in WordsOf(e) : /\ wnext'[y] = IF y = wrecent[e] THEN w ELSE wnext[y]
                                /\ wprev'[y] = wprev[y]
      BY <1>2, <1>3, <2>1 DEF WordsOf, TypeOK
    <3>2. /\ wnext'[w] = Null /\ wprev'[w] = wrecent[e] /\ w # Null
          /\ Null \notin WordsOf(e) /\ w \notin WordsOf(e)
      BY <1>2, <1>3, <2>1 DEF WordsOf, TypeOK
    <3>3. wbase'[e] = (IF wbase[e] = Null THEN w ELSE wbase[e]) /\ wrecent'[e] = w
      BY <1>3, <2>1 DEF TypeOK
    <3>4. /\ Line(WordsOf(e) \cup {w}, wbase'[e], w, wnext', wprev')
          /\ Grown(WordsOf(e), wbase[e], wnext, WordsOf(e) \cup {w}, wbase'[e], wnext', w)
      <4> DEFINE W == WordsOf(e)
                 first == wbase[e]
                 last == wrecent[e]
      <4>1. Line(W, first, last, wnext, wprev)
        BY <1>1
      <4>2. /\ \A y \in W : IF y = last THEN wnext'[y] = w ELSE wnext'[y] = wnext[y]
            /\ \A y \in W : wprev'[y] = wprev[y]
            /\ wprev'[w] = last /\ w \notin W /\ Null \notin W
            /\ (first = Null => wbase'[e] = w) /\ (first # Null => wbase'[e] = first)
        BY <3>1, <3>2, <3>3
      <4>3. Line(W \cup {w}, wbase'[e], w, wnext', wprev')
        <5> HIDE DEF W, first, last
        <5> QED BY ONLY <3>2, <4>1, <4>2, AppendedLine
      <4>4. Grown(W, first, wnext, W \cup {w}, wbase'[e], wnext', w)
        <5>1. Linked(W, first, last, wnext, wprev)
          BY <4>1 DEF Line
        <5> HIDE DEF W, first, last
        <5> QED BY ONLY <3>2, <4>2, <5>1, GrownPath
      <4> QED BY <4>3, <4>4
    <3>5. WordsOf(e)' = WordsOf(e) \cup {w}
      BY <1>2, <1>3, <2>1 DEF WordsOf, TypeOK
    <3> QED BY <2>1, <3>3, <3>4, <3>5
  <2>2. CASE e # d
    <3>1. \A y \in WordsOf(e) : wnext'[y] = wnext[y] /\ wprev'[y] = wprev[y]
      BY <1>2, <1>3, <1>4, <2>2 DEF WordsOf, TypeOK
    <3>2. WordsOf(e)' = WordsOf(e) /\ wbase'[e] = wbase[e] /\ wrecent'[e] = wrecent[e]
      BY <1>2, <1>3, <2>2 DEF WordsOf, TypeOK
    <3>3. Line(WordsOf(e), wbase[e], wrecent[e], wnext', wprev')
      BY ONLY <1>1, <3>1, e \in Dicts, SameLine
    <3>4. Kept(WordsOf(e), wbase[e], wnext, WordsOf(e), wbase[e], wnext')
      BY ONLY <3>1, KeptPath
    <3> QED BY <2>2, <3>2, <3>3, <3>4
  <2> QED BY <2>1, <2>2
<1>7. Line((words \ kept)', swbase', swrecent', wnext', wprev')
  <2>1. \A y \in words \ kept : wnext'[y] = wnext[y] /\ wprev'[y] = wprev[y]
    BY <1>2, <1>3, <1>4 DEF WordsOf, TypeOK
  <2>2. Line(words \ kept, swbase, swrecent, wnext', wprev')
    BY ONLY <1>1, <2>1, SameLine
  <2>3. (words \ kept)' = words \ kept
    BY <1>2 DEF TypeOK
  <2> QED BY <2>2, <2>3 DEF AddWord
<1>8. \A v \in words' : origin'[v] \in dicts'
  <2>1. Line(listed, base, recent, dnext, dprev) /\ listed \in SUBSET Dicts
    BY DEF DictLines, TypeOK
  <2>2. Found = listed
    BY ONLY <2>1, WalksFindAll DEF Found
  <2> QED BY <1>2, <1>3, <2>2 DEF AddWord, TypeOK
<1> QED BY <1>5, <1>6, <1>7, <1>8, DictsStay DEF WordLines, AddWord

\* A word that is in use is taken out of its dictionary and put behind the last
\* of the shadow library.
LEMMA DiscardKeeps ==
  ASSUME IInv, NEW w \in kept, Discard(origin[w], w)
  PROVE  /\ IInv'
         /\ \A e \in Dicts :
              IF e = origin[w]
              THEN Shrunk(WordsOf(e), wbase[e], wnext, WordsOf(e)', wbase'[e], wnext', w)
              ELSE Kept(WordsOf(e), wbase[e], wnext, WordsOf(e)', wbase'[e], wnext')
<1> USE LibraryAssumption DEF IInv, DictOrNull, WordOrNull
<1> DEFINE d == origin[w]
           next == SkippedNext(wnext, wprev, w)
           prev == SkippedPrev(wnext, wprev, w)
           gone == words \ kept
<1>1. /\ \A e \in Dicts : Line(WordsOf(e), wbase[e], wrecent[e], wnext, wprev)
      /\ Line(gone, swbase, swrecent, wnext, wprev)
  BY DEF WordLines
<1>2. d \in Dicts /\ w \in Words /\ w \in words /\ w \in WordsOf(d)
  BY DEF TypeOK, WordsOf
<1>3. /\ next \in [Words -> WordOrNull] /\ prev \in [Words -> WordOrNull]
      /\ \A y \in Words : next[y] = IF y = wprev[w] THEN wnext[w] ELSE wnext[y]
      /\ \A y \in Words : prev[y] = IF y = wnext[w] THEN wprev[w] ELSE wprev[y]
  BY <1>2, Skipped DEF TypeOK
<1>4. /\ swbase = Null <=> swrecent = Null
      /\ swrecent \in gone \cup {Null}
      /\ wnext[w] \in WordsOf(d) \cup {Null} /\ wprev[w] \in WordsOf(d) \cup {Null}
      /\ w = wbase[d] <=> wprev[w] = Null
      /\ w = wrecent[d] <=> wnext[w] = Null
  <2>1. Line(WordsOf(d), wbase[d], wrecent[d], wnext, wprev) /\ Null \notin WordsOf(d)
    BY <1>1, <1>2 DEF WordsOf, TypeOK
  <2> QED BY <1>1, <1>2, <2>1 DEF Line, Linked
<1>5. /\ wbase' = [wbase EXCEPT ![d] = IF w = wbase[d] THEN wnext[w] ELSE wbase[d]]
      /\ wrecent' = [wrecent EXCEPT ![d] = IF w = wrecent[d] THEN wprev[w] ELSE wrecent[d]]
  BY <1>2, <1>4 DEF Discard, TypeOK
<1>6. /\ wnext' \in [Words -> WordOrNull] /\ wprev' \in [Words -> WordOrNull]
      /\ \A y \in Words : /\ wnext'[y] = IF y = w THEN Null ELSE IF y = swrecent THEN w ELSE next[y]
                          /\ wprev'[y] = IF y = w THEN swrecent ELSE prev[y]
  BY <1>2, <1>3, <1>4 DEF Discard, TypeOK
<1>7. /\ kept' = kept \ {w} /\ words' = words /\ origin' = origin /\ gone' = gone \cup {w}
      /\ swbase' = (IF swbase = Null THEN w ELSE swbase) /\ swrecent' = w
  BY <1>2 DEF Discard
<1>8. TypeOK'
  <2>1. wbase' \in [Dicts -> WordOrNull] /\ wrecent' \in [Dicts -> WordOrNull]
    BY <1>2, <1>5 DEF TypeOK
  <2> QED BY <1>2, <1>6, <1>7, <2>1 DEF Discard, TypeOK, mainVars, dictVars, shadowVars
<1>9. ASSUME NEW e \in Dicts
      PROVE  /\ Line(WordsOf(e)', wbase'[e], wrecent'[e], wnext', wprev')
             /\ IF e = d
                THEN Shrunk(WordsOf(e), wbase[e], wnext, WordsOf(e)', wbase'[e], wnext', w)
                ELSE Kept(WordsOf(e), wbase[e], wnext, WordsOf(e)', wbase'[e], wnext')
  <2>1. CASE e = d
    <3>1. WordsOf(e)' = WordsOf(e) \ {w}
      BY <1>7, <2>1 DEF WordsOf
    <3>2. /\ \A y \in WordsOf(e)' :
               IF y = wprev[w] THEN wnext'[y] = wnext[w] ELSE wnext'[y] = wnext[y]
          /\ \A y \in WordsOf(e)' :
               IF y = wnext[w] THEN wprev'[y] = wprev[w] ELSE wprev'[y] = wprev[y]
      BY <1>3, <1>4, <1>6, <3>1 DEF WordsOf, TypeOK
    <3>3. /\ w \in WordsOf(e) /\ Null \notin WordsOf(e)
          /\ (w = wbase[e] => wbase'[e] = wnext[w]) /\ (w # wbase[e] => wbase'[e] = wbase[e])
          /\ (w = wrecent[e] => wrecent'[e] = wprev[w])
          /\ (w # wrecent[e] => wrecent'[e] = wrecent[e])
      BY <1>2, <1>5, <2>1 DEF WordsOf, TypeOK
    <3>4. Line(WordsOf(e)', wbase'[e], wrecent'[e], wnext', wprev')
      BY ONLY <1>1, <3>1, <3>2, <3>3, e \in Dicts, WithoutLine
    <3>5. Linked(WordsOf(e), wbase[e], wrecent[e], wnext, wprev)
      BY <1>1 DEF Line
    <3>6. Shrunk(WordsOf(e), wbase[e], wnext, WordsOf(e)', wbase'[e], wnext', w)
      BY ONLY <3>1, <3>2, <3>3, <3>5, ShrunkPath
    <3> QED BY <2>1, <3>4, <3>6
  <2>2. CASE e # d
    <3>1. \A y \in WordsOf(e) : wnext'[y] = wnext[y] /\ wprev'[y] = wprev[y]
      BY <1>3, <1>4, <1>6, <2>2 DEF WordsOf, TypeOK
    <3>2. WordsOf(e)' = WordsOf(e) /\ wbase'[e] = wbase[e] /\ wrecent'[e] = wrecent[e]
      BY <1>2, <1>5, <1>7, <2>2 DEF WordsOf, TypeOK
    <3>3. Line(WordsOf(e), wbase[e], wrecent[e], wnext', wprev')
      BY ONLY <1>1, <3>1, e \in Dicts, SameLine
    <3>4. Kept(WordsOf(e), wbase[e], wnext, WordsOf(e), wbase[e], wnext')
      BY ONLY <3>1, KeptPath
    <3> QED BY <2>2, <3>2, <3>3, <3>4
  <2> QED BY <2>1, <2>2
<1>10. Line(gone', swbase', swrecent', wnext', wprev')
  <2>1. \A y \in gone : /\ wnext'[y] = IF y = swrecent THEN w ELSE wnext[y]
                        /\ wprev'[y] = wprev[y]
    BY <1>3, <1>4, <1>6 DEF WordsOf, TypeOK
  <2>2. /\ wnext'[w] = Null /\ wprev'[w] = swrecent /\ w # Null
        /\ Null \notin gone /\ w \notin gone
    BY <1>2, <1>6 DEF TypeOK
  <2>3. Line(gone \cup {w}, swbase', w, wnext', wprev')
    BY ONLY <1>1, <1>7, <2>1, <2>2, AppendedLine
  <2> QED BY <1>7, <2>3
<1>11. \A v \in words' : origin'[v] \in dicts'
  BY <1>7 DEF Discard
<1> QED BY <1>8, <1>9, <1>10, <1>11, DictsStay DEF WordLines, Discard

\* Only a word in use is found by name, in the dictionary it was defined in.
LEMMA FindsOwn ==
  ASSUME IInv, NEW d \in Dicts, NEW n, NEW w \in FindIn(d, n)
  PROVE  w \in kept /\ origin[w] = d
<1>1. Linked(WordsOf(d), wbase[d], wrecent[d], wnext, wprev)
  BY DEF IInv, WordLines, Line
<1>2. WordsOf(d) \in SUBSET Words
  BY DEF IInv, TypeOK, WordsOf
<1>3. Reach(Words, wprev, wrecent[d]) \subseteq WordsOf(d)
  BY ONLY <1>1, <1>2, WalksStay
<1> QED BY <1>3 DEF FindIn, WordsOf

-----------------------------------------------------------------------------
(* The theorems.                                                           *)

\* No operation disturbs the lists.
LEMMA Inductive ==
  ASSUME Liberties = {}
  PROVE  Spec => []IInv
<1>1. Init => IInv
  BY InitHolds
<1>2. IInv /\ [Next]_vars => IInv'
  <2> SUFFICES ASSUME IInv, [Next]_vars PROVE IInv'
    OBVIOUS
  <2>1. ASSUME NEW d \in Dicts, NewDict(d) PROVE IInv'
    BY <2>1, NewDictKeeps
  <2>2. ASSUME NEW d \in Dicts, ForgetDict(d) PROVE IInv'
    BY <2>2, ForgetDictKeeps
  <2>3. ASSUME NEW d \in Dicts, RememberDict(d) PROVE IInv'
    BY <2>3, RememberDictKeeps
  <2>4. ASSUME NEW d \in Dicts, PromoteDict(d) PROVE IInv'
    BY <2>4, PromoteDictKeeps
  <2>5. ASSUME NEW d \in Dicts, NEW w \in Words, AddWord(d, w) PROVE IInv'
    BY <2>5, AddWordKeeps
  <2>6. ASSUME NEW d \in Dicts, NEW n \in Names, Forget(d, n) PROVE IInv'
    <3>1. PICK w \in FindIn(d, n) : Discard(d, w)
      BY <2>6 DEF Forget
    <3>2. w \in kept /\ origin[w] = d
      BY FindsOwn
    <3> QED BY <3>1, <3>2, DiscardKeeps
  <2>7. ASSUME NEW w \in Words, XtForget(w) PROVE IInv'
    BY <2>7, DiscardKeeps DEF XtForget
  <2>8. ASSUME UNCHANGED vars PROVE IInv'
    <3>1. UNCHANGED <<base, recent, dnext, dprev, sdbase, sdrecent, dicts, listed, wordVars>>
      BY <2>8 DEF vars, mainVars, dictVars, shadowVars
    <3>2. TypeOK' /\ DictLines'
      BY <3>1 DEF IInv, TypeOK, DictLines, wordVars
    <3> QED BY <3>1, <3>2, WordsStay
  <2> QED BY <2>1, <2>2, <2>3, <2>4, <2>5, <2>6, <2>7, <2>8 DEF Next
<1> QED BY <1>1, <1>2, PTL DEF Spec

\* Every link that an operation of the library leaves is an address of its kind
\* or null (library/library.c:78-320, words/askforth_words.c:563-692, 2089-2264).
THEOREM LinksTyped ==
  ASSUME Liberties = {}
  PROVE  Spec => []TypeOK
<1>1. IInv => TypeOK
  BY DEF IInv
<1> QED BY <1>1, Inductive, PTL

\* The lists stay lists whatever a program defines, forgets, remembers and
\* promotes, as long as it takes no liberties (library/library.c:78-320,
\* words/askforth_words.c:563-692, 2089-2264).
THEOREM ListsLinked ==
  ASSUME Liberties = {}
  PROVE  Spec => []LinksAgree
<1>1. IInv => LinksAgree
  BY DEF IInv, LinksAgree, DictLists, WordLists, DictLines, WordLines, Line
<1> QED BY <1>1, Inductive, PTL

\* Each list in full: what the walks of the two libraries find.
LEMMA WalksFind ==
  ASSUME IInv
  PROVE  /\ Found = listed /\ Shadowed = dicts \ listed
         /\ UsedWords = kept /\ ShadowedWords = words \ kept
<1>1. /\ Line(listed, base, recent, dnext, dprev)
      /\ Line(dicts \ listed, sdbase, sdrecent, dnext, dprev)
      /\ Line(words \ kept, swbase, swrecent, wnext, wprev)
      /\ \A d \in Dicts : Line(WordsOf(d), wbase[d], wrecent[d], wnext, wprev)
  BY DEF IInv, DictLines, WordLines
<1>2. /\ listed \in SUBSET Dicts /\ dicts \ listed \in SUBSET Dicts
      /\ words \ kept \in SUBSET Words
      /\ \A d \in Dicts : WordsOf(d) \in SUBSET Words
  BY DEF IInv, TypeOK, WordsOf
<1>3. Found = listed /\ Shadowed = dicts \ listed /\ ShadowedWords = words \ kept
  <2>1. Reach(Dicts, dnext, base) = listed
    BY ONLY <1>1, <1>2, WalksFindAll
  <2>2. Reach(Dicts, dnext, sdbase) = dicts \ listed
    BY ONLY <1>1, <1>2, WalksFindAll
  <2>3. Reach(Words, wnext, swbase) = words \ kept
    BY ONLY <1>1, <1>2, WalksFindAll
  <2> QED BY <2>1, <2>2, <2>3 DEF Found, Shadowed, ShadowedWords
<1>4. ASSUME NEW d \in Dicts PROVE Reach(Words, wprev, wrecent[d]) = WordsOf(d)
  <2>1. Line(WordsOf(d), wbase[d], wrecent[d], wnext, wprev) /\ WordsOf(d) \in SUBSET Words
    BY <1>1, <1>2
  <2> QED BY ONLY <2>1, WalksFindAll
<1>5. UsedWords = kept
  <2>1. UsedWords = UNION {WordsOf(d) : d \in dicts}
    BY <1>4 DEF UsedWords, IInv, TypeOK
  <2>2. \A w \in kept : w \in WordsOf(origin[w]) /\ origin[w] \in dicts
    BY DEF IInv, TypeOK, WordsOf
  <2>3. \A d \in dicts : WordsOf(d) \subseteq kept
    BY DEF WordsOf
  <2> QED BY <2>1, <2>2, <2>3
<1> QED BY <1>3, <1>5

\* Nothing is in the library and in the shadow library at once
\* (library/library.h:76).
THEOREM LibrariesDisjoint ==
  ASSUME Liberties = {}
  PROVE  Spec => []OneLibrary
<1>1. IInv => OneLibrary
  BY WalksFind DEF OneLibrary
<1> QED BY <1>1, Inductive, PTL

\* Every dictionary and every word that was created can be found by a walk
\* through the library or the shadow library (library/library.h:70-71).
THEOREM AllReachable ==
  ASSUME Liberties = {}
  PROVE  Spec => []NothingLost
<1>1. IInv => NothingLost
  BY WalksFind DEF NothingLost, IInv, TypeOK
<1> QED BY <1>1, Inductive, PTL

-----------------------------------------------------------------------------
(* The library implements its promise.                                    *)

\* The path of a list is what Chain finds.
LEMMA ChainOf ==
  ASSUME NEW Node, IsFiniteSet(Node), Null \notin Node, NEW S \in SUBSET Node,
         NEW first, NEW next, NEW q, Path(q, S, first, next)
  PROVE  Chain(next, first, Cardinality(Node)) = q
<1>1. /\ q \in [1 .. Len(q) -> Node] /\ Len(q) \in Nat
      /\ \A i, j \in 1 .. Len(q) : q[i] = q[j] => i = j
  BY LenProperties DEF Path
<1>2. Len(q) <= Cardinality(Node)
  BY <1>1, PathLength
<1>3. Cardinality(Node) \in Nat /\ Null \notin S
  BY FS_CardinalityType
<1> QED  BY <1>2, <1>3, ChainIs

LEMMA ChainPath ==
  ASSUME NEW Node, IsFiniteSet(Node), Null \notin Node, NEW S \in SUBSET Node,
         NEW first, NEW last, NEW next, NEW prev, Line(S, first, last, next, prev)
  PROVE  /\ Path(Chain(next, first, Cardinality(Node)), S, first, next)
         /\ ToSet(Chain(next, first, Cardinality(Node))) = S
<1>1. PICK q : Path(q, S, first, next)
  BY PathExists
<1>2. Chain(next, first, Cardinality(Node)) = q
  BY <1>1, ChainOf
<1>3. ToSet(q) = S
  BY <1>1, LenProperties DEF Path, ToSet
<1> QED  BY <1>1, <1>2, <1>3

\* What the library is to its promise.
Order == DictsFrom(base)
Forgotten == ToSet(DictsFrom(sdbase))
Defs == [d \in Dicts |-> WordsFrom(wbase[d])]
Discarded == ToSet(WordsFrom(swbase))

\* SearchOrder's operators on sequences are those of the library.
LEMMA SameNames ==
  /\ \A q : Promise!ToSet(q) = ToSet(q)
  /\ \A q, x : Promise!RemoveFirst(q, x) = RemoveFirst(q, x)
<1>1. ASSUME NEW q PROVE Promise!ToSet(q) = ToSet(q)
  BY DEF ToSet, Promise!ToSet
<1>2. ASSUME NEW q, NEW x PROVE Promise!RemoveFirst(q, x) = RemoveFirst(q, x)
  BY DEF RemoveFirst, RemoveAt, SelectInSeq, Min, Promise!RemoveFirst, Promise!RemoveAt,
         Promise!SelectInSeq, Promise!Min
<1> QED  BY <1>1, <1>2

LEMMA Mapped ==
  ASSUME IInv
  PROVE  /\ Path(Order, listed, base, dnext) /\ ToSet(Order) = listed
         /\ Forgotten = dicts \ listed /\ Discarded = words \ kept
         /\ \A d \in Dicts : /\ Path(Defs[d], WordsOf(d), wbase[d], wnext)
                             /\ ToSet(Defs[d]) = WordsOf(d)
<1> USE LibraryAssumption
<1>1. /\ Line(listed, base, recent, dnext, dprev)
      /\ Line(dicts \ listed, sdbase, sdrecent, dnext, dprev)
      /\ Line(words \ kept, swbase, swrecent, wnext, wprev)
      /\ \A d \in Dicts : Line(WordsOf(d), wbase[d], wrecent[d], wnext, wprev)
  BY DEF IInv, DictLines, WordLines
<1>2. /\ listed \in SUBSET Dicts /\ dicts \ listed \in SUBSET Dicts
      /\ words \ kept \in SUBSET Words
      /\ \A d \in Dicts : WordsOf(d) \in SUBSET Words
  BY DEF IInv, TypeOK, WordsOf
<1>3. Path(Order, listed, base, dnext) /\ ToSet(Order) = listed
  BY <1>1, <1>2, ChainPath DEF Order, DictsFrom
<1>4. Forgotten = dicts \ listed
  BY <1>1, <1>2, ChainPath DEF Forgotten, DictsFrom
<1>5. Discarded = words \ kept
  BY <1>1, <1>2, ChainPath DEF Discarded, WordsFrom
<1>6. ASSUME NEW d \in Dicts
      PROVE  Path(Defs[d], WordsOf(d), wbase[d], wnext) /\ ToSet(Defs[d]) = WordsOf(d)
  BY <1>1, <1>2, ChainPath DEF Defs, WordsFrom
<1> QED  BY <1>3, <1>4, <1>5, <1>6

\* The same of the next state, with what an operation has shown of its paths.
LEMMA MappedNext ==
  ASSUME IInv'
  PROVE  /\ Forgotten' = dicts' \ listed' /\ Discarded' = words' \ kept'
         /\ \A q : Path(q, listed', base', dnext') => Order' = q
         /\ \A d \in Dicts : \A q : Path(q, WordsOf(d)', wbase'[d], wnext') => Defs'[d] = q
<1> USE LibraryAssumption
<1>1. /\ Line(dicts' \ listed', sdbase', sdrecent', dnext', dprev')
      /\ Line(words' \ kept', swbase', swrecent', wnext', wprev')
  BY DEF IInv, DictLines, WordLines
<1>2. /\ listed' \in SUBSET Dicts /\ dicts' \ listed' \in SUBSET Dicts
      /\ words' \ kept' \in SUBSET Words
      /\ \A d \in Dicts : WordsOf(d)' \in SUBSET Words
  BY DEF IInv, TypeOK, WordsOf
<1>3. ASSUME NEW q, Path(q, listed', base', dnext') PROVE Order' = q
  BY <1>2, <1>3, ChainOf DEF Order, DictsFrom
<1>4. Forgotten' = dicts' \ listed'
  BY <1>1, <1>2, ChainPath DEF Forgotten, DictsFrom
<1>5. Discarded' = words' \ kept'
  BY <1>1, <1>2, ChainPath DEF Discarded, WordsFrom
<1>6. ASSUME NEW d \in Dicts, NEW q, Path(q, WordsOf(d)', wbase'[d], wnext')
      PROVE  Defs'[d] = q
  BY <1>2, <1>6, ChainOf DEF Defs, WordsFrom
<1> QED  BY <1>3, <1>4, <1>5, <1>6

LEMMA DefsStay ==
  ASSUME UNCHANGED wordVars
  PROVE  Defs' = Defs /\ Discarded' = Discarded
BY DEF wordVars, Defs, Discarded, WordsFrom

LEMMA OrderStays ==
  ASSUME UNCHANGED <<mainVars, dictVars, shadowVars>>
  PROVE  Order' = Order /\ Forgotten' = Forgotten
BY DEF mainVars, dictVars, shadowVars, Order, Forgotten, DictsFrom

LEMMA NewDictMaps ==
  ASSUME IInv, NEW d \in Dicts, NewDict(d)
  PROVE  Promise!NewDict(d)
<1>1. /\ IInv' /\ Grown(listed, base, dnext, listed', base', dnext', d)
  BY NewDictKeeps
<1>2. d \notin dicts /\ dicts' = dicts \cup {d} /\ listed' = listed \cup {d} /\ UNCHANGED wordVars
  BY DEF NewDict
<1>3. Path(Order, listed, base, dnext) /\ ToSet(Order) = listed /\ Forgotten = dicts \ listed
  BY Mapped
<1>4. Order' = Append(Order, d)
  BY <1>1, <1>3, MappedNext DEF Grown
<1>5. Forgotten' = Forgotten
  BY <1>1, <1>2, <1>3, MappedNext
<1>6. Defs' = Defs /\ Discarded' = Discarded
  BY <1>2, DefsStay
<1>7. d \notin ToSet(Order) \cup Forgotten
  BY <1>2, <1>3 DEF IInv, TypeOK
<1> QED  BY <1>4, <1>5, <1>6, <1>7, SameNames DEF Promise!NewDict, Order, Forgotten, Defs, Discarded

LEMMA ForgetDictMaps ==
  ASSUME IInv, Liberties = {}, NEW d \in Dicts, ForgetDict(d)
  PROVE  Promise!ForgetDict(d)
<1>1. IInv' /\ Shrunk(listed, base, dnext, listed', base', dnext', d)
  BY ForgetDictKeeps
<1>2. /\ d \in listed /\ d \in dicts /\ ~OnlyOne(d)
      /\ listed' = listed \ {d} /\ dicts' = dicts /\ UNCHANGED wordVars
  BY DEF ForgetDict
<1>3. Path(Order, listed, base, dnext) /\ ToSet(Order) = listed /\ Forgotten = dicts \ listed
  BY Mapped
<1>4. Order' = RemoveFirst(Order, d)
  BY <1>1, <1>3, MappedNext DEF Shrunk
<1>5. Forgotten' = Forgotten \cup {d}
  BY <1>1, <1>2, <1>3, MappedNext
<1>6. Defs' = Defs /\ Discarded' = Discarded
  BY <1>2, DefsStay
<1>7. Len(Order) > 1
  <2>1. /\ Len(Order) \in Nat /\ base = IF Len(Order) = 0 THEN Null ELSE Order[1]
        /\ \A i \in 1 .. Len(Order) :
             dnext[Order[i]] = IF i = Len(Order) THEN Null ELSE Order[i + 1]
        /\ \E i \in 1 .. Len(Order) : Order[i] = d
    BY <1>2, <1>3, LenProperties DEF Path
  <2>2. d = base => dprev[d] = Null
    BY <1>2 DEF IInv, DictLines, Line, Linked
  <2>3. Len(Order) = 1 => d = base /\ dnext[d] = Null
    BY <2>1
  <2>4. Len(Order) # 1
    BY <1>2, <2>2, <2>3 DEF OnlyOne
  <2>5. Len(Order) # 0
    BY <2>1
  <2>6. Len(Order) \in Nat
    BY <2>1
  <2>7. \A k \in Nat : k # 0 /\ k # 1 => k > 1
    OBVIOUS
  <2> QED  BY <2>4, <2>5, <2>6, <2>7
<1> QED  BY <1>2, <1>3, <1>4, <1>5, <1>6, <1>7, SameNames
         DEF Promise!ForgetDict, Order, Forgotten, Defs, Discarded

LEMMA RememberDictMaps ==
  ASSUME IInv, Liberties = {}, NEW d \in Dicts, RememberDict(d)
  PROVE  Promise!RememberDict(d)
<1>1. IInv' /\ Grown(listed, base, dnext, listed', base', dnext', d)
  BY RememberDictKeeps
<1>2. listed' = listed \cup {d} /\ dicts' = dicts /\ UNCHANGED wordVars
  BY DEF RememberDict
<1>3. Path(Order, listed, base, dnext) /\ ToSet(Order) = listed /\ Forgotten = dicts \ listed
  BY Mapped
<1>4. d \in Forgotten
  BY <1>3, WalksFind DEF RememberDict, Shadowed
<1>5. Order' = Append(Order, d)
  BY <1>1, <1>3, MappedNext DEF Grown
<1>6. Forgotten' = Forgotten \ {d}
  BY <1>1, <1>2, <1>3, MappedNext
<1>7. Defs' = Defs /\ Discarded' = Discarded
  BY <1>2, DefsStay
<1> QED  BY <1>4, <1>5, <1>6, <1>7 DEF Promise!RememberDict, Order, Forgotten, Defs, Discarded

LEMMA PromoteDictMaps ==
  ASSUME IInv, Liberties = {}, NEW d \in Dicts, PromoteDict(d)
  PROVE  Promise!PromoteDict(d)
<1>1. /\ IInv' /\ d \in listed /\ listed' = listed
      /\ \A q : Path(q, listed, base, dnext) =>
                 Path(<< d >> \o RemoveFirst(q, d), listed', base', dnext')
  BY PromoteDictKeeps
<1>2. dicts' = dicts /\ UNCHANGED wordVars
  BY DEF PromoteDict
<1>3. Path(Order, listed, base, dnext) /\ ToSet(Order) = listed /\ Forgotten = dicts \ listed
  BY Mapped
<1>4. Order' = << d >> \o RemoveFirst(Order, d)
  BY <1>1, <1>3, MappedNext
<1>5. Forgotten' = Forgotten
  BY <1>1, <1>2, <1>3, MappedNext
<1>6. Defs' = Defs /\ Discarded' = Discarded
  BY <1>2, DefsStay
<1> QED  BY <1>1, <1>3, <1>4, <1>5, <1>6, SameNames
         DEF Promise!PromoteDict, Order, Forgotten, Defs, Discarded

LEMMA AddWordMaps ==
  ASSUME IInv, NEW d \in Dicts, NEW w \in Words, AddWord(d, w)
  PROVE  Promise!Define(d, w)
<1>1. /\ IInv'
      /\ \A e \in Dicts :
           IF e = d THEN Grown(WordsOf(e), wbase[e], wnext, WordsOf(e)', wbase'[e], wnext', w)
           ELSE Kept(WordsOf(e), wbase[e], wnext, WordsOf(e)', wbase'[e], wnext')
  BY AddWordKeeps
<1>2. /\ d \in Found /\ w \notin words /\ words' = words \cup {w} /\ kept' = kept \cup {w}
      /\ UNCHANGED <<mainVars, dictVars, shadowVars>>
  BY DEF AddWord
<1>3. /\ ToSet(Order) = listed /\ Discarded = words \ kept
      /\ \A e \in Dicts : /\ Path(Defs[e], WordsOf(e), wbase[e], wnext)
                          /\ ToSet(Defs[e]) = WordsOf(e)
  BY Mapped
<1>4. Order' = Order /\ Forgotten' = Forgotten
  BY <1>2, OrderStays
<1>5. Discarded' = Discarded
  BY <1>1, <1>2, <1>3, MappedNext DEF IInv, TypeOK
<1>6. \A e \in Dicts : Defs'[e] = IF e = d THEN Append(Defs[e], w) ELSE Defs[e]
  BY <1>1, <1>3, MappedNext DEF Grown, Kept
<1>7. Defs' = [Defs EXCEPT ![d] = Append(@, w)]
  BY <1>6 DEF Defs
<1>8. d \in ToSet(Order)
  BY <1>2, <1>3, WalksFind
<1>9. w \notin (UNION {ToSet(Defs[e]) : e \in Dicts}) \cup Discarded
  <2>1. \A e \in Dicts : w \notin WordsOf(e)
    BY <1>2 DEF IInv, TypeOK, WordsOf
  <2>2. \A e \in Dicts : w \notin ToSet(Defs[e])
    BY <1>3, <2>1
  <2>3. w \notin Discarded
    BY <1>2, <1>3
  <2> HIDE DEF Discarded
  <2> QED  BY <2>2, <2>3
<1> QED  BY <1>4, <1>5, <1>7, <1>8, <1>9, SameNames
         DEF Promise!Define, Promise!Defined, Order, Forgotten, Defs, Discarded

LEMMA DiscardMaps ==
  ASSUME IInv, NEW w \in kept, Discard(origin[w], w)
  PROVE  origin[w] \in Dicts /\ w \in Words /\ Promise!ForgetWord(origin[w], w)
<1> DEFINE d == origin[w]
<1>1. /\ IInv'
      /\ \A e \in Dicts :
           IF e = d THEN Shrunk(WordsOf(e), wbase[e], wnext, WordsOf(e)', wbase'[e], wnext', w)
           ELSE Kept(WordsOf(e), wbase[e], wnext, WordsOf(e)', wbase'[e], wnext')
  BY DiscardKeeps
<1>2. /\ words' = words /\ kept' = kept \ {w} /\ UNCHANGED <<mainVars, dictVars, shadowVars>>
  BY DEF Discard
<1>3. /\ Discarded = words \ kept
      /\ \A e \in Dicts : /\ Path(Defs[e], WordsOf(e), wbase[e], wnext)
                          /\ ToSet(Defs[e]) = WordsOf(e)
  BY Mapped
<1>4. d \in Dicts /\ w \in Words /\ w \in words /\ w \in WordsOf(d)
  BY DEF IInv, TypeOK, WordsOf
<1>5. Order' = Order /\ Forgotten' = Forgotten
  BY <1>2, OrderStays
<1>6. Discarded' = Discarded \cup {w}
  BY <1>1, <1>2, <1>3, <1>4, MappedNext
<1>7. \A e \in Dicts : Defs'[e] = IF e = d THEN RemoveFirst(Defs[e], w) ELSE Defs[e]
  BY <1>1, <1>3, MappedNext DEF Shrunk, Kept
<1>8. Defs' = [Defs EXCEPT ![d] = RemoveFirst(@, w)]
  BY <1>7 DEF Defs
<1>9. w \in ToSet(Defs[d])
  BY <1>3, <1>4
<1> QED  BY <1>4, <1>5, <1>6, <1>8, <1>9, SameNames
         DEF Promise!ForgetWord, Order, Forgotten, Defs, Discarded

LEMMA InitMaps == Init => Promise!Init
<1> SUFFICES ASSUME Init PROVE Promise!Init
  OBVIOUS
<1> USE LibraryAssumption
<1>1. IInv
  BY InitHolds
<1>2. listed = {Core} /\ dicts = {Core} /\ kept = {} /\ words = {}
  BY DEF Init
<1>3. Order = << Core >>
  <2>1. Path(<< Core >>, listed, base, dnext)
    <3>1. Len(<< Core >>) = 1 /\ << Core >>[1] = Core /\ << Core >> \in Seq({Core})
      OBVIOUS
    <3>2. base = Core /\ dnext[Core] = Null
      BY DEF Init
    <3> QED  BY <1>2, <3>1, <3>2 DEF Path
  <2>2. listed \in SUBSET Dicts
    BY <1>2
  <2> QED  BY <2>1, <2>2, ChainOf DEF Order, DictsFrom
<1>4. \A d \in Dicts : Defs[d] = << >>
  <2> SUFFICES ASSUME NEW d \in Dicts PROVE WordsFrom(wbase[d]) = << >>
    BY DEF Defs
  <2>1. wbase[d] = Null
    BY DEF Init
  <2>2. Path(<< >>, {}, wbase[d], wnext)
    <3>1. Len(<< >>) = 0 /\ << >> \in Seq({})
      OBVIOUS
    <3> QED  BY <2>1, <3>1 DEF Path
  <2> QED  BY <2>2, ChainOf DEF WordsFrom
<1>5. Defs = [d \in Dicts |-> << >>]
  BY <1>4 DEF Defs
<1>6. Forgotten = {} /\ Discarded = {}
  BY <1>1, <1>2, Mapped
<1> QED  BY <1>3, <1>5, <1>6 DEF Promise!Init, Order, Forgotten, Defs, Discarded

\* The library implements its promise: every operation does to the search
\* order, to the definitions and to what is forgotten what its name says, and
\* to nothing else (library/library.c:78-320, words/askforth_words.c:563-692,
\* 2089-2264).
THEOREM OrderKept ==
  ASSUME Liberties = {}
  PROVE  Spec => KeepsOrder
<1>1. Init => Promise!Init
  BY InitMaps
<1>2. IInv /\ [Next]_vars => [Promise!Next]_(Promise!vars)
  <2> SUFFICES ASSUME IInv, [Next]_vars PROVE Promise!Next \/ UNCHANGED Promise!vars
    OBVIOUS
  <2>1. ASSUME NEW d \in Dicts, NewDict(d) PROVE Promise!Next
    BY <2>1, NewDictMaps DEF Promise!Next
  <2>2. ASSUME NEW d \in Dicts, ForgetDict(d) PROVE Promise!Next
    BY <2>2, ForgetDictMaps DEF Promise!Next
  <2>3. ASSUME NEW d \in Dicts, RememberDict(d) PROVE Promise!Next
    BY <2>3, RememberDictMaps DEF Promise!Next
  <2>4. ASSUME NEW d \in Dicts, PromoteDict(d) PROVE Promise!Next
    BY <2>4, PromoteDictMaps DEF Promise!Next
  <2>5. ASSUME NEW d \in Dicts, NEW w \in Words, AddWord(d, w) PROVE Promise!Next
    BY <2>5, AddWordMaps DEF Promise!Next
  <2>6. ASSUME NEW d \in Dicts, NEW n \in Names, Forget(d, n) PROVE Promise!Next
    <3>1. PICK w \in FindIn(d, n) : Discard(d, w)
      BY <2>6 DEF Forget
    <3>2. w \in kept /\ origin[w] = d
      BY FindsOwn
    <3>3. origin[w] \in Dicts /\ w \in Words /\ Promise!ForgetWord(origin[w], w)
      BY <3>1, <3>2, DiscardMaps
    <3> QED  BY <3>3 DEF Promise!Next
  <2>7. ASSUME NEW w \in Words, XtForget(w) PROVE Promise!Next
    <3>1. w \in kept /\ Discard(origin[w], w)
      BY <2>7 DEF XtForget
    <3>2. origin[w] \in Dicts /\ Promise!ForgetWord(origin[w], w)
      BY <3>1, DiscardMaps
    <3> QED  BY <3>2 DEF Promise!Next
  <2>8. ASSUME UNCHANGED vars PROVE UNCHANGED Promise!vars
    <3>1. UNCHANGED wordVars /\ UNCHANGED <<mainVars, dictVars, shadowVars>>
      BY <2>8 DEF vars
    <3>2. Order' = Order /\ Forgotten' = Forgotten /\ Defs' = Defs /\ Discarded' = Discarded
      BY <3>1, DefsStay, OrderStays
    <3> QED  BY <3>2 DEF Promise!vars, Order, Forgotten, Defs, Discarded
  <2> QED  BY <2>1, <2>2, <2>3, <2>4, <2>5, <2>6, <2>7, <2>8 DEF Next
<1> QED  BY <1>1, <1>2, Inductive, PTL DEF Spec, KeepsOrder, Promise!Spec

-----------------------------------------------------------------------------
(* The search.                                                             *)

\* The largest of some numbers that end at n.
LEMMA MaxIs ==
  ASSUME NEW n \in Nat, NEW S \in SUBSET (1 .. n), S # {}
  PROVE  Max(S) \in S /\ \A k \in S : k <= Max(S)
<1> DEFINE T == {n - k : k \in S}
<1>1. T \in SUBSET Nat /\ T # {}
  OBVIOUS
<1> HIDE DEF T
<1>2. PICK t \in T : \A k \in T : t <= k
  BY <1>1, Least
<1>3. PICK m \in S : t = n - m
  BY DEF T
<1>4. \A k \in S : n - m <= n - k
  BY <1>2, <1>3 DEF T
<1>5. \A k \in S : m >= k
  BY <1>4
<1>6. \E x \in S : \A y \in S : x >= y
  BY <1>5
<1>7. Max(S) \in S /\ \A y \in S : Max(S) >= y
  BY <1>6 DEF Max
<1> QED  BY <1>7

\* A walk back from a member of a path finds it and the ones before it.
Back(Node, prev, q, k) == Reach(Node, prev, q[k]) = {q[i] : i \in 1 .. k}

LEMMA BackFrom ==
  ASSUME NEW Node, Null \notin Node, NEW S \in SUBSET Node,
         NEW first, NEW last, NEW next, NEW prev, Linked(S, first, last, next, prev),
         NEW q, Path(q, S, first, next), NEW k \in 1 .. Len(q)
  PROVE  Back(Node, prev, q, k)
<1> DEFINE B == {q[i] : i \in 1 .. k}
<1>1. /\ Len(q) \in Nat /\ \A i \in 1 .. Len(q) : q[i] \in S
      /\ \A i \in 1 .. Len(q) : i # Len(q) => next[q[i]] = q[i + 1]
      /\ Len(q) # 0 => first = q[1]
  BY PathLinks
<1>2. q[1] = first /\ first \in S /\ prev[q[1]] = Null
  BY <1>1 DEF Linked
<1>3. ASSUME NEW i \in 1 .. Len(q), i # 1 PROVE prev[q[i]] = q[i - 1]
  <2>1. i - 1 \in 1 .. Len(q) /\ i - 1 # Len(q) /\ (i - 1) + 1 = i
    BY <1>1, <1>3
  <2>2. q[i - 1] \in S /\ next[q[i - 1]] = q[i] /\ q[i] \in S
    BY <1>1, <2>1
  <2>3. q[i - 1] # last
    BY <2>2 DEF Linked
  <2> QED  BY <2>2, <2>3 DEF Linked
<1>4. ASSUME NEW y \in Reach(Node, prev, q[k]) PROVE y \in B
  <2>1. B \in SUBSET Node /\ q[k] \in B
    BY <1>1
  <2>2. ASSUME NEW z \in B, prev[z] # Null PROVE prev[z] \in B
    <3>1. PICK i \in 1 .. k : z = q[i]
      OBVIOUS
    <3>2. i \in 1 .. Len(q) /\ i # 1
      BY <1>1, <1>2, <2>2, <3>1
    <3>3. prev[z] = q[i - 1] /\ i - 1 \in 1 .. k
      BY <1>1, <1>3, <3>1, <3>2
    <3> QED  BY <3>3
  <2> HIDE DEF B
  <2> QED  BY <2>1, <2>2 DEF Reach
<1>5. ASSUME NEW i \in 1 .. k PROVE q[i] \in Reach(Node, prev, q[k])
  <2> SUFFICES ASSUME NEW C \in SUBSET Node, q[k] \in C,
                      \A z \in C : prev[z] # Null => prev[z] \in C
               PROVE  q[i] \in C
    BY <1>1 DEF Reach
  <2> DEFINE T == {j \in 0 .. k - 1 : q[k - j] \in C}
  <2>1. k - 1 \in Nat /\ 0 \in T
    BY <1>1
  <2>2. ASSUME NEW j \in 0 .. (k - 1) - 1, j \in T PROVE j + 1 \in T
    <3>1. k - j \in 1 .. Len(q) /\ k - j # 1 /\ (k - j) - 1 = k - (j + 1) /\ j + 1 \in 0 .. k - 1
      <4>1. j \in Nat /\ k \in Nat /\ Len(q) \in Nat /\ j <= k - 2 /\ k <= Len(q)
        BY <1>1
      <4> QED  BY ONLY <4>1
    <3>2. q[k - j] \in C /\ q[k - (j + 1)] \in S
      BY <1>1, <2>2, <3>1
    <3>3. prev[q[k - j]] = q[k - (j + 1)] /\ q[k - (j + 1)] # Null
      BY <1>3, <3>1, <3>2
    <3> QED  BY <3>1, <3>2, <3>3
  <2> HIDE DEF T
  <2>3. 0 .. k - 1 \subseteq T
    BY <2>1, <2>2, Induct
  <2>4. k - i \in T /\ k - (k - i) = i
    BY <1>1, <2>3
  <2> QED  BY <2>4 DEF T
<1> QED  BY <1>4, <1>5 DEF Back

\* A walk from nowhere finds nothing.
LEMMA FromNull ==
  ASSUME NEW Node, NEW link
  PROVE  Reach(Node, link, Null) = {}
<1>1. ASSUME NEW y \in Reach(Node, link, Null) PROVE FALSE
  <2>1. {} \in SUBSET Node
    OBVIOUS
  <2> QED  BY <2>1 DEF Reach
<1> QED  BY <1>1

\* A dictionary's search finds the newest of its words of that name.
LEMMA FindsTheNewest ==
  ASSUME IInv, NEW d \in Dicts, NEW n \in Names
  PROVE  FindIn(d, n) = Promise!Newest(d, n)
<1> USE LibraryAssumption
<1> DEFINE q == Defs[d]
           S == WordsOf(d)
           l == Len(q)
           I == {i \in 1 .. l : NameOf[q[i]] = n}
           same == {w \in Reach(Words, wprev, wrecent[d]) : NameOf[w] = n}
<1>1. Path(q, S, wbase[d], wnext)
  BY Mapped
<1>2. Linked(S, wbase[d], wrecent[d], wnext, wprev)
  BY DEF IInv, WordLines, Line
<1>3. S \in SUBSET Words /\ Null \notin S /\ Null \notin Words
  BY DEF IInv, TypeOK, WordsOf
<1> HIDE DEF q, S
<1>4. /\ l \in Nat /\ q \in Seq(S) /\ \A i \in 1 .. l : q[i] \in S
      /\ \A i \in 1 .. l : wnext[q[i]] = Null <=> i = l
      /\ \A i, j \in 1 .. l : q[i] = q[j] => i = j
      /\ \A x \in S : \E i \in 1 .. l : q[i] = x
      /\ l = 0 <=> wbase[d] = Null
  <2>1. Len(q) \in Nat /\ q \in Seq(S) /\ (\A i \in 1 .. Len(q) : q[i] \in S)
        /\ (\A i \in 1 .. Len(q) : wnext[q[i]] = Null <=> i = Len(q))
        /\ (Len(q) = 0 <=> wbase[d] = Null)
    BY ONLY <1>1, <1>3, PathLinks
  <2> QED  BY <1>1, <2>1 DEF Path
<1>5. I \in SUBSET (1 .. l) /\ (I # {} => Max(I) \in I /\ \A k \in I : k <= Max(I))
  <2>1. I \in SUBSET (1 .. l) /\ l \in Nat
    BY <1>4
  <2> HIDE DEF I, l
  <2> QED  BY ONLY <2>1, MaxIs
<1>6. Promise!Newest(d, n) = IF I = {} THEN {} ELSE {q[Max(I)]}
  <2>1. q = WordsFrom(wbase[d]) /\ q = [e \in Dicts |-> WordsFrom(wbase[e])][d]
    BY DEF q, Defs
  <2>2. Promise!Newest(d, n) = LET i == IF I # {} THEN Max(I) ELSE 0
                               IN  IF i = 0 THEN {} ELSE {q[i]}
    BY <2>1 DEF Promise!Newest, Promise!SelectLastInSeq, Promise!Max, Max
  <2>3. I # {} => Max(I) # 0
    BY <1>5
  <2> HIDE DEF I
  <2> QED  BY <2>2, <2>3
<1>7. CASE l = 0
  <2>1. wrecent[d] = Null /\ I = {}
    BY <1>2, <1>4, <1>7 DEF Linked
  <2>2. same = {}
    BY <2>1, FromNull
  <2> QED  BY <1>6, <2>1, <2>2 DEF FindIn
<1>8. CASE l # 0
  <2>1. wrecent[d] = q[l]
    <3>1. wrecent[d] \in S /\ wnext[wrecent[d]] = Null
      BY <1>2, <1>4, <1>8 DEF Linked
    <3> QED  BY <1>4, <3>1
  <2>2. ASSUME NEW k \in 1 .. l PROVE Reach(Words, wprev, q[k]) = {q[i] : i \in 1 .. k}
    <3>1. k \in 1 .. Len(q)
      OBVIOUS
    <3>2. Back(Words, wprev, q, k)
      BY ONLY <1>1, <1>2, <1>3, <3>1, BackFrom
    <3> QED  BY <3>2 DEF Back
  <2>3. same = {q[i] : i \in I}
    <3>1. Reach(Words, wprev, wrecent[d]) = {q[i] : i \in 1 .. l}
      <4>1. l \in 1 .. l
        BY <1>4, <1>8
      <4> HIDE DEF l
      <4> QED  BY <2>1, <2>2, <4>1
    <3> QED  BY <3>1
  <2>4. FindIn(d, n) = {w \in same : same \subseteq Reach(Words, wprev, w)}
    BY DEF FindIn
  <2>5. CASE I = {}
    BY <1>6, <2>3, <2>4, <2>5
  <2>6. CASE I # {}
    <3> DEFINE m == Max(I)
    <3>1. m \in I /\ (\A k \in I : k <= m) /\ I \subseteq 1 .. l
      BY <1>5, <2>6
    <3> HIDE DEF m
    <3>2. \A k \in I : same \subseteq Reach(Words, wprev, q[k]) <=> k = m
      <4> SUFFICES ASSUME NEW k \in I
                   PROVE  {q[i] : i \in I} \subseteq {q[i] : i \in 1 .. k} <=> k = m
        BY <2>2, <2>3, <3>1
      <4>1. k = m => {q[i] : i \in I} \subseteq {q[i] : i \in 1 .. k}
        BY <3>1
      <4>2. ASSUME {q[i] : i \in I} \subseteq {q[i] : i \in 1 .. k} PROVE k = m
        <5>1. q[m] \in {q[i] : i \in 1 .. k}
          BY <3>1, <4>2
        <5>2. PICK i \in 1 .. k : q[m] = q[i]
          BY <5>1
        <5>3. i \in 1 .. l /\ m \in 1 .. l
          BY <3>1
        <5>4. m = i
          BY <1>4, <5>2, <5>3
        <5> QED  BY <3>1, <5>4
      <4> QED  BY <4>1, <4>2
    <3>3. FindIn(d, n) = {q[m]}
      <4> HIDE DEF same, I
      <4> QED  BY <2>3, <2>4, <3>1, <3>2
    <3> QED  BY <1>6, <2>6, <3>3 DEF m
  <2> QED  BY <2>5, <2>6
<1> QED  BY <1>7, <1>8

\* A name means its newest definition in the first dictionary that has one
\* (examples.fs:208-209, library/library.c:134-161).
THEOREM NewestFound ==
  ASSUME Liberties = {}
  PROVE  Spec => []FindsNewest
<1>1. IInv => FindsNewest
  <2> SUFFICES ASSUME IInv, NEW n \in Names PROVE Lookup(n) = Promise!Meaning(n)
    BY DEF FindsNewest
  <2> DEFINE I == {i \in 1 .. Len(Order) : FindIn(Order[i], n) # {}}
             J == {i \in 1 .. Len(Order) : Promise!Newest(Order[i], n) # {}}
  <2>1. Len(Order) \in Nat /\ \A i \in 1 .. Len(Order) : Order[i] \in Dicts
    <3>1. Path(Order, listed, base, dnext) /\ listed \in SUBSET Dicts
      BY Mapped DEF IInv, TypeOK
    <3> QED  BY <3>1, LenProperties DEF Path
  <2>2. \A i \in 1 .. Len(Order) : FindIn(Order[i], n) = Promise!Newest(Order[i], n)
    BY <2>1, FindsTheNewest
  <2>3. I = J
    BY <2>2
  <2>4. Lookup(n) = LET i == IF I # {} THEN Min(I) ELSE 0
                    IN  IF i = 0 THEN {} ELSE FindIn(Order[i], n)
    BY DEF Lookup, SelectInSeq, Order
  <2>5. Promise!Meaning(n) = LET i == IF J # {} THEN Min(J) ELSE 0
                             IN  IF i = 0 THEN {} ELSE Promise!Newest(Order[i], n)
    BY DEF Promise!Meaning, Promise!SelectInSeq, Promise!Min, Min, Order
  <2>6. I # {} => Min(I) \in 1 .. Len(Order)
    <3>1. I \in SUBSET Nat
      OBVIOUS
    <3>2. I # {} => Min(I) \in I
      <4> HIDE DEF I
      <4> QED  BY <3>1, Least
    <3> QED  BY <3>2
  <2> HIDE DEF I, J
  <2> QED  BY <2>2, <2>3, <2>4, <2>5, <2>6
<1> QED  BY <1>1, Inductive, PTL
=============================================================================
