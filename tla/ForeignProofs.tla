---------------------------- MODULE ForeignProofs ----------------------------
(***************************************************************************)
(* Proofs about Foreign, for all libraries, functions, declarations and    *)
(* places in memory, of programs that take no liberties.                   *)
(***************************************************************************)
EXTENDS Foreign, FiniteSetTheorems, SequenceTheorems, Lemmas

-----------------------------------------------------------------------------
(* The inductive invariant.                                                *)

Nodes == [object: Objects \cup {None}, prev: Pointers, next: Pointers, live: BOOLEAN, born: Nat]
Signatures == [count: Nat, void: BOOLEAN, ret: Types,
               handle: [object: Objects \cup {None}, function: Functions \cup {None}]]
ForeignWords == [name: Functions, sig: Signatures, meant: [params: Nat, result: BOOLEAN]]

Typed ==
  /\ node \in [Addrs -> Nodes]
  /\ objects \in Addrs \cup {None} /\ recent \in Addrs \cup {None}
  /\ sig \in Signatures /\ words \in Seq(ForeignWords)
  /\ stack \in Seq(Values) /\ Len(stack) <= Limit
  /\ failed \in BOOLEAN /\ alive \in BOOLEAN /\ effort \in Nat

\* The list begins and ends at loaded objects.
Ends == IF Live = {} THEN recent = None /\ objects = None ELSE {recent, objects} \subseteq Live

\* No two objects were loaded at once, the ends first and last.
Aged ==
  /\ \A a \in Live : /\ node[a].object \in Objects
                     /\ node[a].born <= effort
                     /\ node[objects].born <= node[a].born
                     /\ node[a].born <= node[recent].born
  /\ \A a, b \in Live : node[a].born = node[b].born => a = b

\* Before every object but the first stands the one loaded last before it.
Before(a, p) ==
  /\ p \in Live /\ node[p].next = a /\ node[p].born < node[a].born
  /\ \A b \in Live : node[b].born < node[a].born => node[b].born <= node[p].born

\* Links are what malloc left there at the outer sides of the ends, and nowhere else.
Linked ==
  /\ \A a \in Live : a # objects => Before(a, node[a].prev)
  /\ \A a \in Live : a # recent =>
       node[a].next \in Live /\ node[a].next # objects /\ node[node[a].next].prev = a

IInv == Typed /\ Ends /\ Aged /\ Linked /\ WordsAsDeclared

-----------------------------------------------------------------------------
(* The list changes.                                                       *)

\* An object is loaded.
LEMMA Placed ==
  ASSUME Typed, Ends, NEW o \in Objects, NEW a \in Addrs \ Live, Link(a, o)
  PROVE  /\ node' \in [Addrs -> Nodes]
         /\ node'[a].live /\ node'[a].object = o /\ node'[a].born = effort + 1
         /\ recent # None => node'[a].prev = recent
         /\ \A b \in Addrs \ {a} : /\ node'[b].live = node[b].live
                                   /\ node'[b].object = node[b].object
                                   /\ node'[b].born = node[b].born
                                   /\ node'[b].prev = node[b].prev
                                   /\ node'[b].next = IF b = recent THEN a ELSE node[b].next
         /\ recent' = a /\ objects' = IF objects = None THEN a ELSE objects
<1>1. PICK prev \in {None, Wild, node[a].prev}, next \in {None, Wild, node[a].next} :
        LET new == [object |-> o, prev |-> IF recent = None THEN prev ELSE recent,
                    next |-> next, live |-> TRUE, born |-> effort + 1]
            placed == [node EXCEPT ![a] = new]
        IN  node' = IF recent = None THEN placed ELSE [placed EXCEPT ![recent].next = a]
  BY DEF Link
<1>2. recent' = a /\ objects' = IF objects = None THEN a ELSE objects
  BY DEF Link
<1> DEFINE new == [object |-> o, prev |-> IF recent = None THEN prev ELSE recent,
                   next |-> next, live |-> TRUE, born |-> effort + 1]
           placed == [node EXCEPT ![a] = new]
<1>3. node \in [Addrs -> Nodes] /\ effort \in Nat /\ recent \in Addrs \cup {None}
  BY DEF Typed
<1>4. prev \in Pointers /\ next \in Pointers /\ recent \in Pointers /\ a \in Pointers
  BY <1>3 DEF Nodes, Pointers
<1>5. /\ new \in Nodes /\ new.live /\ new.object = o /\ new.born = effort + 1
      /\ recent # None => new.prev = recent
  BY <1>3, <1>4 DEF Nodes
<1> HIDE DEF new
<1>6. /\ placed \in [Addrs -> Nodes] /\ placed[a] = new
      /\ \A b \in Addrs \ {a} : placed[b] = node[b]
  BY <1>3, <1>5
<1> HIDE DEF placed
<1>7. CASE recent = None
  <2>1. node' = placed
    BY <1>1, <1>7 DEF placed, new
  <2> QED  BY <1>2, <1>3, <1>5, <1>6, <1>7, <2>1, ForeignAssumption
<1>8. CASE recent # None
  <2>1. recent \in Live /\ recent \in Addrs /\ recent # a
    BY <1>3, <1>8 DEF Ends
  <2> DEFINE later == [placed[recent] EXCEPT !.next = a]
  <2>2. node' = [placed EXCEPT ![recent] = later]
    BY <1>1, <1>8 DEF placed, new
  <2>3. placed[recent] = node[recent] /\ node[recent] \in Nodes
    BY <1>3, <1>6, <2>1
  <2>4. /\ later \in Nodes /\ later.next = a /\ later.live = node[recent].live
        /\ later.object = node[recent].object /\ later.born = node[recent].born
        /\ later.prev = node[recent].prev
    BY <1>4, <2>3 DEF Nodes
  <2> HIDE DEF later
  <2>5. /\ node' \in [Addrs -> Nodes] /\ node'[a] = new /\ node'[recent] = later
        /\ \A b \in Addrs \ {a} : b # recent => node'[b] = node[b]
    BY <1>6, <2>1, <2>2, <2>4
  <2> QED  BY <1>2, <1>5, <1>8, <2>1, <2>4, <2>5
<1> QED  BY <1>7, <1>8

LEMMA LoadList ==
  ASSUME Typed, Ends, Aged, Linked, NEW o \in Objects, NEW a \in Addrs \ Live, Link(a, o),
         effort' = effort + 1
  PROVE  node' \in [Addrs -> Nodes] /\ recent' \in Addrs /\ objects' \in Addrs
         /\ Ends' /\ Aged' /\ Linked'
         /\ \A b \in Live : b \in Live' /\ node'[b].object = node[b].object
<1>1. /\ node' \in [Addrs -> Nodes]
      /\ node'[a].live /\ node'[a].object = o /\ node'[a].born = effort + 1
      /\ recent # None => node'[a].prev = recent
      /\ \A b \in Addrs \ {a} : /\ node'[b].live = node[b].live
                                /\ node'[b].object = node[b].object
                                /\ node'[b].born = node[b].born
                                /\ node'[b].prev = node[b].prev
                                /\ node'[b].next = IF b = recent THEN a ELSE node[b].next
      /\ recent' = a /\ objects' = IF objects = None THEN a ELSE objects
  BY Placed
<1>2. /\ node \in [Addrs -> Nodes] /\ effort \in Nat
      /\ \A b \in Addrs : node[b].born \in Nat
  BY DEF Typed, Nodes
<1>3. Live' = Live \cup {a} /\ a \notin Live /\ Live \subseteq Addrs
  BY <1>1 DEF Live
<1>4. \A b \in Live : /\ b \in Addrs \ {a} /\ b \in Live' /\ node'[b].object = node[b].object
                      /\ node'[b].born = node[b].born /\ node'[b].prev = node[b].prev
                      /\ node'[b].next = IF b = recent THEN a ELSE node[b].next
  BY <1>1, <1>3
<1>5. IF Live = {} THEN recent = None /\ objects = None
      ELSE recent \in Live /\ objects \in Live /\ recent # None /\ objects # None
  BY <1>3, ForeignAssumption DEF Ends
<1>6. Ends'
  BY <1>1, <1>3, <1>5 DEF Ends
<1>7. Aged'
  BY <1>1, <1>2, <1>3, <1>4, <1>5 DEF Aged
<1>8. ASSUME NEW b \in Live', b # objects' PROVE Before(b, node[b].prev)'
  <2>1. CASE b = a
    <3>1. Live # {} /\ recent \in Live /\ node'[a].prev = recent /\ node'[recent].next = a
      BY <1>1, <1>3, <1>4, <1>5, <1>8, <2>1
    <3> QED  BY <1>1, <1>2, <1>3, <1>4, <2>1, <3>1 DEF Before, Aged
  <2>2. CASE b \in Live
    <3>1. Before(b, node[b].prev) /\ node'[b].prev = node[b].prev
      BY <1>1, <1>4, <1>5, <1>8, <2>2 DEF Linked
    <3> DEFINE p == node[b].prev
    <3>2. p \in Live /\ node[p].next = b /\ node'[p].born = node[p].born /\ p # recent
      BY <1>2, <1>3, <1>4, <1>5, <2>2, <3>1 DEF Before, Aged
    <3>3. node'[p].next = b
      BY <1>4, <3>2
    <3> HIDE DEF p
    <3>4. \A c \in Live' : node'[c].born < node'[b].born => node'[c].born <= node'[p].born
      BY <1>1, <1>2, <1>3, <1>4, <2>2, <3>1, <3>2 DEF Before, Aged, p
    <3> QED  BY <1>3, <1>4, <2>2, <3>1, <3>2, <3>3, <3>4 DEF Before, p
  <2> QED  BY <1>3, <2>1, <2>2
<1>9. ASSUME NEW b \in Live', b # recent'
      PROVE  (node[b].next \in Live /\ node[b].next # objects /\ node[node[b].next].prev = b)'
  <2>1. b \in Live /\ b # a
    BY <1>1, <1>3, <1>9
  <2>2. CASE b = recent
    BY <1>1, <1>3, <1>4, <1>5, <2>1, <2>2
  <2>3. CASE b # recent
    <3>1. /\ node[b].next \in Live /\ node[b].next # objects /\ node[node[b].next].prev = b
          /\ node'[b].next = node[b].next
      BY <1>4, <2>1, <2>3 DEF Linked
    <3> QED  BY <1>1, <1>4, <3>1, <1>5
  <2> QED  BY <2>2, <2>3
<1>10. Linked'
  BY <1>8, <1>9 DEF Linked
<1>11. recent' \in Addrs /\ objects' \in Addrs
  BY <1>1, <1>3, <1>5
<1> QED  BY <1>1, <1>4, <1>6, <1>7, <1>10, <1>11

\* What the links of an object that a program may free are.
LEMMA Removable ==
  ASSUME Typed, Ends, Aged, Linked, Liberties = {}, NEW a \in Live, Careful(a)
  PROVE  \/ /\ node[a].prev = None /\ node[a].next = None /\ Live = {a}
         \/ /\ a # recent /\ a # objects /\ node[a].prev \in Live /\ node[a].next \in Live
            /\ node[a].prev # a /\ node[a].next # a /\ node[a].prev # node[a].next
<1>1. /\ None \notin Live /\ \A b \in Live : node[b].born \in Nat
      /\ recent \in Live /\ objects \in Live
  BY ForeignAssumption DEF Typed, Nodes, Live, Ends
<1>2. CASE a \in {objects, recent}
  <2>1. node[a].prev = None /\ node[a].next = None
    BY <1>2 DEF Careful
  <2>2. a = objects /\ a = recent
    BY <1>1, <2>1 DEF Linked, Before
  <2>3. \A b \in Live : b = a
    BY <1>1, <2>2 DEF Aged
  <2> QED  BY <2>1, <2>3
<1>3. CASE a \notin {objects, recent}
  <2> DEFINE p == node[a].prev
             n == node[a].next
  <2>1. /\ p \in Live /\ node[p].born < node[a].born
        /\ n \in Live /\ node[n].prev = a /\ n # objects
    BY <1>3 DEF Linked, Before
  <2>2. node[a].born < node[n].born
    BY <2>1 DEF Linked, Before
  <2> HIDE DEF p, n
  <2>3. p # a /\ n # a /\ p # n
    BY <1>1, <2>1, <2>2
  <2> QED  BY <1>3, <2>1, <2>3 DEF p, n
<1> QED  BY <1>2, <1>3

\* An object leaves the list and its memory is free.
Freeing(a) == node' = [Unlinked(a) EXCEPT ![a].live = FALSE, ![a].born = 0]

\* An object that has two neighbours is freed.
LEMMA Removed ==
  ASSUME node \in [Addrs -> Nodes], NEW a \in Addrs, NEW p \in Addrs, NEW n \in Addrs,
         p = node[a].prev, n = node[a].next, p # a, n # a, p # n,
         Freeing(a)
  PROVE  /\ node' \in [Addrs -> Nodes] /\ ~node'[a].live
         /\ \A b \in Addrs \ {a} : /\ node'[b].live = node[b].live
                                   /\ node'[b].object = node[b].object
                                   /\ node'[b].born = node[b].born
                                   /\ node'[b].prev = IF b = n THEN p ELSE node[b].prev
                                   /\ node'[b].next = IF b = p THEN n ELSE node[b].next
<1>1. Unlinked(a) = [node EXCEPT ![p].next = n, ![n].prev = p]
  BY ForeignAssumption DEF Unlinked
<1> DEFINE atp == [node[p] EXCEPT !.next = n]
           atn == [node[n] EXCEPT !.prev = p]
           ata == [node[a] EXCEPT !.live = FALSE, !.born = 0]
<1>2. /\ node[p] \in Nodes /\ node[n] \in Nodes /\ node[a] \in Nodes
      /\ p \in Pointers /\ n \in Pointers
  BY DEF Pointers
<1>3. /\ atp \in Nodes /\ atp.next = n /\ atp.live = node[p].live /\ atp.object = node[p].object
      /\ atp.born = node[p].born /\ atp.prev = node[p].prev
      /\ atn \in Nodes /\ atn.prev = p /\ atn.live = node[n].live /\ atn.object = node[n].object
      /\ atn.born = node[n].born /\ atn.next = node[n].next
      /\ ata \in Nodes /\ ~ata.live
  BY <1>2 DEF Nodes
<1>4. node' = [node EXCEPT ![p] = atp, ![n] = atn, ![a] = ata]
  BY <1>1 DEF Freeing
<1> HIDE DEF atp, atn, ata
<1>5. /\ node' \in [Addrs -> Nodes] /\ node'[a] = ata /\ node'[p] = atp /\ node'[n] = atn
      /\ \A b \in Addrs \ {a, p, n} : node'[b] = node[b]
  BY <1>3, <1>4
<1> QED  BY <1>3, <1>5

LEMMA FreeInside ==
  ASSUME Typed, Ends, Aged, Linked, NEW a \in Live, a # recent, a # objects,
         NEW p \in Live, NEW n \in Live, p = node[a].prev, n = node[a].next,
         p # a, n # a, p # n,
         Freeing(a),
         effort' = effort + 1, UNCHANGED <<recent, objects>>
  PROVE  node' \in [Addrs -> Nodes] /\ Ends' /\ Aged' /\ Linked'
         /\ \A b \in Live \ {a} : b \in Live' /\ node'[b].object = node[b].object
<1>1. /\ node \in [Addrs -> Nodes] /\ effort \in Nat /\ Live \subseteq Addrs
      /\ \A b \in Addrs : node[b].born \in Nat
  BY DEF Typed, Nodes, Live
<1>2. /\ node' \in [Addrs -> Nodes] /\ ~node'[a].live
      /\ \A b \in Addrs \ {a} : /\ node'[b].live = node[b].live
                                /\ node'[b].object = node[b].object
                                /\ node'[b].born = node[b].born
                                /\ node'[b].prev = IF b = n THEN p ELSE node[b].prev
                                /\ node'[b].next = IF b = p THEN n ELSE node[b].next
  <2>1. /\ node \in [Addrs -> Nodes] /\ a \in Addrs /\ p \in Addrs /\ n \in Addrs
        /\ p = node[a].prev /\ n = node[a].next /\ p # a /\ n # a /\ p # n
        /\ Freeing(a)
    BY <1>1
  <2> QED  BY <2>1, Removed
<1>3. Live' = Live \ {a}
  BY <1>1, <1>2 DEF Live
<1>4. \A b \in Live' : /\ b \in Live /\ b # a
                       /\ node'[b].object = node[b].object
                       /\ node'[b].born = node[b].born
                       /\ node'[b].prev = IF b = n THEN p ELSE node[b].prev
                       /\ node'[b].next = IF b = p THEN n ELSE node[b].next
  BY <1>1, <1>2, <1>3
<1>5. recent \in Live' /\ objects \in Live' /\ recent \in Live /\ objects \in Live
  BY <1>3 DEF Ends
<1>6. Ends'
  BY <1>5 DEF Ends
<1>7. Aged'
  <2>1. ASSUME NEW b \in Live'
        PROVE  /\ node'[b].object \in Objects /\ node'[b].born <= effort'
               /\ node'[objects'].born <= node'[b].born /\ node'[b].born <= node'[recent'].born
    <3>1. /\ node[b].object \in Objects /\ node[b].born <= effort
          /\ node[objects].born <= node[b].born /\ node[b].born <= node[recent].born
      BY <1>4 DEF Aged
    <3>2. /\ node'[b].object = node[b].object /\ node'[b].born = node[b].born
          /\ node'[objects].born = node[objects].born /\ node'[recent].born = node[recent].born
      BY <1>4, <1>5
    <3>3. node[b].born <= effort + 1
      BY <1>1, <1>4, <3>1
    <3> QED  BY <3>1, <3>2, <3>3
  <2>2. \A b, c \in Live' : node'[b].born = node'[c].born => b = c
    BY <1>4 DEF Aged
  <2> QED  BY <2>1, <2>2 DEF Aged
<1>8. Before(a, p) /\ Before(n, a) /\ n # objects /\ node[n].prev = a /\ node[p].next = a
  BY DEF Linked, Before
<1>9. ASSUME NEW b \in Live', b # objects PROVE Before(b, node[b].prev)'
  <2>1. b \in Live /\ b # a /\ Before(b, node[b].prev)
    BY <1>4, <1>9 DEF Linked
  <2>2. CASE b = n
    <3>1. p \in Live' /\ node'[p].next = n /\ node'[p].born = node[p].born /\ node'[b].prev = p
          /\ node'[b].born = node[b].born
      BY <1>3, <1>4, <1>9, <2>2
    <3>2. node[p].born < node[a].born /\ node[a].born < node[n].born
      BY <1>8 DEF Before
    <3>3. ASSUME NEW c \in Live', node'[c].born < node'[b].born
          PROVE  node'[c].born <= node'[p].born
      <4>1. node'[c].born = node[c].born /\ c \in Live /\ c # a
        BY <1>4
      <4>2. node[c].born <= node[a].born
        BY <1>8, <2>2, <3>1, <3>3, <4>1 DEF Before
      <4>3. node[c].born < node[a].born
        BY <1>1, <4>1, <4>2 DEF Aged
      <4> QED  BY <1>8, <3>1, <4>1, <4>3 DEF Before
    <3>4. node'[p].born < node'[b].born
      BY <1>1, <2>2, <3>1, <3>2
    <3> QED  BY <2>2, <3>1, <3>3, <3>4 DEF Before
  <2>3. CASE b # n
    <3> DEFINE q == node[b].prev
    <3>1. q \in Live /\ node[q].next = b /\ node'[b].prev = q /\ node'[b].born = node[b].born
      BY <1>4, <1>9, <2>1, <2>3 DEF Before
    <3> HIDE DEF q
    <3>2. q # a /\ q # p
      BY <1>8, <2>1, <2>3, <3>1
    <3>3. q \in Live' /\ node'[q].next = b /\ node'[q].born = node[q].born
      BY <1>3, <1>4, <3>1, <3>2
    <3>4. Before(b, q)
      BY <2>1 DEF q
    <3> QED  BY <1>4, <3>1, <3>3, <3>4 DEF Before
  <2> QED  BY <2>2, <2>3
<1>10. ASSUME NEW b \in Live', b # recent
       PROVE  node'[b].next \in Live' /\ node'[b].next # objects /\ node'[node'[b].next].prev = b
  <2>1. b \in Live /\ b # a
    BY <1>4
  <2>2. CASE b = p
    <3>1. node'[b].next = n /\ n \in Live' /\ node'[n].prev = p
      BY <1>3, <1>4, <2>2
    <3> QED  BY <1>8, <2>2, <3>1
  <2>3. CASE b # p
    <3> DEFINE q == node[b].next
    <3>1. q \in Live /\ q # objects /\ node[q].prev = b /\ node'[b].next = q
      BY <1>4, <1>10, <2>1, <2>3 DEF Linked
    <3> HIDE DEF q
    <3>2. q # a /\ q # n
      BY <1>8, <2>1, <2>3, <3>1
    <3>3. q \in Live'
      BY <1>3, <3>1, <3>2
    <3>4. node'[q].prev = b
      BY <1>4, <3>1, <3>2, <3>3
    <3> QED  BY <3>1, <3>3, <3>4
  <2> QED  BY <2>2, <2>3
<1>11. Linked'
  BY <1>5, <1>9, <1>10 DEF Linked
<1> QED  BY <1>2, <1>3, <1>4, <1>6, <1>7, <1>11

\* The only object is freed.
LEMMA FreeOnly ==
  ASSUME Typed, NEW a \in Live, Live = {a}, node[a].prev = None, node[a].next = None,
         Freeing(a),
         recent' = None, objects' = None
  PROVE  node' \in [Addrs -> Nodes] /\ Ends' /\ Aged' /\ Linked'
<1>1. node \in [Addrs -> Nodes] /\ a \in Addrs
  BY DEF Typed, Live
<1> DEFINE ata == [node[a] EXCEPT !.live = FALSE, !.born = 0]
<1>2. ata \in Nodes /\ ~ata.live
  BY <1>1 DEF Nodes
<1>3. Unlinked(a) = node
  BY DEF Unlinked
<1>4. node' = [node EXCEPT ![a] = ata]
  BY <1>1, <1>3 DEF Freeing
<1> HIDE DEF ata
<1>5. node' \in [Addrs -> Nodes] /\ ~node'[a].live /\ \A b \in Addrs \ {a} : node'[b] = node[b]
  BY <1>1, <1>2, <1>4
<1>6. Live' = {}
  BY <1>5 DEF Live
<1> QED  BY <1>5, <1>6 DEF Ends, Aged, Linked

-----------------------------------------------------------------------------
(* Searches.                                                               *)

\* The equation by which Search is defined has a solution.
LEMMA SearchDefined ==
  ASSUME node \in [Addrs -> Nodes], recent \in Pointers, NEW N, N = Cardinality(Addrs)
  PROVE  /\ N \in Nat /\ Search \in [0 .. N -> Pointers] /\ Search[0] = recent
         /\ \A n \in 1 .. N : Search[n] = IF Search[n - 1] \in Addrs
                                          THEN node[Search[n - 1]].prev ELSE Search[n - 1]
<1> DEFINE On(x) == IF x \in Addrs THEN node[x].prev ELSE x
           G == [p \in (1 .. N) \X Pointers |-> On(p[2])]
           Solves(f) == f = [n \in 0 .. N |-> IF n = 0 THEN recent ELSE On(f[n - 1])]
<1>1. N \in Nat
  BY FS_CardinalityType, ForeignAssumption
<1>2. \A x \in Pointers : On(x) \in Pointers
  BY DEF Nodes
<1>3. \A n \in 1 .. N, x \in Pointers : G[<<n, x>>] = On(x)
  OBVIOUS
<1> HIDE DEF G, On
<1>4. PICK f \in [0 .. N -> Pointers] : f[0] = recent /\ \A n \in 1 .. N : f[n] = G[<<n, f[n - 1]>>]
  <2>1. Steps(G, N, Pointers)
    BY <1>2, <1>3 DEF Steps
  <2>2. \E f \in [0 .. N -> Pointers] : Follows(f, recent, G, N)
    BY <1>1, <2>1, Defined
  <2> QED  BY <2>2 DEF Follows
<1>5. \A n \in 1 .. N : f[n] = On(f[n - 1])
  <2>1. \A n \in 1 .. N : n - 1 \in 0 .. N
    BY <1>1
  <2> QED  BY <1>3, <1>4, <2>1, ZenonT(30)
<1>6. Solves(f)
  <2>1. \A n \in 0 .. N : f[n] = IF n = 0 THEN recent ELSE On(f[n - 1])
    BY <1>1, <1>4, <1>5
  <2> QED  BY <2>1
<1>7. Search = CHOOSE g : Solves(g)
  BY DEF Search, On
<1>8. Solves(Search)
  BY <1>6, <1>7
<1> HIDE DEF Solves
<1>9. Search = [n \in 0 .. N |-> IF n = 0 THEN recent ELSE On(Search[n - 1])]
  BY <1>8 DEF Solves
<1>10. Search[0] = recent /\ \A n \in 1 .. N : Search[n] = On(Search[n - 1])
  BY <1>1, <1>9
<1>11. Search \in [0 .. N -> Pointers]
  <2> DEFINE K == {n \in 0 .. N : Search[n] \in Pointers}
  <2>1. 0 \in K
    BY <1>1, <1>10
  <2>2. \A n \in 0 .. N - 1 : n \in K => n + 1 \in K
    <3> SUFFICES ASSUME NEW n \in 0 .. N - 1, n \in K PROVE n + 1 \in K
      OBVIOUS
    <3>1. n + 1 \in 1 .. N /\ (n + 1) - 1 = n
      BY <1>1
    <3>2. Search[n + 1] = On(Search[n])
      BY <1>10, <3>1
    <3> QED  BY <1>2, <3>1, <3>2
  <2> HIDE DEF K
  <2>3. 0 .. N \subseteq K
    BY <1>1, <2>1, <2>2, Induct
  <2>4. \A n \in 0 .. N : Search[n] \in Pointers
    BY <2>3 DEF K
  <2> QED  BY <1>9, <2>4
<1> QED  BY <1>1, <1>10, <1>11 DEF On

\* Up to the object m a search goes through older and older objects.
Passed(m, n) ==
  /\ Search[n] \in Live /\ node[Search[n]].born > node[m].born
  /\ \A i \in 0 .. n - 1 : Search[i] \in Live /\ node[Search[n]].born < node[Search[i]].born

LEMMA OlderAndOlder ==
  ASSUME Typed, Ends, Aged, Linked, NEW m \in Live, NEW M \in Nat, M <= Cardinality(Addrs),
         \A n \in 0 .. M : Search[n] # m
  PROVE  \A n \in 0 .. M : Passed(m, n)
<1> DEFINE N == Cardinality(Addrs)
<1>1. /\ node \in [Addrs -> Nodes] /\ recent \in Pointers
      /\ \A b \in Live : b \in Addrs /\ node[b].born \in Nat
  BY DEF Typed, Nodes, Live, Pointers
<1>2. /\ N \in Nat /\ Search \in [0 .. N -> Pointers] /\ Search[0] = recent
      /\ \A n \in 1 .. N : Search[n] = IF Search[n - 1] \in Addrs
                                       THEN node[Search[n - 1]].prev ELSE Search[n - 1]
  BY <1>1, SearchDefined
<1> HIDE DEF N
<1> DEFINE K == {n \in 0 .. M : Passed(m, n)}
<1>3. 0 \in K
  <2>1. recent \in Live /\ recent # m /\ node[m].born <= node[recent].born
    BY <1>2 DEF Ends, Aged
  <2>2. node[recent].born > node[m].born
    BY <1>1, <2>1 DEF Aged
  <2> QED  BY <1>2, <2>1, <2>2 DEF Passed
<1>4. ASSUME NEW n \in 0 .. M - 1, n \in K PROVE n + 1 \in K
  <2> DEFINE x == Search[n]
             p == node[x].prev
  <2>1. n + 1 \in 1 .. N /\ (n + 1) - 1 = n /\ n + 1 \in 0 .. M
    BY <1>2 DEF N
  <2>2. Passed(m, n)
    BY <1>4
  <2>3. x \in Live /\ node[x].born > node[m].born
    BY <2>2 DEF Passed
  <2>4. Search[n + 1] = p
    BY <1>1, <1>2, <2>1, <2>3
  <2>5. \A i \in 0 .. n - 1 : Search[i] \in Live /\ node[x].born < node[Search[i]].born
    BY <2>2 DEF Passed
  <2> HIDE DEF x
  <2>6. x # objects
    BY <1>1, <2>3 DEF Aged, Ends
  <2>7. p \in Live /\ node[p].born < node[x].born /\ node[m].born <= node[p].born
    BY <1>1, <2>3, <2>6 DEF Linked, Before
  <2> HIDE DEF p
  <2>8. p # m
    BY <2>1, <2>4
  <2>9. node[p].born > node[m].born
    BY <1>1, <2>7, <2>8 DEF Aged
  <2>10. \A i \in 0 .. n : Search[i] \in Live /\ node[p].born < node[Search[i]].born
    <3> SUFFICES ASSUME NEW i \in 0 .. n
                 PROVE  Search[i] \in Live /\ node[p].born < node[Search[i]].born
      OBVIOUS
    <3>1. CASE i = n
      BY <2>3, <2>7, <3>1 DEF x
    <3>2. CASE i # n
      <4>1. i \in 0 .. n - 1 /\ i \in 0 .. M
        BY <3>2
      <4>2. Search[i] \in Live /\ node[x].born < node[Search[i]].born
        BY <2>5, <4>1
      <4> QED  BY <1>1, <2>3, <2>7, <4>2
    <3> QED  BY <3>1, <3>2
  <2>11. Passed(m, n + 1)
    BY <2>1, <2>4, <2>7, <2>9, <2>10 DEF Passed
  <2> QED  BY <2>1, <2>11
<1> HIDE DEF K
<1>5. 0 .. M \subseteq K
  BY <1>3, <1>4, Induct
<1> QED  BY <1>5 DEF K

\* One of several objects was loaded last.
LEMMA LoadedLast ==
  ASSUME Typed, Aged, NEW S, S \subseteq Live, S # {}
  PROVE  \E m \in S : \A b \in S : node[b].born <= node[m].born
<1>1. effort \in Nat /\ \A b \in Live : node[b].born \in Nat /\ node[b].born <= effort
  BY DEF Typed, Nodes, Live, Aged
<1> DEFINE T == {k \in Nat : \A b \in S : k # effort - node[b].born}
<1>2. PICK b0 \in S : TRUE
  OBVIOUS
<1>3. effort - node[b0].born \in Nat /\ effort - node[b0].born \notin T
  BY <1>1
<1> DEFINE k0 == effort - node[b0].born
<1> HIDE DEF T, k0
<1>4. PICK k \in Nat : k \notin T /\ \A j \in Nat : j < k => j \in T
  <2>1. k0 \in Nat /\ k0 \notin T
    BY <1>3 DEF k0
  <2> QED  BY <2>1, Smallest
<1>5. PICK m \in S : k = effort - node[m].born
  BY <1>4 DEF T
<1>6. ASSUME NEW b \in S PROVE node[b].born <= node[m].born
  <2> DEFINE j == effort - node[b].born
  <2>1. j \in Nat /\ j \notin T
    BY <1>1 DEF T
  <2>2. ~(j < k)
    BY <1>4, <2>1
  <2> QED  BY <1>1, <1>5, <2>2
<1> QED  BY <1>6

\* A search for some of the loaded objects finds the one loaded last.
LEMMA Found ==
  ASSUME Typed, Ends, Aged, Linked, NEW S, S \subseteq Live, S # {}
  PROVE  /\ ~Perishes(S) /\ Result(S) \in S
         /\ \A b \in S : node[b].born <= node[Result(S)].born
<1> DEFINE N == Cardinality(Addrs)
<1>1. /\ node \in [Addrs -> Nodes] /\ recent \in Pointers
      /\ Live \subseteq Addrs /\ \A b \in Live : node[b].born \in Nat
  BY DEF Typed, Nodes, Live, Pointers
<1>2. N \in Nat /\ Search \in [0 .. N -> Pointers]
  BY <1>1, SearchDefined
<1>3. PICK m \in S : \A b \in S : node[b].born <= node[m].born
  BY LoadedLast
<1> HIDE DEF N
<1>4. \E n \in 0 .. N : Search[n] = m
  <2> SUFFICES ASSUME \A n \in 0 .. N : Search[n] # m PROVE FALSE
    OBVIOUS
  <2>1. \A n \in 0 .. N : Passed(m, n)
    <3>1. N <= N /\ N = Cardinality(Addrs) /\ m \in Live
      BY <1>2 DEF N
    <3> QED  BY <1>2, <3>1, OlderAndOlder
  <2>2. \A n \in 0 .. N : Search[n] \in Addrs
    BY <1>1, <2>1 DEF Passed
  <2>3. Search \in [0 .. N -> Addrs]
    BY <1>2, <2>2
  <2>4. IsFiniteSet(0 .. N) /\ Cardinality(0 .. N) = N + 1
    BY <1>2, FS_Interval
  <2>5. Cardinality(Addrs) < Cardinality(0 .. N)
    BY <1>2, <2>4 DEF N
  <2>6. PICK x, y \in 0 .. N : x # y /\ Search[x] = Search[y]
    <3> DEFINE D == 0 .. N
               f == Search
    <3>1. /\ IsFiniteSet(D) /\ IsFiniteSet(Addrs) /\ Cardinality(Addrs) < Cardinality(D)
          /\ f \in [D -> Addrs]
      BY <2>3, <2>4, <2>5, ForeignAssumption
    <3> HIDE DEF D, f
    <3>2. \E x, y \in D : x # y /\ f[x] = f[y]
      BY <3>1, FS_PigeonHole
    <3> QED  BY <3>2 DEF D, f
  <2>7. ASSUME NEW i \in 0 .. N, NEW j \in 0 .. N, i < j PROVE Search[i] # Search[j]
    <3>1. i \in 0 .. j - 1
      BY <2>7
    <3>2. node[Search[j]].born < node[Search[i]].born /\ Search[i] \in Live /\ Search[j] \in Live
      BY <2>1, <3>1 DEF Passed
    <3> QED  BY <1>1, <3>2
  <2> QED  BY <2>6, <2>7
<1>5. PICK h \in 0 .. N : Search[h] = m /\ \A j \in 0 .. h - 1 : Search[j] # m
  <2> DEFINE T == {k \in Nat : k > N \/ Search[k] # m}
  <2>1. PICK n \in 0 .. N : Search[n] = m
    BY <1>4
  <2>2. n \in Nat /\ n \notin T
    BY <1>2, <2>1
  <2> HIDE DEF T
  <2>3. PICK h \in Nat : h \notin T /\ \A j \in Nat : j < h => j \in T
    BY <2>2, Smallest
  <2>4. h \in 0 .. N /\ Search[h] = m
    BY <1>2, <2>3 DEF T
  <2>5. \A j \in 0 .. h - 1 : Search[j] # m
    BY <1>2, <2>3, <2>4 DEF T
  <2> QED  BY <2>4, <2>5
<1>6. \A j \in 0 .. h - 1 : Search[j] \in Live \ S
  <2>1. CASE h = 0
    BY <2>1
  <2>2. CASE h # 0
    <3> DEFINE M == h - 1
    <3>1. M \in Nat /\ M <= Cardinality(Addrs) /\ \A j \in 0 .. M : Search[j] # m
      BY <1>2, <1>5, <2>2 DEF N
    <3> HIDE DEF M
    <3>2. \A j \in 0 .. M : Passed(m, j)
      BY <3>1, OlderAndOlder
    <3>3. \A j \in 0 .. M : Search[j] \in Live /\ node[Search[j]].born > node[m].born
      BY <3>2 DEF Passed
    <3>4. \A j \in 0 .. M : Search[j] \notin S
      BY <1>1, <1>3, <3>3
    <3> QED  BY <3>3, <3>4 DEF M
  <2> QED  BY <2>1, <2>2
<1>7. h \in Hits(S) /\ \A n \in Hits(S) : h <= n
  <2>1. DOMAIN Search = 0 .. N
    BY <1>2
  <2>2. h \in Hits(S)
    BY <1>5, <2>1 DEF Hits
  <2>3. ASSUME NEW n \in Hits(S), ~(h <= n) PROVE FALSE
    <3>1. n \in 0 .. N /\ Search[n] \in S
      BY <2>1 DEF Hits
    <3>2. n \in 0 .. h - 1
      BY <1>2, <2>3, <3>1
    <3> QED  BY <1>6, <3>1, <3>2
  <2> QED  BY <2>2, <2>3
<1>8. Walked(S) = 0 .. h
  <2> DEFINE c == CHOOSE n \in Hits(S) : \A j \in Hits(S) : n <= j
  <2>1. c \in Hits(S) /\ \A j \in Hits(S) : c <= j
    BY <1>7
  <2>2. c \in 0 .. N
    BY <1>2, <2>1 DEF Hits
  <2>3. Walked(S) = 0 .. c
    BY <1>7 DEF Walked
  <2> HIDE DEF c
  <2>4. c <= h /\ h <= c
    BY <1>7, <2>1
  <2>5. c = h
    BY <2>2, <2>4
  <2> QED  BY <2>3, <2>5
<1>9. Cardinality(0 .. h) = h + 1
  BY FS_Interval
<1>10. Result(S) = m
  <2>1. Search[Cardinality(Walked(S)) - 1] = m
    <3>1. Cardinality(Walked(S)) - 1 = h
      BY <1>8, <1>9
    <3> QED  BY <1>5, <3>1
  <2> QED  BY <2>1 DEF Result
<1>11. ~Freed(S)
  <2>1. \A n \in 0 .. h : Search[n] \in Live
    <3>1. \A n \in 0 .. h : n = h \/ n \in 0 .. h - 1
      OBVIOUS
    <3> QED  BY <1>5, <1>6, <3>1
  <2> QED  BY <1>8, <2>1 DEF Freed
<1>12. Result(S) # Wild
  BY <1>1, <1>10, ForeignAssumption
<1> QED  BY <1>3, <1>10, <1>11, <1>12 DEF Perishes

\* Only what was searched for is found.
LEMMA FoundOnly ==
  ASSUME NEW S, Result(S) \in Addrs
  PROVE  Result(S) \in S
BY ForeignAssumption DEF Result

-----------------------------------------------------------------------------
(* Declarations.                                                           *)

Readings == [count: Nat, void: BOOLEAN, ret: Types, params: BOOLEAN, result: BOOLEAN,
             end: BOOLEAN, bad: BOOLEAN]

\* What a token changes.
LEMMA TokenRead ==
  ASSUME NEW s \in Readings, NEW t \in Tokens, NEW r, r = ReadToken(s, t)
  PROVE  /\ r \in Readings
         /\ s.end \/ s.bad => r = s
         /\ ~s.end /\ ~s.bad =>
              /\ t = "--" => /\ ~r.params /\ ~r.end /\ ~r.bad
                             /\ r.count = s.count /\ r.ret = s.ret /\ (r.result <=> s.result)
              /\ t = "u64" /\ s.params =>
                   /\ r.params /\ ~r.end /\ ~r.bad /\ (r.result <=> s.result) /\ r.ret = s.ret
                   /\ r.count = s.count + 1
              /\ t = "void" /\ s.params /\ ~r.bad =>
                   /\ r.params /\ ~r.end /\ (r.result <=> s.result) /\ r.ret = s.ret
                   /\ r.count = s.count
              /\ t \in Types /\ ~s.params /\ ~r.bad =>
                   /\ ~r.params /\ ~r.end /\ ~s.result /\ r.result /\ r.ret = t
                   /\ r.count = s.count
              /\ t = ")" /\ ~r.bad =>
                   /\ (r.params <=> s.params) /\ r.end /\ (r.result <=> s.result) /\ r.ret = s.ret
                   /\ r.count = s.count /\ (s.params \/ s.result)
<1>0. /\ s.count \in Nat /\ s.void \in BOOLEAN /\ s.ret \in Types /\ s.params \in BOOLEAN
      /\ s.result \in BOOLEAN /\ s.end \in BOOLEAN /\ s.bad \in BOOLEAN
  BY DEF Readings
<1>1. CASE s.end \/ s.bad
  BY <1>1 DEF ReadToken
<1>2. CASE ~s.end /\ ~s.bad /\ t = "--"
  <2>1. r = [s EXCEPT !.params = FALSE]
    BY <1>2 DEF ReadToken, Types
  <2> QED  BY <1>2, <2>1 DEF Readings, Types
<1>3. CASE ~s.end /\ ~s.bad /\ t = "u64" /\ s.params
  <2> DEFINE v == s.void /\ s.count > 0
  <2>1. r = [s EXCEPT !.count = s.count + 1, !.void = v]
    BY <1>3 DEF ReadToken, Types
  <2>2. v \in BOOLEAN
    OBVIOUS
  <2> HIDE DEF v
  <2> DEFINE c == s.count + 1
  <2>3. c \in Nat /\ c = s.count + 1 /\ r = [s EXCEPT !.count = c, !.void = v]
    BY <1>0, <2>1
  <2> HIDE DEF c
  <2>4. /\ r \in Readings /\ r.count = c /\ r.ret = s.ret /\ r.params = s.params
        /\ r.result = s.result /\ r.end = s.end /\ r.bad = s.bad
    BY <1>0, <2>2, <2>3 DEF Readings
  <2> QED  BY <1>0, <1>3, <2>3, <2>4 DEF Types
<1>4. CASE ~s.end /\ ~s.bad /\ t = "void" /\ s.params
  <2>1. r = IF s.count > 0 THEN [s EXCEPT !.bad = TRUE] ELSE [s EXCEPT !.void = TRUE]
    BY <1>4 DEF ReadToken, Types
  <2>2. CASE s.count > 0
    <3>1. r = [s EXCEPT !.bad = TRUE]
      BY <2>1, <2>2
    <3> QED  BY <1>0, <1>4, <3>1 DEF Readings, Types
  <2>3. CASE ~(s.count > 0)
    <3>1. r = [s EXCEPT !.void = TRUE]
      BY <2>1, <2>3
    <3> QED  BY <1>0, <1>4, <3>1 DEF Readings, Types
  <2> QED  BY <2>2, <2>3
<1>5. CASE ~s.end /\ ~s.bad /\ t \in Types /\ ~s.params
  <2>1. r = IF s.result THEN [s EXCEPT !.bad = TRUE] ELSE [s EXCEPT !.ret = t, !.result = TRUE]
    BY <1>5 DEF ReadToken, Types
  <2> QED  BY <1>0, <1>5, <2>1 DEF Readings, Types
<1>6. CASE ~s.end /\ ~s.bad /\ t = ")"
  <2>1. r = IF (s.params /\ s.count > 0) \/ (~s.params /\ ~s.result)
            THEN [s EXCEPT !.bad = TRUE, !.end = TRUE] ELSE [s EXCEPT !.end = TRUE]
    BY <1>6 DEF ReadToken, Types
  <2> QED  BY <1>0, <1>6, <2>1 DEF Readings, Types
<1> QED  BY <1>0, <1>1, <1>2, <1>3, <1>4, <1>5, <1>6 DEF Tokens, Types

\* The equation by which Reading is defined has a solution.
LEMMA ReadingDefined ==
  ASSUME sig \in Signatures, NEW effect \in Seq(Tokens)
  PROVE  /\ Start \in Readings /\ Reading(effect)[0] = Start
         /\ \A n \in 0 .. Len(effect) : Reading(effect)[n] \in Readings
         /\ \A n \in 1 .. Len(effect) :
              Reading(effect)[n] = ReadToken(Reading(effect)[n - 1], effect[n])
<1> DEFINE N == Len(effect)
           G == [p \in (1 .. N) \X Readings |-> ReadToken(p[2], effect[p[1]])]
           Solves(f) == f = [n \in 0 .. N |-> IF n = 0 THEN Start
                                              ELSE ReadToken(f[n - 1], effect[n])]
<1>1. N \in Nat /\ Start \in Readings
  BY DEF Start, Readings, Signatures, Types
<1>2. \A n \in 1 .. N, s \in Readings :
        G[<<n, s>>] = ReadToken(s, effect[n]) /\ G[<<n, s>>] \in Readings
  <2> SUFFICES ASSUME NEW n \in 1 .. N, NEW s \in Readings
               PROVE  ReadToken(s, effect[n]) \in Readings
    OBVIOUS
  <2>1. effect[n] \in Tokens
    OBVIOUS
  <2> QED  BY <2>1, TokenRead
<1> HIDE DEF G, N
<1>3. PICK f \in [0 .. N -> Readings] : f[0] = Start /\ \A n \in 1 .. N : f[n] = G[<<n, f[n - 1]>>]
  <2>1. Steps(G, N, Readings)
    BY <1>2 DEF Steps
  <2>2. \E f \in [0 .. N -> Readings] : Follows(f, Start, G, N)
    BY <1>1, <2>1, Defined
  <2> QED  BY <2>2 DEF Follows
<1>4. \A n \in 1 .. N : f[n] = ReadToken(f[n - 1], effect[n])
  <2>1. \A n \in 1 .. N : n - 1 \in 0 .. N
    BY <1>1
  <2> QED  BY <1>2, <1>3, <2>1
<1>5. Solves(f)
  <2>1. \A n \in 0 .. N : f[n] = IF n = 0 THEN Start ELSE ReadToken(f[n - 1], effect[n])
    BY <1>1, <1>3, <1>4
  <2> QED  BY <2>1
<1> DEFINE R == Reading(effect)
<1>6. R = CHOOSE g : Solves(g)
  BY DEF Reading, N
<1>7. Solves(R)
  BY <1>5, <1>6
<1> HIDE DEF R, Solves
<1>8. R = [n \in 0 .. N |-> IF n = 0 THEN Start ELSE ReadToken(R[n - 1], effect[n])]
  BY <1>7 DEF Solves
<1>9. R[0] = Start /\ \A n \in 1 .. N : R[n] = ReadToken(R[n - 1], effect[n])
  BY <1>1, <1>8
<1>10. \A n \in 0 .. N : R[n] \in Readings
  <2> DEFINE K == {n \in 0 .. N : R[n] \in Readings}
  <2>1. 0 \in K
    BY <1>1, <1>9
  <2>2. \A n \in 0 .. N - 1 : n \in K => n + 1 \in K
    <3> SUFFICES ASSUME NEW n \in 0 .. N - 1, n \in K PROVE n + 1 \in K
      OBVIOUS
    <3>1. n + 1 \in 1 .. N /\ (n + 1) - 1 = n /\ effect[n + 1] \in Tokens
      BY <1>1 DEF N
    <3>2. R[n + 1] = ReadToken(R[n], effect[n + 1])
      BY <1>9, <3>1
    <3> QED  BY <3>1, <3>2, TokenRead
  <2> HIDE DEF K
  <2>3. 0 .. N \subseteq K
    BY <1>1, <2>1, <2>2, Induct
  <2> QED  BY <2>3 DEF K
<1> QED  BY <1>1, <1>9, <1>10 DEF R, N

\* The first arrow of a declaration.
LEMMA Arrow ==
  ASSUME NEW effect \in Seq(Tokens), Complete(effect)
  PROVE  IsArrow(effect, CHOOSE i \in DOMAIN effect : IsArrow(effect, i))
<1> DEFINE T == {k \in Nat : k \notin DOMAIN effect \/ effect[k] # "--"}
<1>1. DOMAIN effect = 1 .. Len(effect) /\ Len(effect) \in Nat
  BY LenProperties
<1>2. PICK n \in DOMAIN effect : effect[n] = "--"
  BY DEF Complete
<1>3. n \in Nat /\ n \notin T
  BY <1>1, <1>2
<1> HIDE DEF T
<1>4. PICK m \in Nat : m \notin T /\ \A k \in Nat : k < m => k \in T
  BY <1>3, Smallest
<1>5. m \in DOMAIN effect /\ effect[m] = "--"
  BY <1>4 DEF T
<1>6. ASSUME NEW j \in 1 .. m - 1 PROVE effect[j] # "--"
  BY <1>1, <1>4, <1>5 DEF T
<1>7. IsArrow(effect, m)
  BY <1>5, <1>6 DEF IsArrow
<1> QED  BY <1>5, <1>7

\* The places up to n that are not void.
Given(effect, n) == {i \in 1 .. n : effect[i] # "void"}

LEMMA NoneGiven ==
  ASSUME NEW effect
  PROVE  Cardinality(Given(effect, 0)) = 0
<1>1. Given(effect, 0) = {}
  BY DEF Given
<1> QED  BY <1>1, FS_EmptySet

LEMMA OneMoreGiven ==
  ASSUME NEW effect, NEW n \in Nat
  PROVE  /\ Cardinality(Given(effect, n)) \in Nat
         /\ Cardinality(Given(effect, n + 1)) =
              IF effect[n + 1] # "void" THEN Cardinality(Given(effect, n)) + 1
              ELSE Cardinality(Given(effect, n))
<1>1. IsFiniteSet(Given(effect, n)) /\ Cardinality(Given(effect, n)) \in Nat
  <2>1. IsFiniteSet(1 .. n) /\ Given(effect, n) \in SUBSET (1 .. n)
    BY FS_Interval DEF Given
  <2>2. IsFiniteSet(Given(effect, n))
    BY <2>1, FS_Subset
  <2> QED  BY <2>2, FS_CardinalityType
<1>2. CASE effect[n + 1] # "void"
  <2>1. Given(effect, n + 1) = Given(effect, n) \cup {n + 1} /\ n + 1 \notin Given(effect, n)
    BY <1>2 DEF Given
  <2>2. Cardinality(Given(effect, n) \cup {n + 1}) = Cardinality(Given(effect, n)) + 1
    BY <1>1, <2>1, FS_AddElement
  <2> QED  BY <1>1, <1>2, <2>1, <2>2
<1>3. CASE effect[n + 1] = "void"
  <2>1. Given(effect, n + 1) = Given(effect, n)
    BY <1>3 DEF Given
  <2> QED  BY <1>1, <1>3, <2>1
<1> QED  BY <1>2, <1>3

\* What a declaration that is accepted says is what its word gets.
LEMMA MeaningRead ==
  ASSUME sig \in Signatures, NEW effect \in Effects, Complete(effect),
         NEW r, r = Read(effect), ~r.bad, r.end
  PROVE  /\ r \in Readings
         /\ Meant(effect) \in [params: Nat, result: BOOLEAN]
         /\ r.count = Meant(effect).params /\ (r.ret # "void") = Meant(effect).result
<1> DEFINE L == Len(effect)
           R == Reading(effect)
           at == CHOOSE i \in DOMAIN effect : IsArrow(effect, i)
           P == Cardinality(Given(effect, at - 1))
           U(n) == \E i \in at + 1 .. n : effect[i] = "u64"
           Said(n) == \E i \in at + 1 .. n : effect[i] \in Types
<1>1. /\ effect \in Seq(Tokens) /\ L \in Nat
      /\ \A i \in 1 .. L : effect[i] \in Tokens /\ (effect[i] = ")" => i = L)
  <2>1. effect \in Seq(Tokens) /\ \A i \in DOMAIN effect : effect[i] = ")" => i = Len(effect)
    BY ForeignAssumption
  <2>2. DOMAIN effect = 1 .. Len(effect) /\ Len(effect) \in Nat
    BY <2>1, LenProperties
  <2>3. \A i \in 1 .. Len(effect) : effect[i] \in Tokens
    BY <2>1, <2>2, ElementOfSeq
  <2> QED  BY <2>1, <2>2, <2>3
<1>2. /\ R[0] = Start /\ \A n \in 0 .. L : R[n] \in Readings
      /\ \A n \in 1 .. L : R[n] = ReadToken(R[n - 1], effect[n])
  BY <1>1, ReadingDefined
<1>3. /\ at \in 1 .. L /\ effect[at] = "--" /\ \A j \in 1 .. at - 1 : effect[j] # "--"
  BY <1>1, Arrow DEF IsArrow
<1>4. r = R[L]
  BY DEF Read
<1>5. Meant(effect) =
        [params |-> P, result |-> \E i \in DOMAIN effect : i > at /\ effect[i] = "u64"]
  BY DEF Meant, Given
<1>6. (\E i \in DOMAIN effect : i > at /\ effect[i] = "u64") <=> U(L)
  <2>1. DOMAIN effect = 1 .. L
    BY <1>1, LenProperties
  <2>2. \A i : (i \in 1 .. L /\ i > at) <=> i \in at + 1 .. L
    BY <1>1, <1>3
  <2> QED  BY <2>1, <2>2
<1> HIDE DEF R, at
<1> DEFINE In(n) == /\ R[n].params /\ ~R[n].end /\ ~R[n].result
                    /\ R[n].count = Cardinality(Given(effect, n))
           Out(n) == /\ ~R[n].params /\ R[n].count = P
                     /\ R[n].end => R[n].result /\ n = L
                     /\ R[n].result => ((R[n].ret # "void") <=> U(n))
                     /\ ~R[n].result => ~Said(n)
           K == {n \in 0 .. L : R[n].bad \/ (IF n < at THEN In(n) ELSE Out(n))}
<1>7. 0 \in K
  <2>1. Start.params /\ ~Start.end /\ ~Start.result /\ Start.count = 0
    BY DEF Start
  <2>2. Cardinality(Given(effect, 0)) = 0
    BY NoneGiven
  <2>3. 0 \in 0 .. L /\ 0 < at
    BY <1>1, <1>3
  <2> QED  BY <1>2, <2>1, <2>2, <2>3
<1>8. ASSUME NEW n \in 0 .. L - 1, n \in K PROVE n + 1 \in K
  <2> DEFINE s == R[n]
             t == effect[n + 1]
             q == R[n + 1]
  <2>1. n + 1 \in 1 .. L /\ (n + 1) - 1 = n /\ n + 1 \in 0 .. L /\ n \in 0 .. L
    BY <1>1
  <2>2. s \in Readings /\ q \in Readings /\ t \in Tokens /\ q = ReadToken(s, t)
    BY <1>1, <1>2, <2>1
  <2> HIDE DEF s, t, q
  <2>3. CASE s.bad
    <3>1. q.bad
      BY <2>2, <2>3, TokenRead
    <3> QED  BY <2>1, <3>1 DEF q
  <2>4. CASE ~s.bad /\ n + 1 < at
    <3>1. In(n)
      BY <1>3, <1>8, <2>1, <2>4 DEF s
    <3>2. t # "--" /\ t # ")"
      BY <1>1, <1>3, <2>1, <2>4 DEF t
    <3>3. s.params /\ ~s.end /\ ~s.result /\ s.count = Cardinality(Given(effect, n))
      BY <3>1 DEF s
    <3>4. q.bad \/ /\ q.params /\ ~q.end /\ ~q.result
                   /\ q.count = IF t # "void" THEN s.count + 1 ELSE s.count
      BY <2>2, <2>4, <3>2, <3>3, TokenRead DEF Tokens, Types
    <3>5. q.bad \/ In(n + 1)
      <4>1. t = effect[n + 1] /\ q = R[n + 1]
        BY DEF t, q
      <4>2. n \in Nat /\ s.count = Cardinality(Given(effect, n))
        BY <3>3
      <4>3. Cardinality(Given(effect, n + 1)) =
              IF effect[n + 1] # "void" THEN Cardinality(Given(effect, n)) + 1
              ELSE Cardinality(Given(effect, n))
        BY <4>2, OneMoreGiven
      <4> QED  BY <3>4, <4>1, <4>2, <4>3
    <3> QED  BY <2>1, <2>4, <3>5 DEF q
  <2>5. CASE ~s.bad /\ n + 1 = at
    <3>1. In(n) /\ n = at - 1
      BY <1>3, <1>8, <2>5 DEF s
    <3>2. t = "--"
      BY <1>3, <2>5 DEF t
    <3>3. ~s.end /\ ~s.result /\ s.count = P
      BY <3>1 DEF s
    <3>4. ~q.params /\ ~q.end /\ ~q.bad /\ q.count = P /\ ~q.result
      BY <2>2, <2>5, <3>2, <3>3, TokenRead
    <3>5. ~Said(n + 1)
      BY <1>3, <2>5
    <3>6. Out(n + 1)
      BY <3>4, <3>5 DEF q
    <3> QED  BY <2>1, <2>5, <3>6
  <2>6. CASE ~s.bad /\ n + 1 > at
    <3>1. Out(n) /\ n >= at /\ n + 1 \in at + 1 .. n + 1
      BY <1>3, <1>8, <2>6 DEF s
    <3>2. ~s.end /\ ~s.params /\ s.count = P
      BY <1>1, <3>1 DEF s
    <3>3. /\ U(n + 1) <=> U(n) \/ t = "u64"
          /\ Said(n + 1) <=> Said(n) \/ t \in Types
          /\ U(n) => Said(n)
      <4>1. \A i : i \in at + 1 .. n + 1 <=> i \in at + 1 .. n \/ i = n + 1
        BY <1>3, <3>1
      <4> QED  BY <4>1 DEF t, Types
    <3>4. s.result => ((s.ret # "void") <=> U(n))
      BY <3>1 DEF s
    <3>5. ~s.result => ~Said(n)
      BY <3>1 DEF s
    <3> HIDE DEF U, Said
    <3>6. CASE t = "--"
      <4>1. ~q.params /\ ~q.end /\ q.count = P /\ q.ret = s.ret /\ (q.result <=> s.result)
        BY <2>2, <2>6, <3>2, <3>6, TokenRead
      <4>2. (U(n + 1) <=> U(n)) /\ (Said(n + 1) <=> Said(n))
        BY <3>3, <3>6 DEF Types
      <4>3. /\ q.result => ((q.ret # "void") <=> U(n + 1))
            /\ ~q.result => ~Said(n + 1)
        BY <3>4, <3>5, <4>1, <4>2
      <4>4. Out(n + 1)
        BY <4>1, <4>3 DEF q
      <4> QED  BY <1>3, <2>1, <2>6, <4>4
    <3>7. CASE t \in Types
      <4>1. q.bad \/ /\ ~q.params /\ ~q.end /\ q.count = P /\ ~s.result /\ q.result /\ q.ret = t
        BY <2>2, <2>6, <3>2, <3>7, TokenRead
      <4>2. ~s.result => ~U(n)
        BY <3>3, <3>5
      <4>3. q.bad \/ ((q.ret # "void") <=> U(n + 1))
        BY <3>3, <3>7, <4>1, <4>2 DEF Types
      <4>4. q.bad \/ Out(n + 1)
        BY <4>1, <4>3 DEF q
      <4> QED  BY <1>3, <2>1, <2>6, <4>4 DEF q
    <3>8. CASE t = ")"
      <4>1. n + 1 = L
        BY <1>1, <2>1, <3>8 DEF t
      <4>2. q.bad \/ /\ ~q.params /\ q.end /\ q.count = P /\ q.ret = s.ret
                     /\ (q.result <=> s.result) /\ s.result
        BY <2>2, <2>6, <3>2, <3>8, TokenRead
      <4>3. U(n + 1) <=> U(n)
        BY <3>3, <3>8
      <4>4. q.bad \/ ((q.ret # "void") <=> U(n + 1))
        BY <3>4, <4>2, <4>3
      <4>5. q.bad \/ Out(n + 1)
        BY <4>1, <4>2, <4>4 DEF q
      <4> QED  BY <1>3, <2>1, <2>6, <4>5 DEF q
    <3> QED  BY <2>2, <3>6, <3>7, <3>8 DEF Tokens
  <2>7. n + 1 < at \/ n + 1 = at \/ n + 1 > at
    BY <1>3
  <2> QED  BY <2>3, <2>4, <2>5, <2>6, <2>7
<1> HIDE DEF K
<1>9. 0 .. L \subseteq K
  BY <1>1, <1>7, <1>8, Induct
<1>10. Out(L)
  <2>1. L \in 0 .. L /\ ~(L < at)
    BY <1>1, <1>3
  <2> QED  BY <1>4, <1>9, <2>1 DEF K
<1>11. r \in Readings
  BY <1>1, <1>2, <1>4
<1>12. r.count = P /\ ((r.ret # "void") <=> U(L))
  BY <1>4, <1>10
<1>13. P \in Nat
  BY <1>3, OneMoreGiven
<1> HIDE DEF U, P
<1>14. /\ Meant(effect).params = P /\ Meant(effect).result \in BOOLEAN
       /\ Meant(effect).result <=> U(L)
       /\ Meant(effect) \in [params: Nat, result: BOOLEAN]
  <2> DEFINE b == \E i \in DOMAIN effect : i > at /\ effect[i] = "u64"
  <2>1. b \in BOOLEAN /\ (b <=> U(L)) /\ Meant(effect) = [params |-> P, result |-> b]
    BY <1>5, <1>6
  <2> HIDE DEF b
  <2> QED  BY <1>13, <2>1
<1> QED  BY <1>11, <1>12, <1>14

-----------------------------------------------------------------------------
(* Every step keeps the invariant.                                         *)

LEMMA ListKept ==
  ASSUME IInv, UNCHANGED <<list, effort>>
  PROVE  /\ Ends' /\ Aged' /\ Linked' /\ Loaded' = Loaded
         /\ node' \in [Addrs -> Nodes] /\ effort' \in Nat
         /\ objects' \in Addrs \cup {None} /\ recent' \in Addrs \cup {None}
<1>1. UNCHANGED <<node, objects, recent, effort>>
  BY DEF list
<1>2. Live' = Live
  BY <1>1 DEF Live
<1>3. Ends' /\ Aged' /\ Loaded' = Loaded
  BY <1>1, <1>2 DEF IInv, Ends, Aged, Loaded
<1>4. \A a, p \in Pointers : Before(a, p)' <=> Before(a, p)
  BY <1>1, <1>2 DEF Before
<1>5. \A a \in Live : a \in Pointers /\ node[a].prev \in Pointers
  BY DEF IInv, Typed, Live, Nodes, Pointers
<1>6. Linked'
  BY <1>1, <1>2, <1>4, <1>5 DEF IInv, Linked
<1> QED  BY <1>1, <1>3, <1>6 DEF IInv, Typed

\* The words stay as long as their libraries do.
LEMMA WordsKept ==
  ASSUME IInv, words' = words,
         \A i \in DOMAIN words : words[i].sig.handle.object \in Loaded'
  PROVE  WordsAsDeclared'
BY DEF IInv, WordsAsDeclared

\* The lowest k cells.
LEMMA CutShort ==
  ASSUME NEW s \in Seq(Values), NEW k \in 0 .. Len(s)
  PROVE  SubSeq(s, 1, k) \in Seq(Values) /\ Len(SubSeq(s, 1, k)) = k
<1>1. Len(s) \in Nat /\ k \in Int /\ k >= 0 /\ k <= Len(s) /\ k - 1 + 1 = k
  BY LenProperties
<1>2. \A i \in 1 .. k : s[i] \in Values
  BY <1>1, ElementOfSeq
<1>3. /\ SubSeq(s, 1, k) \in Seq(Values)
      /\ Len(SubSeq(s, 1, k)) = IF 1 <= k THEN k - 1 + 1 ELSE 0
  BY <1>1, <1>2, SubSeqProperties
<1> QED  BY <1>1, <1>3

\* What reading a name leaves on the stack.
LEMMA NameRead ==
  ASSUME IInv, NamePopped
  PROVE  stack' \in Seq(Values) /\ Len(stack') <= Limit
<1>1. stack \in Seq(Values) /\ Len(stack) \in Nat /\ Len(stack) <= Limit
  BY LenProperties DEF IInv, Typed
<1>2. CASE NameFits
  BY <1>1, <1>2 DEF NamePopped
<1>3. CASE ~NameFits
  <2>0. Limit \in Nat /\ Limit >= 2
    BY ForeignAssumption
  <2>1. Limit - 2 \in 0 .. Len(stack)
    BY <1>1, <1>3, <2>0 DEF NameFits
  <2>2. stack' = SubSeq(stack, 1, Limit - 2)
    BY <1>3 DEF NamePopped
  <2> DEFINE k == Limit - 2
  <2>3. k \in 0 .. Len(stack) /\ k <= Limit /\ stack' = SubSeq(stack, 1, k)
    BY <2>0, <2>1, <2>2
  <2> HIDE DEF k
  <2> QED  BY <1>1, <2>3, CutShort
<1> QED  BY <1>2, <1>3

LEMMA LoadStep ==
  ASSUME IInv, NEW o \in Objects \cup {Missing}, Load(o)
  PROVE  IInv'
<1>0. stack' \in Seq(Values) /\ Len(stack') <= Limit
  BY NameRead DEF Load
<1>1. /\ UNCHANGED <<sig, words>> /\ failed \in BOOLEAN /\ alive \in BOOLEAN
      /\ \A i \in DOMAIN words : words[i].sig.handle.object \in Loaded
  BY DEF Load, IInv, Typed, WordsAsDeclared
<1>2. CASE failed' \in BOOLEAN /\ alive' \in BOOLEAN /\ UNCHANGED <<list, effort>>
  <2>1. WordsAsDeclared'
    BY <1>1, <1>2, ListKept, WordsKept
  <2> QED  BY <1>0, <1>1, <1>2, <2>1, ListKept DEF IInv, Typed
<1>3. ASSUME o \in Objects, NEW a \in Addrs \ Live, Link(a, o), effort' = effort + 1,
             failed' = failed, alive' = alive
      PROVE  IInv'
  <2>1. node' \in [Addrs -> Nodes] /\ recent' \in Addrs /\ objects' \in Addrs
        /\ Ends' /\ Aged' /\ Linked'
        /\ \A b \in Live : b \in Live' /\ node'[b].object = node[b].object
    BY <1>3, LoadList DEF IInv
  <2>2. Loaded \subseteq Loaded'
    BY <2>1 DEF Loaded
  <2>3. WordsAsDeclared'
    BY <1>1, <2>2, WordsKept
  <2> QED  BY <1>0, <1>1, <1>3, <2>1, <2>3 DEF IInv, Typed
<1> QED  BY <1>1, <1>2, <1>3 DEF Load, Fails, Succeeds, Survives, NameDies, Dies

LEMMA FreeStep ==
  ASSUME IInv, Liberties = {}, NEW o \in Objects \cup {Missing}, Free(o)
  PROVE  IInv'
<1> DEFINE named == {a \in Live : node[a].object = o}
           a == Result(named)
<1>0. stack' \in Seq(Values) /\ Len(stack') <= Limit
  BY NameRead DEF Free
<1>1. /\ UNCHANGED <<sig, words>> /\ failed \in BOOLEAN
      /\ \A i \in DOMAIN words : words[i].sig.handle.object \in Loaded
  BY DEF Free, IInv, Typed, WordsAsDeclared
<1>2. CASE failed' \in BOOLEAN /\ alive' \in BOOLEAN /\ UNCHANGED <<list, effort>>
  <2>1. WordsAsDeclared'
    BY <1>1, <1>2, ListKept, WordsKept
  <2> QED  BY <1>0, <1>1, <1>2, <2>1, ListKept DEF IInv, Typed
<1>3. \/ failed' \in BOOLEAN /\ alive' \in BOOLEAN /\ UNCHANGED <<list, effort>>
      \/ /\ a \in Addrs /\ Careful(a) /\ effort' = effort + 1 /\ failed' = failed
         /\ \/ /\ Wild \in {node[a].prev, node[a].next} /\ node[a].prev # None
               /\ alive' = FALSE /\ UNCHANGED list
            \/ /\ Freeing(a) /\ alive' = alive
               /\ recent' = IF node[a].prev = None /\ node[a].next = None THEN None ELSE recent
               /\ objects' = IF node[a].prev = None /\ node[a].next = None THEN None ELSE objects
  BY DEF Free, Fails, Succeeds, Dies, Survives, NameDies, IInv, Typed, Freeing
<1> HIDE DEF named
<1>4. a \in Addrs => a \in named
  BY FoundOnly
<1> HIDE DEF a
<1>5. ASSUME a \in Addrs, Careful(a)
      PROVE  /\ a \in Live
             /\ \A i \in DOMAIN words : words[i].sig.handle.object # node[a].object
             /\ \/ /\ node[a].prev = None /\ node[a].next = None /\ Live = {a}
                \/ /\ a # recent /\ a # objects /\ node[a].prev \in Live /\ node[a].next \in Live
                   /\ node[a].prev # a /\ node[a].next # a /\ node[a].prev # node[a].next
  <2>1. a \in Live
    BY <1>4, <1>5 DEF named
  <2>2. \A i \in DOMAIN words : words[i].sig.handle.object # node[a].object
    BY <1>5 DEF Careful
  <2> QED  BY <1>5, <2>1, <2>2, Removable DEF IInv
<1>6. ASSUME a \in Addrs, Careful(a), effort' = effort + 1, failed' = failed,
             Freeing(a), alive' = alive,
             recent' = IF node[a].prev = None /\ node[a].next = None THEN None ELSE recent,
             objects' = IF node[a].prev = None /\ node[a].next = None THEN None ELSE objects
      PROVE  IInv'
  <2>0. a \in Live /\ \A i \in DOMAIN words : words[i].sig.handle.object # node[a].object
    BY <1>5, <1>6
  <2>1. CASE node[a].prev = None /\ node[a].next = None /\ Live = {a}
    <3>1. recent' = None /\ objects' = None
      BY <1>6, <2>1
    <3>2. node' \in [Addrs -> Nodes] /\ Ends' /\ Aged' /\ Linked'
      BY <1>6, <2>0, <2>1, <3>1, FreeOnly DEF IInv
    <3>3. DOMAIN words = {}
      BY <1>1, <2>0, <2>1 DEF Loaded
    <3>4. WordsAsDeclared'
      BY <1>1, <3>3, WordsKept
    <3> QED  BY <1>0, <1>1, <1>6, <3>1, <3>2, <3>4 DEF IInv, Typed
  <2>2. CASE /\ a # recent /\ a # objects /\ node[a].prev \in Live /\ node[a].next \in Live
             /\ node[a].prev # a /\ node[a].next # a /\ node[a].prev # node[a].next
    <3> DEFINE p == node[a].prev
               n == node[a].next
    <3>1. None \notin Live
      BY ForeignAssumption DEF Live
    <3>2. UNCHANGED <<recent, objects>>
      BY <1>6, <2>2, <3>1
    <3>3. /\ a \in Live /\ a # recent /\ a # objects /\ p \in Live /\ n \in Live
          /\ p # a /\ n # a /\ p # n
      BY <2>0, <2>2
    <3>4. p = node[a].prev /\ n = node[a].next
      OBVIOUS
    <3> HIDE DEF p, n
    <3>5. node' \in [Addrs -> Nodes] /\ Ends' /\ Aged' /\ Linked'
          /\ \A b \in Live \ {a} : b \in Live' /\ node'[b].object = node[b].object
      BY <1>6, <3>2, <3>3, <3>4, FreeInside DEF IInv
    <3>6. \A i \in DOMAIN words : words[i].sig.handle.object \in Loaded'
      BY <1>1, <2>0, <3>5 DEF Loaded
    <3>7. WordsAsDeclared'
      BY <1>1, <3>6, WordsKept
    <3> QED  BY <1>0, <1>1, <1>6, <3>2, <3>5, <3>7 DEF IInv, Typed
  <2> QED  BY <1>5, <1>6, <2>1, <2>2
<1>7. ASSUME a \in Addrs, Careful(a) 
      PROVE  ~(Wild \in {node[a].prev, node[a].next} /\ node[a].prev # None)
  <2>1. Wild \notin Live /\ Wild # None
    BY ForeignAssumption DEF Live
  <2> QED  BY <1>5, <1>7, <2>1
<1> QED  BY <1>2, <1>3, <1>6, <1>7

\* A word w of name f is added that is bound in the object at a, which has f and
\* was loaded last of those that have it.
DeclaredIn(f, having, a, w) ==
  /\ a \in having /\ w \in ForeignWords
  /\ words' = Append(words, w) /\ w.name = f
  /\ w.sig.handle = [object |-> node[a].object, function |-> f]
  /\ w.sig.count = w.meant.params /\ ((w.sig.ret # "void") <=> w.meant.result)
  /\ \A b \in having : node[b].born <= node[a].born
Declared(f, having) == \E a, w : DeclaredIn(f, having, a, w)

\* A declaration of f: it fails, or binds f in the object loaded last of those
\* that have it.
LEMMA Declares ==
  ASSUME IInv, Liberties = {}, NEW f \in Functions, NEW effect \in Effects, Declare(f, effect),
         NEW having, having = {a \in Live : f \in Exports[node[a].object]}
  PROVE  /\ UNCHANGED <<list, effort>> /\ failed' \in BOOLEAN /\ alive' \in BOOLEAN
         /\ sig' \in Signatures
         /\ words' = words \/ Declared(f, having)
<1> DEFINE r == Read(effect)
           read == [sig EXCEPT !.count = r.count, !.void = r.void, !.ret = r.ret]
           a == Result(having)
           to == [read EXCEPT !.handle = [object |-> node[a].object, function |-> f]]
           w == [name |-> f, sig |-> to, meant |-> Meant(effect)]
<1>1. /\ Complete(effect) /\ UNCHANGED <<list, effort>>
      /\ failed \in BOOLEAN /\ alive \in BOOLEAN /\ sig \in Signatures
  BY DEF Declare, IInv, Typed
<1>2. \/ /\ failed' \in BOOLEAN /\ alive' \in BOOLEAN /\ sig' \in {sig, read}
         /\ words' = words
      \/ /\ ~r.bad /\ r.end /\ a \in Addrs /\ alive' = alive /\ failed' = failed
         /\ sig' = to /\ (words' = words \/ words' = Added(f, effect, sig'))
  BY <1>1 DEF Declare, Fails, Succeeds, Dies, Survives, NameDies
<1>3. r \in Readings
  <2>1. effect \in Seq(Tokens) /\ Len(effect) \in 0 .. Len(effect)
    BY ForeignAssumption, LenProperties
  <2> QED  BY <1>1, <2>1, ReadingDefined DEF Read
<1>4. ~r.bad /\ r.end => /\ Meant(effect) \in [params: Nat, result: BOOLEAN]
                         /\ r.count = Meant(effect).params
                         /\ (r.ret # "void") = Meant(effect).result
  <2>1. r = Read(effect)
    OBVIOUS
  <2> HIDE DEF r
  <2> QED  BY <1>1, <2>1, MeaningRead
<1> HIDE DEF r
<1>5. r.count \in Nat /\ r.void \in BOOLEAN /\ r.ret \in Types
  BY <1>3 DEF Readings
<1>6. read \in Signatures /\ read.count = r.count /\ read.ret = r.ret
  BY <1>1, <1>5 DEF Signatures
<1>7. a \in Addrs => a \in having
  BY FoundOnly
<1> HIDE DEF a
<1>8. ASSUME a \in Addrs
      PROVE  /\ a \in having /\ node[a].object \in Objects
             /\ \A b \in having : node[b].born <= node[a].born
  <2>1. having \subseteq Live /\ having # {} /\ a \in having
    BY <1>7, <1>8
  <2>2. \A b \in having : node[b].born <= node[a].born
    BY <2>1, Found DEF IInv, a
  <2> QED  BY <2>1, <2>2 DEF IInv, Aged
<1>9. ASSUME a \in Addrs
      PROVE  /\ to \in Signatures /\ to.count = r.count /\ to.ret = r.ret
             /\ to.handle = [object |-> node[a].object, function |-> f]
  <2> DEFINE h == [object |-> node[a].object, function |-> f]
  <2>1. h \in [object: Objects \cup {None}, function: Functions \cup {None}]
    BY <1>8, <1>9
  <2>2. to = [read EXCEPT !.handle = h]
    OBVIOUS
  <2> HIDE DEF h, read, to
  <2>3. to \in Signatures /\ to.count = r.count /\ to.ret = r.ret /\ to.handle = h
    BY <1>6, <2>1, <2>2 DEF Signatures
  <2> QED  BY <2>3 DEF h
<1> HIDE DEF read, to
<1>10. ASSUME ~r.bad, r.end, a \in Addrs, failed' = failed, sig' = to,
              words' = Added(f, effect, sig'), alive' = alive
       PROVE  Declared(f, having)
  <2>1. words' = Append(words, w)
    BY <1>1, <1>10 DEF Added
  <2>2. w \in ForeignWords
    BY <1>4, <1>9, <1>10 DEF ForeignWords
  <2>3. w.name = f /\ w.sig = to /\ w.meant = Meant(effect)
    OBVIOUS
  <2> HIDE DEF w
  <2>4. /\ w.sig.handle = [object |-> node[a].object, function |-> f]
        /\ w.sig.count = w.meant.params /\ ((w.sig.ret # "void") <=> w.meant.result)
    BY <1>4, <1>9, <1>10, <2>3
  <2>5. a \in having /\ \A c \in having : node[c].born <= node[a].born
    BY <1>8, <1>10
  <2>6. DeclaredIn(f, having, a, w)
    BY <2>1, <2>2, <2>3, <2>4, <2>5 DEF DeclaredIn
  <2> QED  BY <2>6 DEF Declared
<1>11. failed' \in BOOLEAN /\ alive' \in BOOLEAN /\ sig' \in Signatures
  BY <1>1, <1>2, <1>6, <1>9
<1> QED  BY <1>1, <1>2, <1>10, <1>11

LEMMA DeclareStep ==
  ASSUME IInv, Liberties = {}, NEW f \in Functions, NEW effect \in Effects, Declare(f, effect)
  PROVE  IInv'
<1> DEFINE having == {a \in Live : f \in Exports[node[a].object]}
<1>0. having \subseteq Live /\ having = {a \in Live : f \in Exports[node[a].object]}
  OBVIOUS
<1> HIDE DEF having
<1>1. /\ UNCHANGED <<list, effort>> /\ failed' \in BOOLEAN /\ alive' \in BOOLEAN
      /\ sig' \in Signatures /\ stack' \in Seq(Values) /\ Len(stack') <= Limit
      /\ words' = words \/ Declared(f, having)
  BY <1>0, Declares, NameRead DEF Declare
<1>2. Loaded' = Loaded /\ words \in Seq(ForeignWords) /\ WordsAsDeclared
  BY <1>1, ListKept DEF IInv, Typed
<1>3. words' \in Seq(ForeignWords) /\ WordsAsDeclared'
  <2>1. CASE words' = words
    BY <1>2, <2>1 DEF WordsAsDeclared
  <2>2. ASSUME NEW a, NEW w, DeclaredIn(f, having, a, w)
        PROVE  words' \in Seq(ForeignWords) /\ WordsAsDeclared'
    <3>0. /\ a \in having /\ w \in ForeignWords /\ words' = Append(words, w) /\ w.name = f
          /\ w.sig.handle = [object |-> node[a].object, function |-> f]
          /\ w.sig.count = w.meant.params /\ ((w.sig.ret # "void") <=> w.meant.result)
          /\ w.meant.result \in BOOLEAN
      BY <2>2 DEF DeclaredIn, ForeignWords
    <3>1. w.sig.handle.function = w.name /\ w.sig.handle.object \in Loaded
      BY <1>0, <3>0 DEF Loaded
    <3>2. /\ words' \in Seq(ForeignWords) /\ Len(words') = Len(words) + 1
          /\ \A i \in 1 .. Len(words) : words'[i] = words[i]
          /\ words'[Len(words) + 1] = w
      BY <1>2, <3>0, AppendProperties
    <3>3. /\ DOMAIN words = 1 .. Len(words) /\ DOMAIN words' = 1 .. Len(words) + 1
          /\ Len(words) \in Nat
      BY <1>2, <3>2, LenProperties
    <3>4. ASSUME NEW i \in DOMAIN words'
          PROVE  LET v == words'[i]
                 IN  /\ v.sig.handle.function = v.name /\ v.sig.handle.object \in Loaded'
                     /\ v.sig.count = v.meant.params /\ (v.sig.ret # "void") = v.meant.result
      <4>1. CASE i \in 1 .. Len(words)
        <5>1. words'[i] = words[i] /\ i \in DOMAIN words
          BY <3>2, <3>3, <4>1
        <5> QED  BY <1>2, <5>1 DEF WordsAsDeclared
      <4>2. CASE i = Len(words) + 1
        BY <1>2, <3>0, <3>1, <3>2, <4>2
      <4> QED  BY <3>3, <4>1, <4>2
    <3> QED  BY <3>2, <3>4 DEF WordsAsDeclared
  <2> QED  BY <1>1, <2>1, <2>2 DEF Declared
<1> QED  BY <1>1, <1>3, ListKept DEF IInv, Typed

\* The arguments in registers are the cells above the k-th.
LEMMA ArgumentsRead ==
  ASSUME stack \in Seq(Values), NEW n \in Nat, n <= Registers, NEW k \in Nat, k + n = Len(stack)
  PROVE  Arguments(n) = SubSeq(stack, k + 1, Len(stack))
<1> DEFINE c == SubSeq(stack, k + 1, Len(stack))
<1>1. /\ Len(stack) \in Nat /\ DOMAIN stack = 1 .. Len(stack)
      /\ Len(stack) - n = k /\ Registers \in Nat
  <2>1. Len(stack) \in Nat /\ DOMAIN stack = 1 .. Len(stack)
    BY LenProperties
  <2>2. Registers \in Nat
    BY ForeignAssumption
  <2>3. Len(stack) - n = k
    BY <2>1
  <2> QED  BY <2>1, <2>2, <2>3
<1>2. ASSUME NEW j \in 1 .. n
      PROVE  j <= Registers /\ Cell(k + j) = stack[k + j]
  <2>1. k + j \in 1 .. Len(stack) /\ j <= Registers
    BY <1>1
  <2> QED  BY <1>1, <2>1 DEF Cell
<1>3. Arguments(n) = [j \in 1 .. n |-> stack[k + j]]
  BY <1>1, <1>2 DEF Arguments
<1>4. c \in Seq(Values) /\ Len(c) = n /\ \A j \in 1 .. n : c[j] = stack[k + j]
  <2>1. k + 1 \in Int /\ Len(stack) \in Int /\ Len(stack) - (k + 1) + 1 = n
    BY <1>1
  <2>2. \A j \in k + 1 .. Len(stack) : stack[j] \in Values
    BY <1>1, ElementOfSeq
  <2>3. /\ c \in Seq(Values)
        /\ Len(c) = IF k + 1 <= Len(stack) THEN Len(stack) - (k + 1) + 1 ELSE 0
        /\ \A j \in 1 .. Len(stack) - (k + 1) + 1 : c[j] = stack[k + 1 + j - 1]
    BY <2>1, <2>2, SubSeqProperties
  <2> HIDE DEF c
  <2>4. Len(c) = n
    BY <1>1, <2>1, <2>3
  <2>5. ASSUME NEW j \in 1 .. n
        PROVE  c[j] = stack[k + j]
    <3>1. j \in 1 .. Len(stack) - (k + 1) + 1
      BY <2>1
    <3>2. k + 1 + j - 1 = k + j
      OBVIOUS
    <3> QED  BY <2>3, <3>1, <3>2
  <2> QED  BY <2>3, <2>4, <2>5
<1> HIDE DEF c
<1>5. c = [j \in 1 .. Len(c) |-> c[j]]
  BY <1>4
<1>6. c = [j \in 1 .. n |-> stack[k + j]]
  BY <1>4, <1>5
<1> QED  BY <1>3, <1>6 DEF c

\* A call gives the C function the arguments its word was declared with.
LEMMA Calls ==
  ASSUME IInv, Liberties = {}, NEW i \in DOMAIN words, Call(i), NEW w, w = words[i],
         NEW k, k = Len(stack) - w.meant.params
  PROVE  /\ UNCHANGED <<list, sig, words, effort>> /\ failed' \in BOOLEAN /\ alive' \in BOOLEAN
         /\ \/ stack' = stack /\ called' = NoCall
            \/ /\ w.meant.params \in Nat /\ k \in 0 .. Len(stack)
               /\ called'.function = w.name /\ called'.aligned
               /\ called'.args = SubSeq(stack, k + 1, Len(stack))
               /\ called'.result \in Values
               /\ \/ ~w.meant.result /\ stack' = SubSeq(stack, 1, k)
                  \/ w.meant.result /\ stack' = Append(SubSeq(stack, 1, k), called'.result)
               /\ k = Len(stack) => Len(stack) < Limit
<1> DEFINE n == w.sig.count
<1>1. /\ failed \in BOOLEAN /\ alive \in BOOLEAN /\ stack \in Seq(Values) /\ Len(stack) \in Nat
      /\ DOMAIN stack = 1 .. Len(stack) /\ Len(stack) <= Limit
  BY LenProperties DEF IInv, Typed
<1>2. /\ w.sig.handle.function = w.name /\ w.sig.handle.object \in Loaded
      /\ n = w.meant.params /\ (w.sig.ret # "void") = w.meant.result
  BY DEF IInv, WordsAsDeclared
<1>3. w \in ForeignWords
  BY ElementOfSeq, LenProperties DEF IInv, Typed
<1>4. n \in Nat /\ w.sig.ret \in Types /\ w.meant.result \in BOOLEAN
  BY <1>3 DEF ForeignWords, Signatures
<1>5. UNCHANGED <<list, sig, words, effort>>
  BY DEF Call
<1>6. \/ failed' = TRUE /\ alive' = alive /\ stack' = stack /\ called' = NoCall
      \/ /\ Len(stack) >= n /\ failed' = failed /\ alive' = alive
         /\ n <= Registers /\ (n = 0 => Len(stack) # Limit)
         /\ \E v \in Values :
              /\ called' = [function |-> w.sig.handle.function, args |-> Arguments(n),
                            aligned |-> Extra(n) % 2 = 0, result |-> v]
              /\ stack' = IF w.sig.ret = "void" THEN Rest(w) ELSE Append(Rest(w), v)
  BY <1>2, <1>4, ForeignAssumption DEF Call, Fails, Succeeds, Survives
<1>7. ASSUME Len(stack) >= n, n <= Registers, n = 0 => Len(stack) # Limit, NEW v \in Values,
             called' = [function |-> w.sig.handle.function, args |-> Arguments(n),
                        aligned |-> Extra(n) % 2 = 0, result |-> v],
             stack' = IF w.sig.ret = "void" THEN Rest(w) ELSE Append(Rest(w), v)
      PROVE  /\ w.meant.params \in Nat /\ k \in 0 .. Len(stack)
             /\ called'.function = w.name /\ called'.aligned
             /\ called'.args = SubSeq(stack, k + 1, Len(stack))
             /\ called'.result \in Values
             /\ \/ ~w.meant.result /\ stack' = SubSeq(stack, 1, k)
                \/ w.meant.result /\ stack' = Append(SubSeq(stack, 1, k), called'.result)
             /\ k = Len(stack) => Len(stack) < Limit
  <2> HIDE DEF n
  <2>1. k \in 0 .. Len(stack) /\ k = Len(stack) - n /\ k + n = Len(stack)
    BY <1>1, <1>2, <1>4, <1>7
  <2>2. Extra(n) % 2 = 0
    <3>1. Extra(n) = 0
      BY <1>4, <1>7, ForeignAssumption DEF Extra
    <3> QED  BY <3>1
  <2>3. Arguments(n) = SubSeq(stack, k + 1, Len(stack))
    <3>1. k \in Nat
      BY <1>1, <2>1
    <3> QED  BY <1>1, <1>4, <1>7, <2>1, <3>1, ArgumentsRead
  <2>4. Rest(w) = SubSeq(stack, 1, k)
    BY <2>1 DEF Rest, n
  <2>5. /\ called'.function = w.name /\ called'.aligned /\ called'.result = v
        /\ called'.args = SubSeq(stack, k + 1, Len(stack))
    BY <1>2, <1>7, <2>2, <2>3
  <2>6. k = Len(stack) => Len(stack) < Limit
    <3>1. Limit \in Nat
      BY ForeignAssumption
    <3>2. k = Len(stack) => n = 0
      BY <1>1, <1>4, <2>1
    <3>3. n = 0 => Len(stack) # Limit
      BY <1>7
    <3>4. \A p, q \in Nat : p <= q /\ p # q => p < q
      OBVIOUS
    <3>5. Len(stack) \in Nat /\ Len(stack) <= Limit
      BY <1>1
    <3> QED  BY <3>1, <3>2, <3>3, <3>4, <3>5
  <2> QED  BY <1>2, <1>4, <1>7, <2>1, <2>4, <2>5, <2>6
<1>8. failed' \in BOOLEAN /\ alive' \in BOOLEAN
  BY <1>1, <1>6
<1> QED  BY <1>5, <1>6, <1>7, <1>8

LEMMA CallStep ==
  ASSUME IInv, Liberties = {}, NEW i \in DOMAIN words, Call(i)
  PROVE  IInv'
<1> DEFINE w == words[i]
           k == Len(stack) - w.meant.params
<1>0. w = words[i] /\ k = Len(stack) - w.meant.params
  OBVIOUS
<1> HIDE DEF w, k
<1>1. /\ UNCHANGED <<list, sig, words, effort>> /\ failed' \in BOOLEAN /\ alive' \in BOOLEAN
      /\ \/ stack' = stack /\ called' = NoCall
         \/ /\ w.meant.params \in Nat /\ k \in 0 .. Len(stack)
            /\ called'.function = w.name /\ called'.aligned
            /\ called'.args = SubSeq(stack, k + 1, Len(stack))
            /\ called'.result \in Values
            /\ \/ ~w.meant.result /\ stack' = SubSeq(stack, 1, k)
               \/ w.meant.result /\ stack' = Append(SubSeq(stack, 1, k), called'.result)
            /\ k = Len(stack) => Len(stack) < Limit
  BY <1>0, Calls
<1>2. stack \in Seq(Values) /\ Len(stack) \in Nat /\ Len(stack) <= Limit /\ Limit \in Nat
  BY LenProperties, ForeignAssumption DEF IInv, Typed
<1>3. stack' \in Seq(Values) /\ Len(stack') <= Limit
  <2>1. CASE stack' = stack
    BY <1>2, <2>1
  <2>2. ASSUME NEW v \in Values, k \in 0 .. Len(stack), k = Len(stack) => Len(stack) < Limit,
               stack' = SubSeq(stack, 1, k) \/ stack' = Append(SubSeq(stack, 1, k), v)
        PROVE  stack' \in Seq(Values) /\ Len(stack') <= Limit
    <3> DEFINE s == SubSeq(stack, 1, k)
    <3>1. s \in Seq(Values) /\ Len(s) = k
      BY <1>2, <2>2, CutShort
    <3> HIDE DEF s
    <3>2. Append(s, v) \in Seq(Values) /\ Len(Append(s, v)) = k + 1
      BY <2>2, <3>1, AppendProperties
    <3>3. stack' = s \/ stack' = Append(s, v)
      BY <2>2 DEF s
    <3>4. k <= Limit /\ k + 1 <= Limit
      BY <1>2, <2>2
    <3> QED  BY <3>1, <3>2, <3>3, <3>4
  <2> QED  BY <1>1, <2>1, <2>2
<1>4. /\ Ends' /\ Aged' /\ Linked' /\ Loaded' = Loaded
      /\ node' \in [Addrs -> Nodes] /\ effort' \in Nat
      /\ objects' \in Addrs \cup {None} /\ recent' \in Addrs \cup {None}
  BY <1>1, ListKept
<1>5. WordsAsDeclared'
  BY <1>1, <1>4, WordsKept DEF IInv, WordsAsDeclared
<1> QED  BY <1>1, <1>3, <1>4, <1>5 DEF IInv, Typed

\* What leaves the list and the words alone.
LEMMA OtherStep ==
  ASSUME IInv, UNCHANGED <<list, sig, words, effort>>, failed' \in BOOLEAN, alive' \in BOOLEAN,
         stack' \in Seq(Values), Len(stack') <= Limit
  PROVE  IInv'
<1>1. /\ Ends' /\ Aged' /\ Linked' /\ Loaded' = Loaded
      /\ node' \in [Addrs -> Nodes] /\ effort' \in Nat
      /\ objects' \in Addrs \cup {None} /\ recent' \in Addrs \cup {None}
  BY ListKept
<1>2. WordsAsDeclared'
  BY <1>1, WordsKept DEF IInv, WordsAsDeclared
<1> QED  BY <1>1, <1>2 DEF IInv, Typed

LEMMA InitInv == Init => IInv
<1> SUFFICES ASSUME Init PROVE IInv
  OBVIOUS
<1>1. Live = {}
  BY DEF Init, Live
<1>2. Ends /\ Aged /\ Linked
  BY <1>1 DEF Init, Ends, Aged, Linked
<1>3. node \in [Addrs -> Nodes]
  BY DEF Init, Nodes, Pointers
<1>4. sig \in Signatures
  BY DEF Init, Signatures, NoHandle, Types
<1>5. /\ words \in Seq(ForeignWords) /\ WordsAsDeclared
      /\ stack \in Seq(Values) /\ Len(stack) <= Limit
  <2>1. words = << >> /\ stack = << >> /\ Limit \in Nat
    BY ForeignAssumption DEF Init
  <2>2. words \in Seq(ForeignWords) /\ stack \in Seq(Values) /\ Len(stack) = 0
    BY <2>1, EmptySeq
  <2>3. DOMAIN words = {}
    BY <2>1
  <2> QED  BY <2>1, <2>2, <2>3 DEF WordsAsDeclared
<1> QED  BY <1>2, <1>3, <1>4, <1>5 DEF Init, IInv, Typed

LEMMA NextInv ==
  ASSUME IInv, Liberties = {}, [Next]_vars
  PROVE  IInv'
<1>1. /\ stack \in Seq(Values) /\ Len(stack) \in Nat /\ Len(stack) <= Limit /\ Limit \in Nat
      /\ failed \in BOOLEAN /\ alive \in BOOLEAN
  BY LenProperties, ForeignAssumption DEF IInv, Typed
<1>2. ASSUME NEW o \in Objects \cup {Missing}, Load(o)
      PROVE  IInv'
  BY <1>2, LoadStep
<1>3. ASSUME NEW o \in Objects \cup {Missing}, Free(o)
      PROVE  IInv'
  BY <1>3, FreeStep
<1>4. ASSUME NEW f \in Functions, NEW effect \in Effects, Declare(f, effect)
      PROVE  IInv'
  BY <1>4, DeclareStep
<1>5. ASSUME NEW i \in DOMAIN words, Call(i)
      PROVE  IInv'
  BY <1>5, CallStep
<1>6. ASSUME NEW v \in Values, Push(v)
      PROVE  IInv'
  <2>1. stack' \in Seq(Values) /\ Len(stack') <= Limit
    <3>1. stack' = Append(stack, v) /\ Len(stack) < Limit
      BY <1>6 DEF Push
    <3> QED  BY <1>1, <3>1, AppendProperties
  <2> QED  BY <1>1, <1>6, <2>1, OtherStep DEF Push
<1>7. CASE Drop
  <2>1. stack' \in Seq(Values) /\ Len(stack') <= Limit
    <3>1. stack' = SubSeq(stack, 1, Len(stack) - 1) /\ stack # << >>
      BY <1>7 DEF Drop, Front
    <3>2. Len(stack) - 1 \in 0 .. Len(stack)
      BY <1>1, <3>1, EmptySeq
    <3> DEFINE s == SubSeq(stack, 1, Len(stack) - 1)
    <3>3. s \in Seq(Values) /\ Len(s) = Len(stack) - 1
      BY <1>1, <3>2, CutShort
    <3> HIDE DEF s
    <3> QED  BY <1>1, <3>1, <3>3 DEF s
  <2> QED  BY <1>1, <1>7, <2>1, OtherStep DEF Drop
<1>8. CASE Recover
  BY <1>1, <1>8, OtherStep DEF Recover
<1>9. CASE UNCHANGED vars
  BY <1>1, <1>9, OtherStep DEF vars, list
<1> QED  BY <1>2, <1>3, <1>4, <1>5, <1>6, <1>7, <1>8, <1>9 DEF Next

LEMMA Invariance ==
  ASSUME Liberties = {}
  PROVE  Spec => []IInv
<1>1. IInv /\ [Next]_vars => IInv'
  BY NextInv
<1> QED  BY InitInv, <1>1, PTL DEF Spec

-----------------------------------------------------------------------------
(* The theorems, of programs without liberties: they free of the list's    *)
(* ends only one that is both and has no links, no library that a word is  *)
(* bound in, declare functions that some loaded library has and with all   *)
(* of -- in the declaration, pass no more arguments than there are         *)
(* registers, and call for a result only with room for it.                 *)

\* The links of the list lead to memory malloc gave out or nowhere known, and
\* the stack stays within its cells, whatever is loaded, freed, declared and
\* called (ffi/load_extern_library.c:62-335, words/askforth_words.c:2969-3244).
THEOREM ForeignTyped ==
  ASSUME Liberties = {}
  PROVE  Spec => []TypeOK
<1>1. IInv => TypeOK
  BY DEF IInv, Typed, TypeOK, Nodes, Signatures
<1> QED  BY <1>1, Invariance, PTL

\* However many declarations, those that failed included, have been read into
\* the one signature, each word keeps the function, the number of arguments and
\* the kind of result of its own, in a library that is still loaded
\* (words/askforth_words.c:3038-3212, library/library.c:266-267).
THEOREM DeclarationsKept ==
  ASSUME Liberties = {}
  PROVE  Spec => []WordsAsDeclared
<1>1. IInv => WordsAsDeclared
  BY DEF IInv
<1> QED  BY <1>1, Invariance, PTL

\* A C function gets what its declaration names, as many cells as were declared
\* and the deepest first, and leaves a result exactly when one was declared
\* (ffi/load_extern_library.c:355-451, 503-522).
THEOREM ArgumentsPassed ==
  ASSUME Liberties = {}
  PROVE  Spec => PassesArguments
<1>1. ASSUME IInv, called' # NoCall, NEW i \in DOMAIN words, Call(i)
      PROVE  LET w == words[i]
                 below == Len(stack) - w.meant.params
             IN  /\ called'.function = w.name
                 /\ called'.args = SubSeq(stack, below + 1, Len(stack))
                 /\ called'.aligned
                 /\ stack' = SubSeq(stack, 1, below)
                               \o IF w.meant.result THEN << called'.result >> ELSE << >>
  <2> DEFINE w == words[i]
             k == Len(stack) - w.meant.params
             s == SubSeq(stack, 1, k)
  <2>1. w = words[i] /\ k = Len(stack) - w.meant.params
    OBVIOUS
  <2> HIDE DEF w, k
  <2>2. \/ stack' = stack /\ called' = NoCall
        \/ /\ w.meant.params \in Nat /\ k \in 0 .. Len(stack)
           /\ called'.function = w.name /\ called'.aligned
           /\ called'.args = SubSeq(stack, k + 1, Len(stack))
           /\ called'.result \in Values
           /\ \/ ~w.meant.result /\ stack' = SubSeq(stack, 1, k)
              \/ w.meant.result /\ stack' = Append(SubSeq(stack, 1, k), called'.result)
           /\ k = Len(stack) => Len(stack) < Limit
    BY <1>1, <2>1, Calls
  <2>3. s \in Seq(Values)
    BY <1>1, <2>2, CutShort DEF IInv, Typed
  <2>4. stack' = s \o IF w.meant.result THEN << called'.result >> ELSE << >>
    <3> HIDE DEF s
    <3>1. s \o << >> = s
      BY <2>3, ConcatEmptySeq
    <3>2. \A v \in Values : Append(s, v) = s \o << v >>
      BY <2>3, AppendIsConcat
    <3> QED  BY <1>1, <2>2, <3>1, <3>2 DEF s
  <2> QED  BY <1>1, <2>1, <2>2, <2>4
<1>2. IInv /\ [Next]_vars => (called' # NoCall =>
        \A i \in DOMAIN words : Call(i) =>
          LET w == words[i]
              below == Len(stack) - w.meant.params
          IN  /\ called'.function = w.name
              /\ called'.args = SubSeq(stack, below + 1, Len(stack))
              /\ called'.aligned
              /\ stack' = SubSeq(stack, 1, below)
                            \o IF w.meant.result THEN << called'.result >> ELSE << >>)
  BY <1>1
<1> QED  BY <1>2, Invariance, PTL DEF PassesArguments, Spec

\* A word is added only by a declaration of it.
LEMMA OnlyDeclared ==
  ASSUME IInv, Liberties = {}, [Next]_vars, words' # words,
         NEW f, Last(words').name = f,
         NEW having, having = {a \in Live : f \in Exports[node[a].object]}
  PROVE  Declared(f, having)
<1>1. PICK g \in Functions, effect \in Effects : Declare(g, effect)
  BY DEF Next, vars, Load, Free, Call, Push, Drop, Recover
<1> DEFINE has == {a \in Live : g \in Exports[node[a].object]}
<1>2. has = {a \in Live : g \in Exports[node[a].object]}
  OBVIOUS
<1> HIDE DEF has
<1>3. Declared(g, has)
  BY <1>1, <1>2, Declares
<1>4. PICK a, w : DeclaredIn(g, has, a, w)
  BY <1>3 DEF Declared
<1>5. words \in Seq(ForeignWords) /\ w \in ForeignWords /\ words' = Append(words, w) /\ w.name = g
  BY <1>4 DEF DeclaredIn, IInv, Typed
<1>6. Last(words') = w
  <2>1. Len(words') = Len(words) + 1 /\ words'[Len(words) + 1] = w
    BY <1>5, AppendProperties
  <2> QED  BY <2>1 DEF Last
<1>7. f = g /\ having = has
  BY <1>2, <1>5, <1>6
<1> QED  BY <1>3, <1>7

\* Wherever malloc placed the objects and whatever it left in their outer links,
\* the search for a function that a loaded object has ends at the one loaded
\* last of them, and what is declared is bound there
\* (ffi/load_extern_library.c:62-91).
THEOREM BoundInNewest ==
  ASSUME Liberties = {}
  PROVE  Spec => NewestBinds
<1>1. ASSUME IInv, [Next]_vars, NEW f \in Functions,
             NEW having, having = {a \in Live : f \in Exports[node[a].object]}
      PROVE  /\ having # {} => ~Perishes(having)
             /\ words' # words /\ ~failed' /\ Last(words').name = f =>
                  \E a \in having :
                    /\ Last(words').sig.handle = [object |-> node[a].object, function |-> f]
                    /\ \A b \in having : node[b].born <= node[a].born
  <2>1. having # {} => ~Perishes(having)
    <3>1. having \subseteq Live
      BY <1>1
    <3> QED  BY <1>1, <3>1, Found DEF IInv
  <2>2. ASSUME words' # words, Last(words').name = f
        PROVE  \E a \in having :
                 /\ Last(words').sig.handle = [object |-> node[a].object, function |-> f]
                 /\ \A b \in having : node[b].born <= node[a].born
    <3>1. Declared(f, having)
      BY <1>1, <2>2, OnlyDeclared
    <3>2. PICK a, w : DeclaredIn(f, having, a, w)
      BY <3>1 DEF Declared
    <3>3. /\ words \in Seq(ForeignWords) /\ w \in ForeignWords /\ words' = Append(words, w)
          /\ a \in having /\ w.sig.handle = [object |-> node[a].object, function |-> f]
          /\ \A b \in having : node[b].born <= node[a].born
      BY <1>1, <3>2 DEF DeclaredIn, IInv, Typed
    <3>4. Last(words') = w
      <4>1. Len(words') = Len(words) + 1 /\ words'[Len(words) + 1] = w
        BY <3>3, AppendProperties
      <4> QED  BY <4>1 DEF Last
    <3> QED  BY <3>3, <3>4
  <2> QED  BY <2>1, <2>2
<1>2. IInv /\ [Next]_vars =>
        \A f \in Functions :
          LET having == {a \in Live : f \in Exports[node[a].object]}
          IN  /\ having # {} => ~Perishes(having)
              /\ words' # words /\ ~failed' /\ Last(words').name = f =>
                   \E a \in having :
                     /\ Last(words').sig.handle = [object |-> node[a].object, function |-> f]
                     /\ \A b \in having : node[b].born <= node[a].born
  BY <1>1
<1> QED  BY <1>2, Invariance, PTL DEF NewestBinds, Spec
=============================================================================
