----------------------------- MODULE SourcesProofs ----------------------------
(***************************************************************************)
(* Proofs about Sources, for all texts, files, blocks and sizes: nothing   *)
(* of a source is lost on the way from its text to its tokens.             *)
(***************************************************************************)
EXTENDS Sources, Lemmas, SequenceTheorems

Texts == Seq(Symbols)

-----------------------------------------------------------------------------
(* The tokens of a text.                                                   *)

Cuts == [tokens : Seq(Texts), token : Texts]
NoCut == [tokens |-> << >>, token |-> << >>]

\* f cuts t: what the first i symbols are cut to.
IsCut(f, t) ==
  /\ f \in [0 .. Len(t) -> Cuts] /\ f[0] = NoCut
  /\ \A i \in 1 .. Len(t) : f[i] = Cut(f[i - 1], t[i])

\* What a cut is made of.
LEMMA CutTyped ==
  ASSUME NEW c \in Cuts
  PROVE  /\ Whole(c) \in Seq(Texts)
         /\ \A x \in Symbols : Cut(c, x) \in Cuts
<1>1. c.tokens \in Seq(Texts) /\ c.token \in Texts
  BY DEF Cuts
<1>2. Whole(c) \in Seq(Texts)
  BY <1>1, AppendProperties DEF Whole
<1>3. ASSUME NEW x \in Symbols PROVE Cut(c, x) \in Cuts
  <2>1. << >> \in Texts /\ Append(c.token, x) \in Texts
    BY <1>1, AppendProperties DEF Texts
  <2>2. CASE x \in Blanks
    BY <1>2, <2>1, <2>2 DEF Cut, Cuts
  <2>3. CASE x \notin Blanks
    BY <1>1, <2>1, <2>3 DEF Cut, Cuts
  <2> QED  BY <2>2, <2>3
<1> QED  BY <1>2, <1>3

\* Every text can be cut.
LEMMA CutExists ==
  ASSUME NEW t \in Texts
  PROVE  \E f : IsCut(f, t)
<1> DEFINE n == Len(t)
           G == [p \in (1 .. n) \X Cuts |-> Cut(p[2], t[p[1]])]
<1>1. n \in Nat /\ \A i \in 1 .. n : t[i] \in Symbols
  BY LenProperties DEF Texts
<1>2. NoCut \in Cuts
  BY DEF NoCut, Cuts, Texts
<1>3. ASSUME NEW i \in 1 .. n, NEW c \in Cuts
      PROVE  G[<<i, c>>] = Cut(c, t[i]) /\ G[<<i, c>>] \in Cuts
  <2>1. Cut(c, t[i]) \in Cuts
    BY <1>1, CutTyped
  <2> QED  BY <2>1
<1>4. Steps(G, n, Cuts)
  BY <1>3 DEF Steps
<1> HIDE DEF G
<1>5. PICK f \in [0 .. n -> Cuts] : Follows(f, NoCut, G, n)
  BY <1>1, <1>2, <1>4, Defined
<1>6. ASSUME NEW i \in 1 .. n PROVE f[i] = Cut(f[i - 1], t[i])
  <2>1. i - 1 \in 0 .. n
    BY <1>1
  <2> QED  BY <1>3, <1>5, <2>1 DEF Follows
<1>7. IsCut(f, t)
  BY <1>5, <1>6 DEF IsCut, Follows
<1> QED  BY <1>7

\* The tokens of a text are what its cut ends in.
LEMMA TokensAre ==
  ASSUME NEW t \in Texts, NEW f, IsCut(f, t)
  PROVE  Tokens(t) = Whole(f[Len(t)])
<1> DEFINE n == Len(t)
           Def(g) == [i \in 0 .. n |-> IF i = 0 THEN [tokens |-> << >>, token |-> << >>]
                                       ELSE Cut(g[i - 1], t[i])]
           cut == CHOOSE g : g = Def(g)
<1>1. n \in Nat
  BY LenProperties DEF Texts
<1>2. f = Def(f)
  <2>1. \A i \in 0 .. n : f[i] = IF i = 0 THEN [tokens |-> << >>, token |-> << >>]
                                 ELSE Cut(f[i - 1], t[i])
    BY <1>1 DEF IsCut, NoCut
  <2>2. f = [i \in 0 .. n |-> f[i]]
    BY DEF IsCut
  <2> QED  BY <2>1, <2>2
<1>3. cut = Def(cut)
  BY <1>2
<1>4. \A i \in 0 .. n : cut[i] = IF i = 0 THEN [tokens |-> << >>, token |-> << >>]
                                 ELSE Cut(cut[i - 1], t[i])
  <2>1. \A i \in 0 .. n : cut[i] = Def(cut)[i]
    BY <1>3
  <2> HIDE DEF cut
  <2> QED  BY <2>1
<1>5. Tokens(t) = Whole(cut[n])
  BY DEF Tokens
<1> DEFINE T == {i \in 0 .. n : cut[i] = f[i]}
<1>6. 0 .. n \subseteq T
  <2> HIDE DEF cut
  <2>1. 0 \in T
    BY <1>1, <1>4 DEF IsCut, NoCut
  <2>2. ASSUME NEW k \in 0 .. n - 1, k \in T PROVE k + 1 \in T
    <3>1. k + 1 \in 1 .. n /\ k + 1 \in 0 .. n /\ k + 1 # 0 /\ (k + 1) - 1 = k /\ cut[k] = f[k]
      BY <1>1, <2>2
    <3>2. cut[k + 1] = Cut(cut[k], t[k + 1])
      BY <1>4, <3>1
    <3>3. f[k + 1] = Cut(f[k], t[k + 1])
      BY <3>1 DEF IsCut
    <3> QED  BY <3>1, <3>2, <3>3
  <2> HIDE DEF T
  <2> QED  BY <1>1, <2>1, <2>2, Induct
<1> HIDE DEF cut
<1> QED  BY <1>1, <1>5, <1>6

\* Tokens are texts, and no blank text has any.
LEMMA TokensTyped ==
  ASSUME NEW t \in Texts
  PROVE  Tokens(t) \in Seq(Texts)
<1>1. PICK f : IsCut(f, t)
  BY CutExists
<1>2. f[Len(t)] \in Cuts
  BY <1>1, LenProperties DEF IsCut, Texts
<1> QED  BY <1>1, <1>2, TokensAre, CutTyped

\* The empty text has no tokens.
LEMMA NoTokens == Tokens(<< >>) = << >>
<1> DEFINE f == [i \in 0 .. 0 |-> NoCut]
<1>1. NoCut \in Cuts /\ << >> \in Texts
  BY DEF NoCut, Cuts, Texts
<1>2. IsCut(f, << >>)
  BY <1>1 DEF IsCut
<1>3. Whole(f[0]) = << >>
  BY DEF Whole, NoCut
<1> QED  BY <1>1, <1>2, <1>3, TokensAre

\* What was cut before, W, does not change how a text is cut.
After(W, c) == [tokens |-> W \o c.tokens, token |-> c.token]

\* What was cut before stays in front.
LEMMA CutAfter ==
  ASSUME NEW W \in Seq(Texts), NEW c \in Cuts
  PROVE  /\ After(W, c) \in Cuts /\ Whole(After(W, c)) = W \o Whole(c)
         /\ \A x \in Symbols : Cut(After(W, c), x) = After(W, Cut(c, x))
<1>1. c.tokens \in Seq(Texts) /\ c.token \in Texts /\ c = [tokens |-> c.tokens, token |-> c.token]
  BY DEF Cuts
<1>2. W \o c.tokens \in Seq(Texts)
  BY <1>1, ConcatProperties
<1>3. After(W, c) \in Cuts
  BY <1>1, <1>2 DEF After, Cuts
<1>4. W \o Append(c.tokens, c.token) = Append(W \o c.tokens, c.token)
  <2>1. << c.token >> \in Seq(Texts)
    BY <1>1
  <2>2. /\ Append(c.tokens, c.token) = c.tokens \o << c.token >>
        /\ Append(W \o c.tokens, c.token) = (W \o c.tokens) \o << c.token >>
    BY ONLY <1>1, <1>2, AppendIsConcat
  <2>3. (W \o c.tokens) \o << c.token >> = W \o (c.tokens \o << c.token >>)
    BY <1>1, <2>1, ConcatAssociative
  <2> QED  BY <2>2, <2>3
<1>5. Whole(After(W, c)) = W \o Whole(c)
  BY <1>4 DEF Whole, After
<1>6. ASSUME NEW x \in Symbols PROVE Cut(After(W, c), x) = After(W, Cut(c, x))
  <2>1. CASE x \in Blanks
    BY <1>5, <2>1 DEF Cut, After
  <2>2. CASE x \notin Blanks
    BY <1>1, <2>2 DEF Cut, After
  <2> QED  BY <2>1, <2>2
<1> QED  BY <1>3, <1>5, <1>6

\* Behind a blank, the tokens are those of the two parts.
LEMMA TokensJoin ==
  ASSUME NEW a \in Texts, NEW b \in Texts, a # << >> => a[Len(a)] \in Blanks
  PROVE  Tokens(a \o b) = Tokens(a) \o Tokens(b)
<1>1. PICK fa : IsCut(fa, a)
  BY CutExists
<1>2. PICK fb : IsCut(fb, b)
  BY CutExists
<1> DEFINE n == Len(a)
           k == Len(b)
           W == Whole(fa[n])
           h == [i \in 0 .. n + k |-> IF i <= n THEN fa[i] ELSE After(W, fb[i - n])]
<1>3. /\ n \in Nat /\ k \in Nat /\ a \o b \in Texts /\ Len(a \o b) = n + k
      /\ (\A i \in 1 .. n : a[i] \in Symbols) /\ (\A i \in 1 .. k : b[i] \in Symbols)
      /\ \A i \in 1 .. n + k : (a \o b)[i] = IF i <= n THEN a[i] ELSE b[i - n]
  <2>1. Len(a) \in Nat /\ Len(b) \in Nat
        /\ (\A i \in 1 .. Len(a) : a[i] \in Symbols) /\ \A i \in 1 .. Len(b) : b[i] \in Symbols
    BY LenProperties DEF Texts
  <2> QED  BY <2>1, ConcatProperties DEF Texts
<1>4. /\ fa \in [0 .. n -> Cuts] /\ fa[0] = NoCut /\ \A i \in 1 .. n : fa[i] = Cut(fa[i - 1], a[i])
      /\ fb \in [0 .. k -> Cuts] /\ fb[0] = NoCut /\ \A i \in 1 .. k : fb[i] = Cut(fb[i - 1], b[i])
  BY <1>1, <1>2 DEF IsCut
<1>5. fa[n] \in Cuts /\ fb[k] \in Cuts /\ W \in Seq(Texts)
  <2>1. n \in 0 .. n /\ k \in 0 .. k
    BY <1>3
  <2>2. fa[n] \in Cuts /\ fb[k] \in Cuts
    BY <1>4, <2>1
  <2> QED  BY <2>2, CutTyped
<1>6. fa[n] = After(W, NoCut)
  <2>1. fa[n].token = << >>
    <3>1. CASE n = 0
      BY <1>4, <3>1 DEF NoCut
    <3>2. CASE n # 0
      <4>1. a # << >> /\ n \in 1 .. n
        BY <1>3, <3>2
      <4>2. fa[n] = Cut(fa[n - 1], a[n]) /\ a[n] \in Blanks
        BY <1>4, <4>1
      <4> QED  BY <4>2 DEF Cut
    <3> QED  BY <3>1, <3>2
  <2>2. W = fa[n].tokens
    BY <2>1 DEF Whole
  <2>3. fa[n] = [tokens |-> W, token |-> << >>]
    BY <1>5, <2>1, <2>2 DEF Cuts
  <2>4. W \o << >> = W
    BY <1>5, ConcatEmptySeq
  <2> QED  BY <2>3, <2>4 DEF After, NoCut
<1> HIDE DEF W
<1>7. \A j \in 0 .. k : After(W, fb[j]) \in Cuts
  BY <1>4, <1>5, CutAfter
<1>8. h \in [0 .. n + k -> Cuts]
  <2>1. ASSUME NEW i \in 0 .. n + k PROVE h[i] \in Cuts
    <3>1. CASE i <= n
      BY <1>3, <1>4, <3>1
    <3>2. CASE i > n
      <4>1. i - n \in 0 .. k
        BY <1>3, <3>2
      <4>2. h[i] = After(W, fb[i - n])
        BY <1>3, <3>2
      <4> HIDE DEF h, n, k
      <4> QED  BY <1>7, <4>1, <4>2
    <3> QED  BY <1>3, <3>1, <3>2
  <2> QED  BY <2>1
<1>9. ASSUME NEW i \in 1 .. n + k PROVE h[i] = Cut(h[i - 1], (a \o b)[i])
  <2>1. CASE i <= n
    <3>1. i \in 1 .. n /\ i - 1 \in 0 .. n + k /\ i - 1 <= n /\ i \in 0 .. n + k
      BY <1>3, <2>1
    <3>2. h[i] = fa[i] /\ h[i - 1] = fa[i - 1] /\ (a \o b)[i] = a[i]
      BY <1>3, <2>1, <3>1
    <3> HIDE DEF h
    <3> QED  BY <1>4, <3>1, <3>2
  <2>2. CASE i > n
    <3>1. i - n \in 1 .. k /\ (i - n) - 1 \in 0 .. k /\ (i - 1) - n = (i - n) - 1
          /\ i - 1 \in 0 .. n + k /\ i \in 0 .. n + k
      BY <1>3, <2>2
    <3>2. h[i] = After(W, fb[i - n]) /\ (a \o b)[i] = b[i - n]
      BY <1>3, <2>2, <3>1
    <3>3. h[i - 1] = After(W, fb[(i - n) - 1])
      <4>1. CASE i - 1 <= n
        <5>1. i - 1 = n /\ (i - n) - 1 = 0
          BY <1>3, <2>2, <4>1
        <5>2. h[i - 1] = fa[n]
          BY <3>1, <4>1, <5>1
        <5> HIDE DEF h
        <5> QED  BY <1>4, <1>6, <5>1, <5>2
      <4>2. CASE i - 1 > n
        BY <1>3, <3>1, <4>2
      <4> QED  BY <1>3, <4>1, <4>2
    <3>4. fb[i - n] = Cut(fb[(i - n) - 1], b[i - n])
      BY <1>4, <3>1
    <3>5. fb[(i - n) - 1] \in Cuts /\ b[i - n] \in Symbols
      BY <1>3, <1>4, <3>1
    <3>6. Cut(After(W, fb[(i - n) - 1]), b[i - n]) = After(W, Cut(fb[(i - n) - 1], b[i - n]))
      BY <1>5, <3>5, CutAfter
    <3> HIDE DEF h
    <3> QED  BY <3>2, <3>3, <3>4, <3>6
  <2> QED  BY <1>3, <2>1, <2>2
<1>10. h[0] = NoCut
  BY <1>3, <1>4
<1>11. h[n + k] = After(W, fb[k])
  <2>1. CASE k = 0
    BY <1>3, <1>4, <1>6, <2>1
  <2>2. CASE k # 0
    BY <1>3, <2>2
  <2> QED  BY <2>1, <2>2
<1> HIDE DEF h
<1>12. IsCut(h, a \o b)
  BY <1>3, <1>8, <1>9, <1>10 DEF IsCut
<1>13. Tokens(a \o b) = Whole(After(W, fb[k]))
  BY <1>3, <1>11, <1>12, TokensAre
<1>14. Whole(After(W, fb[k])) = W \o Whole(fb[k])
  BY <1>5, CutAfter
<1>15. Tokens(a) = W /\ Tokens(b) = Whole(fb[k])
  BY <1>1, <1>2, TokensAre DEF W
<1> QED  BY <1>13, <1>14, <1>15

\* A text of blanks has no tokens.
LEMMA BlankTokens ==
  ASSUME NEW t \in Texts, \A i \in 1 .. Len(t) : t[i] \in Blanks
  PROVE  Tokens(t) = << >>
<1> DEFINE f == [i \in 0 .. Len(t) |-> NoCut]
<1>1. NoCut \in Cuts /\ Len(t) \in Nat
  BY LenProperties DEF NoCut, Cuts, Texts
<1>2. \A x \in Blanks : Cut(NoCut, x) = NoCut
  BY DEF Cut, NoCut, Whole
<1>3. IsCut(f, t)
  BY <1>1, <1>2 DEF IsCut
<1>4. Whole(f[Len(t)]) = << >>
  BY <1>1 DEF Whole, NoCut
<1> QED  BY <1>3, <1>4, TokensAre

\* A token and the blank behind it.
LEMMA OneToken ==
  ASSUME NEW t \in Texts, t # << >>, \A i \in 1 .. Len(t) : t[i] \notin Blanks,
         NEW x \in Symbols \cap Blanks
  PROVE  Tokens(Append(t, x)) = << t >>
<1> DEFINE n == Len(t)
           tx == Append(t, x)
           f == [i \in 0 .. n + 1 |-> IF i <= n THEN [tokens |-> << >>, token |-> SubSeq(t, 1, i)]
                                      ELSE [tokens |-> << t >>, token |-> << >>]]
<1>1. /\ n \in Nat /\ \A i \in 1 .. n : t[i] \in Symbols
      /\ tx \in Texts /\ Len(tx) = n + 1 /\ tx[n + 1] = x /\ \A i \in 1 .. n : tx[i] = t[i]
  BY LenProperties, AppendProperties DEF Texts
<1>2. \A i \in 0 .. n : SubSeq(t, 1, i) \in Texts
  BY <1>1, SubSeqProperties DEF Texts
<1>3. f \in [0 .. n + 1 -> Cuts]
  <2>1. << >> \in Seq(Texts) /\ << t >> \in Seq(Texts) /\ << >> \in Texts
    BY DEF Texts
  <2>2. \A i \in 0 .. n : [tokens |-> << >>, token |-> SubSeq(t, 1, i)] \in Cuts
    BY <1>2, <2>1 DEF Cuts
  <2>3. [tokens |-> << t >>, token |-> << >>] \in Cuts
    BY <2>1 DEF Cuts
  <2> QED  BY <1>1, <2>2, <2>3
<1>4. f[0] = NoCut
  <2>1. SubSeq(t, 1, 0) = << >>
    BY SubSeqEmpty
  <2> QED  BY <1>1, <2>1 DEF NoCut
<1>5. ASSUME NEW i \in 1 .. n + 1 PROVE f[i] = Cut(f[i - 1], tx[i])
  <2>1. f[i - 1] = [tokens |-> << >>, token |-> SubSeq(t, 1, i - 1)]
    BY <1>1
  <2>2. CASE i <= n
    <3>1. f[i] = [tokens |-> << >>, token |-> SubSeq(t, 1, i)] /\ i \in 1 .. n
          /\ tx[i] = t[i] /\ tx[i] \notin Blanks
      BY <1>1, <2>2
    <3>2. SubSeq(t, 1, i) = Append(SubSeq(t, 1, i - 1), t[i])
      <4>1. SubSeq(t, 1, i) = SubSeq(t, 1, i - 1) \o << t[i] >>
        BY <1>1, <3>1, SubSeqRecursiveSecond DEF Texts
      <4>2. SubSeq(t, 1, i - 1) \in Seq(Symbols) /\ t[i] \in Symbols
        BY <1>1, <1>2, <3>1 DEF Texts
      <4>3. Append(SubSeq(t, 1, i - 1), t[i]) = SubSeq(t, 1, i - 1) \o << t[i] >>
        BY <4>2, AppendIsConcat
      <4> QED  BY <4>1, <4>3
    <3> DEFINE c == [tokens |-> << >>, token |-> SubSeq(t, 1, i - 1)]
    <3>3. Cut(c, tx[i]) = [tokens |-> c.tokens, token |-> Append(c.token, tx[i])]
      BY <3>1 DEF Cut
    <3>4. f[i] = Cut(f[i - 1], tx[i])
      <4> HIDE DEF f, tx
      <4> QED  BY <2>1, <3>1, <3>2, <3>3
    <3> QED  BY <3>4
  <2>3. CASE i = n + 1
    <3>1. f[i] = [tokens |-> << t >>, token |-> << >>] /\ tx[i] = x /\ i - 1 = n
      BY <1>1, <2>3
    <3>2. SubSeq(t, 1, n) = t
      BY SubSeqFull DEF Texts
    <3> HIDE DEF f, tx
    <3> QED  BY <2>1, <3>1, <3>2 DEF Cut, Whole
  <2> QED  BY <1>1, <2>2, <2>3
<1>6. f[n + 1] = [tokens |-> << t >>, token |-> << >>]
  BY <1>1
<1> HIDE DEF f, tx
<1>7. IsCut(f, tx)
  BY <1>1, <1>3, <1>4, <1>5 DEF IsCut
<1>8. Tokens(tx) = Whole(f[n + 1])
  BY <1>1, <1>7, TokensAre
<1> QED  BY <1>6, <1>8 DEF Whole, tx

-----------------------------------------------------------------------------
(* What is taken from a buffer.                                            *)

\* The least of a set of numbers is one of them.
LEMMA LeastOf ==
  ASSUME NEW S \in SUBSET Nat, S # {}
  PROVE  Min(S) \in S /\ \A k \in S : Min(S) <= k
<1>1. PICK n \in Nat : n \in S
  OBVIOUS
<1> DEFINE T == Nat \ S
<1>2. n \notin T
  BY <1>1
<1> HIDE DEF T
<1>3. PICK m \in Nat : m \notin T /\ \A k \in Nat : k < m => k \in T
  BY <1>2, Smallest
<1>4. m \in S /\ \A k \in S : m <= k
  BY <1>3 DEF T
<1> QED  BY <1>4 DEF Min

\* Where the first symbol is, or that there is none.
LEMMA FirstSymbolIs ==
  ASSUME NEW t \in Texts
  PROVE  IF FirstSymbol(t) = 0 THEN \A i \in 1 .. Len(t) : t[i] \in Blanks
         ELSE /\ FirstSymbol(t) \in 1 .. Len(t) /\ t[FirstSymbol(t)] \notin Blanks
              /\ \A i \in 1 .. FirstSymbol(t) - 1 : t[i] \in Blanks
<1> DEFINE I == {i \in 1 .. Len(t) : t[i] \notin Blanks}
<1>1. FirstSymbol(t) = IF I # {} THEN Min(I) ELSE 0
  BY DEF FirstSymbol, SelectInSeq
<1>2. Len(t) \in Nat
  BY LenProperties DEF Texts
<1>3. CASE I = {}
  BY <1>1, <1>3
<1>4. CASE I # {}
  <2>1. Min(I) \in I /\ \A k \in I : Min(I) <= k
    <3>1. I \in SUBSET Nat
      OBVIOUS
    <3> HIDE DEF I
    <3> QED  BY ONLY <1>4, <3>1, LeastOf
  <2> DEFINE m == Min(I)
  <2> HIDE DEF m
  <2>2. m \in 1 .. Len(t) /\ t[m] \notin Blanks /\ \A k \in I : m <= k
    BY <2>1 DEF m
  <2>3. \A i \in 1 .. m - 1 : i \notin I
    BY <1>2, <2>2
  <2>4. \A i \in 1 .. m - 1 : t[i] \in Blanks
    BY <1>2, <2>2, <2>3
  <2> HIDE DEF I
  <2> QED  BY <1>1, <1>4, <2>2, <2>4 DEF m
<1> QED  BY <1>3, <1>4

\* Where the first blank is, or that there is none.
LEMMA FirstBlankIs ==
  ASSUME NEW t \in Texts
  PROVE  IF FirstBlank(t) = 0 THEN \A i \in 1 .. Len(t) : t[i] \notin Blanks
         ELSE /\ FirstBlank(t) \in 1 .. Len(t) /\ t[FirstBlank(t)] \in Blanks
              /\ \A i \in 1 .. FirstBlank(t) - 1 : t[i] \notin Blanks
<1> DEFINE I == {i \in 1 .. Len(t) : t[i] \in Blanks}
<1>1. FirstBlank(t) = IF I # {} THEN Min(I) ELSE 0
  BY DEF FirstBlank, SelectInSeq
<1>2. Len(t) \in Nat
  BY LenProperties DEF Texts
<1>3. CASE I = {}
  BY <1>1, <1>3
<1>4. CASE I # {}
  <2>1. Min(I) \in I /\ \A k \in I : Min(I) <= k
    <3>1. I \in SUBSET Nat
      OBVIOUS
    <3> HIDE DEF I
    <3> QED  BY ONLY <1>4, <3>1, LeastOf
  <2> DEFINE m == Min(I)
  <2> HIDE DEF m
  <2>2. m \in 1 .. Len(t) /\ t[m] \in Blanks /\ \A k \in I : m <= k
    BY <2>1 DEF m
  <2>3. \A i \in 1 .. m - 1 : i \notin I
    BY <1>2, <2>2
  <2>4. \A i \in 1 .. m - 1 : t[i] \notin Blanks
    BY <1>2, <2>2, <2>3
  <2> HIDE DEF I
  <2> QED  BY <1>1, <1>4, <2>2, <2>4 DEF m
<1> QED  BY <1>3, <1>4

\* A token is cut out of a text.
TokenAt(t, i, p, e, m) ==
  /\ SubSeq(t, p + 1, e - 1) \in Texts \ {<< >>}
  /\ Tokens(SubSeq(t, i + 1, m)) =
       << SubSeq(t, p + 1, e - 1) >> \o Tokens(SubSeq(t, e + 1, m))

\* A token and the blank behind it are taken from a text.
LEMMA TokenTaken ==
  ASSUME NEW t \in Texts, NEW i \in Nat, NEW p \in Nat, NEW e \in Nat, NEW m \in Nat,
         i <= p, p + 1 < e, e <= m, m <= Len(t),
         \A j \in i + 1 .. p : t[j] \in Blanks,
         \A j \in p + 1 .. e - 1 : t[j] \notin Blanks,
         t[e] \in Blanks
  PROVE  TokenAt(t, i, p, e, m)
<1> DEFINE a == SubSeq(t, i + 1, p)
           w == SubSeq(t, p + 1, e - 1)
           wb == SubSeq(t, p + 1, e)
           r == SubSeq(t, e + 1, m)
<1>1. Len(t) \in Nat /\ \A j \in 1 .. Len(t) : t[j] \in Symbols
  BY LenProperties DEF Texts
<1>2. /\ a \in Texts /\ Len(a) = p - i /\ \A j \in 1 .. p - i : a[j] = t[i + j]
  <2>1. \A j \in i + 1 .. p : t[j] \in Symbols
    BY <1>1
  <2>2. /\ a \in Seq(Symbols) /\ Len(a) = IF i + 1 <= p THEN p - (i + 1) + 1 ELSE 0
        /\ \A j \in 1 .. p - (i + 1) + 1 : a[j] = t[(i + 1) + j - 1]
    BY ONLY <2>1, i \in Nat, p \in Nat, e \in Nat, SubSeqProperties
  <2> HIDE DEF a
  <2> QED  BY <2>2 DEF Texts
<1>3. /\ w \in Texts /\ Len(w) = e - 1 - p /\ \A j \in 1 .. e - 1 - p : w[j] = t[p + j]
  <2>1. \A j \in p + 1 .. e - 1 : t[j] \in Symbols
    BY <1>1
  <2>2. /\ w \in Seq(Symbols) /\ Len(w) = IF p + 1 <= e - 1 THEN (e - 1) - (p + 1) + 1 ELSE 0
        /\ \A j \in 1 .. (e - 1) - (p + 1) + 1 : w[j] = t[(p + 1) + j - 1]
    BY ONLY <2>1, i \in Nat, p \in Nat, e \in Nat, SubSeqProperties
  <2> HIDE DEF w
  <2> QED  BY <2>2 DEF Texts
<1>4. r \in Texts
  <2>1. \A j \in e + 1 .. m : t[j] \in Symbols
    BY <1>1
  <2> QED  BY <2>1, SubSeqProperties DEF Texts
<1>5. t[e] \in Symbols \cap Blanks
  BY <1>1
<1>6. wb = Append(w, t[e]) /\ wb \in Texts /\ wb # << >> /\ wb[Len(wb)] = t[e]
  <2>1. wb = w \o << t[e] >>
    BY <1>1, SubSeqRecursiveSecond DEF Texts
  <2>2. Append(w, t[e]) = w \o << t[e] >>
    BY <1>3, <1>5, AppendIsConcat DEF Texts
  <2>3. /\ Append(w, t[e]) \in Texts /\ Append(w, t[e]) # << >>
        /\ Len(Append(w, t[e])) = Len(w) + 1 /\ Append(w, t[e])[Len(w) + 1] = t[e]
    BY <1>3, <1>5, AppendProperties DEF Texts
  <2> HIDE DEF w, wb
  <2> QED  BY <2>1, <2>2, <2>3
<1>7. SubSeq(t, i + 1, m) = a \o SubSeq(t, p + 1, m)
  BY <1>1, ConcatAdjacentSubSeq DEF Texts
<1>8. SubSeq(t, p + 1, m) = wb \o r
  BY <1>1, ConcatAdjacentSubSeq DEF Texts
<1>9. Tokens(a) = << >>
  <2>1. \A j \in 1 .. Len(a) : a[j] \in Blanks
    BY <1>2
  <2> HIDE DEF a
  <2> QED  BY <1>2, <2>1, BlankTokens
<1>10. a # << >> => a[Len(a)] \in Blanks
  <2>1. a # << >> => Len(a) # 0
    <3> HIDE DEF a
    <3> QED  BY <1>2, EmptySeq DEF Texts
  <2>2. Len(a) # 0 => a[Len(a)] = t[p] /\ p \in i + 1 .. p
    <3> HIDE DEF a
    <3> QED  BY <1>2
  <2> HIDE DEF a
  <2> QED  BY <2>1, <2>2
<1>11. Tokens(wb) = << w >>
  <2>1. \A j \in 1 .. Len(w) : w[j] \notin Blanks
    BY <1>3
  <2>2. w # << >>
    <3>1. Len(w) # 0
      <4> HIDE DEF w
      <4> QED  BY <1>3
    <3>2. Len(<< >>) = 0
      OBVIOUS
    <3> HIDE DEF w
    <3> QED  BY <3>1, <3>2
  <2> HIDE DEF w, wb
  <2> QED  BY <1>3, <1>5, <1>6, <2>1, <2>2, OneToken
<1>12. Tokens(wb \o r) = << w >> \o Tokens(r)
  <2>1. Tokens(wb \o r) = Tokens(wb) \o Tokens(r)
    <3> HIDE DEF w, wb, r
    <3> QED  BY <1>4, <1>5, <1>6, TokensJoin
  <2> QED  BY <1>11, <2>1
<1>13. wb \o r \in Texts
  BY <1>4, <1>6, ConcatProperties DEF Texts
<1>14. Tokens(a \o (wb \o r)) = Tokens(a) \o Tokens(wb \o r)
  <2> HIDE DEF a, wb, r
  <2> QED  BY <1>2, <1>10, <1>13, TokensJoin
<1>15. Tokens(wb \o r) \in Seq(Texts)
  BY <1>13, TokensTyped
<1>16. << >> \o Tokens(wb \o r) = Tokens(wb \o r)
  BY <1>15, ConcatEmptySeq
<1>17. w # << >>
  <2>1. Len(w) # 0 /\ Len(<< >>) = 0
    <3> HIDE DEF w
    <3> QED  BY <1>3
  <2> HIDE DEF w
  <2> QED  BY <2>1
<1> HIDE DEF a, wb
<1> QED  BY <1>3, <1>7, <1>8, <1>9, <1>12, <1>14, <1>16, <1>17 DEF TokenAt

\* What is left of a buffer, by position.
LEMMA RestIs ==
  ASSUME NEW t \in Texts, NEW i \in Nat, NEW m \in 0 .. Len(t)
  PROVE  /\ SubSeq(t, i + 1, m) \in Texts
         /\ Len(SubSeq(t, i + 1, m)) = IF i < m THEN m - i ELSE 0
         /\ \A j \in 1 .. m - i : SubSeq(t, i + 1, m)[j] = t[i + j]
<1>1. Len(t) \in Nat /\ \A j \in 1 .. Len(t) : t[j] \in Symbols
  BY LenProperties DEF Texts
<1>2. \A j \in i + 1 .. m : t[j] \in Symbols
  BY <1>1
<1> DEFINE r == SubSeq(t, i + 1, m)
<1>3. /\ r \in Seq(Symbols) /\ Len(r) = IF i + 1 <= m THEN m - (i + 1) + 1 ELSE 0
      /\ \A j \in 1 .. m - (i + 1) + 1 : r[j] = t[(i + 1) + j - 1]
  <2>1. i + 1 \in Int /\ m \in Int
    BY <1>1
  <2> QED  BY ONLY <1>2, <2>1, SubSeqProperties
<1> HIDE DEF r
<1>4. /\ r \in Texts /\ Len(r) = IF i < m THEN m - i ELSE 0
      /\ \A j \in 1 .. m - i : r[j] = t[i + j]
  BY <1>1, <1>3 DEF Texts
<1> QED  BY <1>4 DEF r

\* A buffer with its two positions.
Buffered(s) == s.base \in Texts /\ s.in \in Nat /\ s.max \in 0 .. Len(s.base)

\* The buffer is left at its end, or behind a token that a blank ends.
NoneFound(s) ==
  /\ NextToken(s) = NoToken(s)
  /\ EndsBlank(Rest(s)) => Tokens(Rest(s)) = << >>
Found(s, e, w) ==
  /\ NextToken(s) = [token |-> w, ends |-> s.base[e] \in {"\n", "nul"},
                     source |-> Behind(s, e - s.in, w)]
  /\ Tokens(Rest(s)) = << w >> \o Tokens(SubSeq(s.base, e + 1, s.max))

\* What NextToken finds in a buffer that ends in a blank is its first token.
LEMMA TokenFound ==
  ASSUME NEW s, Buffered(s)
  PROVE  \/ NoneFound(s)
         \/ \E e \in s.in + 1 .. s.max, w \in Texts \ {<< >>} : Found(s, e, w)
<1> DEFINE t == s.base
           i == s.in
           m == s.max
           rest == Rest(s)
           L == Len(rest)
           skip == FirstSymbol(rest) - 1
           tail == SubSeq(rest, skip + 1, L)
           size == FirstBlank(tail) - 1
<1>1. t \in Texts /\ i \in Nat /\ m \in 0 .. Len(t) /\ Len(t) \in Nat
  BY LenProperties DEF Buffered, Texts
<1>2. /\ rest \in Texts /\ L = (IF i < m THEN m - i ELSE 0) /\ L \in Nat
      /\ \A j \in 1 .. m - i : rest[j] = t[i + j]
  <2> HIDE DEF t, i, m
  <2>1. rest = SubSeq(t, i + 1, m)
    BY DEF Rest, t, i, m
  <2> HIDE DEF rest
  <2> QED  BY <1>1, <2>1, RestIs
<1>3. NextToken(s) = IF skip < 0 \/ size < 0 THEN NoToken(s)
                     ELSE [token |-> SubSeq(rest, skip + 1, skip + size),
                           ends |-> rest[skip + size + 1] \in {"\n", "nul"},
                           source |-> Behind(s, skip + size + 1,
                                             SubSeq(rest, skip + 1, skip + size))]
  BY DEF NextToken
<1>4. rest # << >> => L # 0
  <2> HIDE DEF rest
  <2> QED  BY <1>2, EmptySeq DEF Texts
<1>5. CASE FirstSymbol(rest) = 0
  <2>1. skip < 0
    BY <1>5
  <2>2. \A j \in 1 .. L : rest[j] \in Blanks
    <3> HIDE DEF rest
    <3> QED  BY <1>2, <1>5, FirstSymbolIs
  <2>3. Tokens(rest) = << >>
    <3> HIDE DEF rest
    <3> QED  BY <1>2, <2>2, BlankTokens
  <2> QED  BY <1>3, <2>1, <2>3 DEF NoneFound
<1>6. CASE FirstSymbol(rest) # 0
  <2>1. /\ skip \in 0 .. L - 1 /\ rest[skip + 1] \notin Blanks
        /\ \A j \in 1 .. skip : rest[j] \in Blanks
    <3> DEFINE k == FirstSymbol(rest)
    <3>1. k \in 1 .. L /\ rest[k] \notin Blanks /\ \A j \in 1 .. k - 1 : rest[j] \in Blanks
      <4> HIDE DEF rest
      <4> QED  BY <1>2, <1>6, FirstSymbolIs
    <3>2. skip = k - 1 /\ k = skip + 1
      BY <3>1
    <3> HIDE DEF k, rest, L
    <3> QED  BY <1>2, <3>1, <3>2
  <2> HIDE DEF skip
  <2>2. /\ tail \in Texts /\ Len(tail) = L - skip /\ L - skip \in Nat \ {0}
        /\ \A j \in 1 .. L - skip : tail[j] = rest[skip + j]
    <3>1. skip \in Nat /\ L \in 0 .. Len(rest) /\ skip < L
      BY <1>2, <2>1
    <3>2. /\ tail \in Texts /\ Len(tail) = (IF skip < L THEN L - skip ELSE 0)
          /\ \A j \in 1 .. L - skip : tail[j] = rest[skip + j]
      <4> HIDE DEF rest, L
      <4> QED  BY <1>2, <3>1, RestIs
    <3> HIDE DEF tail, rest, L
    <3> QED  BY <1>2, <3>1, <3>2
  <2> HIDE DEF tail
  <2>3. CASE FirstBlank(tail) = 0
    <3>1. size < 0
      BY <2>3
    <3>2. tail[L - skip] \notin Blanks
      BY <2>2, <2>3, FirstBlankIs
    <3>3. Last(rest) \notin Blanks /\ rest # << >>
      <4>1. tail[L - skip] = rest[L]
        <5>1. L - skip \in 1 .. L - skip /\ skip + (L - skip) = L
          <6> HIDE DEF rest, L
          <6> QED  BY <1>2, <2>1, <2>2
        <5> HIDE DEF rest, L
        <5> QED  BY <2>2, <5>1
      <4>2. L # 0 /\ Len(<< >>) = 0
        BY <1>2, <2>1
      <4> HIDE DEF rest
      <4> QED  BY <3>2, <4>1, <4>2 DEF Last
    <3>4. ~EndsBlank(rest)
      BY <3>3 DEF EndsBlank
    <3> QED  BY <1>3, <3>1, <3>4 DEF NoneFound
  <2>4. CASE FirstBlank(tail) # 0
    <3>1. /\ size \in 0 .. L - skip - 1 /\ tail[size + 1] \in Blanks
          /\ \A j \in 1 .. size : tail[j] \notin Blanks
      <4> DEFINE k == FirstBlank(tail)
      <4>1. k \in 1 .. Len(tail) /\ tail[k] \in Blanks
            /\ \A j \in 1 .. k - 1 : tail[j] \notin Blanks
        BY <2>2, <2>4, FirstBlankIs
      <4>2. size = k - 1 /\ k = size + 1
        BY <4>1
      <4> HIDE DEF k, rest, L
      <4> QED  BY <2>2, <4>1, <4>2
    <3> HIDE DEF size
    <3>2. size # 0
      <4>1. tail[1] = rest[skip + 1]
        <5> HIDE DEF rest, L
        <5> QED  BY <2>2
      <4> HIDE DEF rest
      <4> QED  BY <2>1, <3>1, <4>1
    <3>3. i < m /\ L = m - i
      BY <1>1, <1>2, <2>1
    <3> HIDE DEF t, i, m, rest, L
    <3> DEFINE p == i + skip
               e == i + skip + size + 1
    <3>4. /\ p \in Nat /\ e \in Nat /\ i <= p /\ p + 1 < e /\ e <= m /\ m \in Nat /\ m <= Len(t)
          /\ e \in i + 1 .. m
      BY <1>1, <1>2, <2>1, <3>1, <3>2, <3>3
    <3>5. \A j \in i + 1 .. p : t[j] \in Blanks
      <4> SUFFICES ASSUME NEW j \in i + 1 .. p PROVE t[j] \in Blanks
        OBVIOUS
      <4>1. j - i \in 1 .. skip /\ j - i \in 1 .. m - i /\ i + (j - i) = j
        BY <1>1, <2>1, <3>3, <3>4
      <4>2. rest[j - i] = t[i + (j - i)] /\ rest[j - i] \in Blanks
        BY <1>2, <2>1, <4>1
      <4> QED  BY <4>1, <4>2
    <3>6. \A j \in 1 .. L - skip : tail[j] = t[p + j]
      <4> SUFFICES ASSUME NEW j \in 1 .. L - skip PROVE tail[j] = t[p + j]
        OBVIOUS
      <4>1. skip + j \in 1 .. m - i /\ i + (skip + j) = p + j
        BY <1>1, <1>2, <2>1, <3>3
      <4>2. rest[skip + j] = t[i + (skip + j)]
        BY <1>2, <4>1
      <4> QED  BY <2>2, <4>1, <4>2
    <3>7. \A j \in p + 1 .. e - 1 : t[j] \notin Blanks
      <4> SUFFICES ASSUME NEW j \in p + 1 .. e - 1 PROVE t[j] \notin Blanks
        OBVIOUS
      <4>1. j - p \in 1 .. size /\ j - p \in 1 .. L - skip /\ p + (j - p) = j
        BY <1>1, <1>2, <2>1, <3>1, <3>4
      <4>2. tail[j - p] = t[p + (j - p)] /\ tail[j - p] \notin Blanks
        BY <3>1, <3>6, <4>1
      <4> QED  BY <4>1, <4>2
    <3>8. t[e] \in Blanks
      <4>1. size + 1 \in 1 .. L - skip /\ p + (size + 1) = e
        BY <1>1, <1>2, <2>1, <3>1
      <4>2. tail[size + 1] = t[p + (size + 1)]
        BY <3>6, <4>1
      <4> QED  BY <3>1, <4>1, <4>2
    <3> DEFINE w == SubSeq(t, p + 1, e - 1)
    <3> HIDE DEF p, e
    <3>9. /\ w \in Texts \ {<< >>}
          /\ Tokens(SubSeq(t, i + 1, m)) = << w >> \o Tokens(SubSeq(t, e + 1, m))
      <4>1. TokenAt(t, i, p, e, m)
        BY <1>1, <3>4, <3>5, <3>7, <3>8, TokenTaken
      <4> QED  BY <4>1 DEF TokenAt
    <3>10. SubSeq(rest, skip + 1, skip + size) = w
      <4>1. rest = SubSeq(t, i + 1, m)
        BY DEF Rest, rest, t, i, m
      <4>2. /\ i + 1 \in 1 .. Len(t) /\ m \in 1 .. Len(t)
            /\ skip + 1 \in 1 .. m - (i + 1) + 1 /\ skip + size \in 1 .. m - (i + 1) + 1
            /\ (i + 1) + (skip + 1) - 1 = p + 1 /\ (i + 1) + (skip + size) - 1 = e - 1
        BY <1>1, <1>2, <2>1, <3>1, <3>2, <3>3 DEF p, e
      <4>3. SubSeq(SubSeq(t, i + 1, m), skip + 1, skip + size)
              = SubSeq(t, (i + 1) + (skip + 1) - 1, (i + 1) + (skip + size) - 1)
        <5> DEFINE a == i + 1
                   b == skip + 1
                   c == skip + size
        <5>1. t \in Seq(Symbols) /\ a \in 1 .. Len(t) /\ b \in 1 .. m - a + 1
              /\ c \in 1 .. m - a + 1
          BY <1>1, <4>2 DEF Texts
        <5> HIDE DEF a, b, c
        <5>2. SubSeq(SubSeq(t, a, m), b, c) = SubSeq(t, a + b - 1, a + c - 1)
          BY ONLY <4>2, <5>1, SubSeqOfSubSeq
        <5> QED  BY <5>2 DEF a, b, c
      <4> QED  BY <4>1, <4>2, <4>3
    <3>11. rest[skip + size + 1] = t[e]
      <4>1. skip + size + 1 \in 1 .. m - i /\ i + (skip + size + 1) = e
        BY <1>1, <1>2, <2>1, <3>1, <3>3 DEF e
      <4> QED  BY <1>2, <4>1
    <3>12. skip + size + 1 = e - i /\ ~(skip < 0) /\ ~(size < 0)
      BY <1>1, <2>1, <3>1 DEF e
    <3> HIDE DEF w
    <3>13. NextToken(s) = [token |-> w, ends |-> t[e] \in {"\n", "nul"},
                           source |-> Behind(s, e - i, w)]
      BY <1>3, <3>10, <3>11, <3>12
    <3>14. Tokens(Rest(s)) = << w >> \o Tokens(SubSeq(t, e + 1, m))
      BY <3>9 DEF Rest, w, t, i, m
    <3>15. Found(s, e, w)
      BY <3>13, <3>14 DEF Found, t, i, m
    <3> QED  BY <3>4, <3>9, <3>15 DEF i, m
  <2> QED  BY <2>3, <2>4
<1> QED  BY <1>5, <1>6

\* A text is cut at k as it would be cut as a whole.
CutsAt(t, i, k, m) ==
  Tokens(SubSeq(t, i + 1, m)) = Tokens(SubSeq(t, i + 1, k)) \o Tokens(SubSeq(t, k + 1, m))

\* Behind a blank a text can be cut in two.
LEMMA CutAt ==
  ASSUME NEW t \in Texts, NEW i \in Nat, NEW k \in Nat, NEW m \in Nat,
         i <= k, k <= m, m <= Len(t), i < k => t[k] \in Blanks
  PROVE  CutsAt(t, i, k, m)
<1> DEFINE a == SubSeq(t, i + 1, k)
           b == SubSeq(t, k + 1, m)
<1>1. Len(t) \in Nat /\ t \in Seq(Symbols)
  BY LenProperties DEF Texts
<1>2. a \in Texts /\ Len(a) = (IF i < k THEN k - i ELSE 0) /\ \A j \in 1 .. k - i : a[j] = t[i + j]
  <2>1. k \in 0 .. Len(t)
    BY <1>1
  <2> HIDE DEF a
  <2>2. a = SubSeq(t, i + 1, k)
    BY DEF a
  <2> QED  BY <2>1, <2>2, RestIs
<1>3. b \in Texts
  <2>1. m \in 0 .. Len(t)
    BY <1>1
  <2> QED  BY <2>1, RestIs
<1>4. SubSeq(t, i + 1, m) = a \o b
  <2>1. i + 1 \in 1 .. Len(t) + 1 /\ k \in (i + 1) - 1 .. Len(t) /\ m \in k .. Len(t)
    BY <1>1
  <2> DEFINE c == i + 1
  <2>2. c \in 1 .. Len(t) + 1 /\ k \in c - 1 .. Len(t) /\ m \in k .. Len(t)
    BY <2>1
  <2> HIDE DEF c
  <2>3. SubSeq(t, c, k) \o SubSeq(t, k + 1, m) = SubSeq(t, c, m)
    BY <1>1, <2>2, ConcatAdjacentSubSeq
  <2> QED  BY <2>3 DEF c
<1>5. a # << >> => a[Len(a)] \in Blanks
  <2>1. a # << >> => Len(a) # 0
    <3> HIDE DEF a
    <3> QED  BY <1>2, EmptySeq DEF Texts
  <2>2. Len(a) # 0 => i < k /\ a[Len(a)] = t[k]
    <3>1. i < k => k - i \in 1 .. k - i /\ i + (k - i) = k
      BY <1>1
    <3> HIDE DEF a
    <3> QED  BY <1>2, <3>1
  <2> HIDE DEF a
  <2> QED  BY <2>1, <2>2
<1>6. Tokens(a \o b) = Tokens(a) \o Tokens(b)
  <2> HIDE DEF a, b
  <2> QED  BY <1>2, <1>3, <1>5, TokensJoin
<1> QED  BY <1>4, <1>6 DEF CutsAt

\* What a line of a file is, where the file's lines end as they should.
LineFrom(text, at, r) ==
  /\ r.line \in Texts /\ r.at \in at .. Len(text) /\ r.eof \in BOOLEAN
  /\ r.eof /\ r.line = << >> => at = Len(text)
  /\ EndsLines(text) => (r.line = << >> => r.eof)
  /\ EndsLines(text) /\ Fits(text) =>
       /\ r.line # << >> => r.line[Len(r.line)] \in Blanks
       /\ Tokens(SubSeq(text, at + 1, Len(text)))
            = Tokens(r.line) \o Tokens(SubSeq(text, r.at + 1, Len(text)))

\* What FileLine reads is a line, and what it leaves are the tokens behind it.
LEMMA LineIs ==
  ASSUME NEW f, files[f] \in Texts, NEW at \in 0 .. Len(files[f])
  PROVE  LineFrom(files[f], at, FileLine(f, at))
<1> DEFINE text == files[f]
           n == Len(text)
           r == FileLine(f, at)
           last == Min({n, at + BufferSize - 1})
           end == {i \in at + 1 .. last : text[i] \in {"\r", "\n"}}
           i == Min(end)
           crlf == text[i] = "\r" /\ i < n /\ text[i + 1] = "\n"
<1>1. /\ text \in Texts /\ n \in Nat /\ at \in Nat /\ at <= n /\ BufferSize \in Nat
         /\ BufferSize > 1
      /\ n = Len(text) /\ (\A k \in 1 .. n : text[k] \in Symbols)
  <2>1. text \in Texts /\ at \in 0 .. Len(text) /\ n = Len(text)
    OBVIOUS
  <2> HIDE DEF text, n
  <2>2. n \in Nat /\ \A k \in 1 .. n : text[k] \in Symbols
    BY <2>1, LenProperties DEF Texts
  <2>3. BufferSize \in Nat /\ BufferSize > 1
    BY SourcesAssumption
  <2>4. at \in Nat /\ at <= n
    BY <2>1, <2>2
  <2> QED  BY <2>1, <2>2, <2>3, <2>4
<1>2. r = IF end = {}
          THEN [line |-> SubSeq(text, at + 1, last), at |-> last,
          eof |-> last < at + BufferSize - 1]
          ELSE [line |-> SubSeq(text, at + 1, IF text[i] = "\n" \/ crlf THEN i ELSE i - 1),
                at |-> IF crlf THEN i + 1 ELSE i, eof |-> FALSE]
  BY DEF FileLine
<1> HIDE DEF r, text, n
<1>3. /\ last \in Nat /\ last \in {n, at + BufferSize - 1} /\ last <= n
      /\ last <= at + BufferSize - 1 /\ at <= last
  <2> DEFINE S == {n, at + BufferSize - 1}
  <2>1. S \in SUBSET Nat /\ S # {} /\ n \in S /\ at + BufferSize - 1 \in S
    BY <1>1
  <2> HIDE DEF S
  <2>2. Min(S) \in S /\ \A k \in S : Min(S) <= k
    BY <2>1, LeastOf
  <2>3. last = Min(S)
    BY DEF S
  <2> HIDE DEF last
  <2> QED  BY <1>1, <2>1, <2>2, <2>3 DEF S
<1> HIDE DEF last
<1>4. CASE end = {}
  <2>1. r = [line |-> SubSeq(text, at + 1, last), at |-> last, eof |-> (last < at + BufferSize - 1)]
    BY <1>2, <1>4
  <2>2. /\ SubSeq(text, at + 1, last) \in Texts
        /\ Len(SubSeq(text, at + 1, last)) = IF at < last THEN last - at ELSE 0
    BY <1>1, <1>3, RestIs
  <2>3. r.line \in Texts /\ Len(r.line) = (IF at < last THEN last - at ELSE 0) /\ r.at = last
        /\ (r.eof <=> last < at + BufferSize - 1) /\ r.eof \in BOOLEAN
        /\ r.line = SubSeq(text, at + 1, last)
    <3>1. r.line = SubSeq(text, at + 1, last) /\ r.at = last
      BY <2>1
    <3>2. r.eof <=> last < at + BufferSize - 1
      BY <2>1
    <3>3. r.eof \in BOOLEAN
      <4>1. (last < at + BufferSize - 1) \in BOOLEAN
        OBVIOUS
      <4>2. r.eof = (last < at + BufferSize - 1)
        BY <2>1
      <4> QED  BY <4>1, <4>2, Zenon
    <3> QED  BY <2>2, <3>1, <3>2, <3>3
  <2>4. r.line = << >> => last = at
    <3>1. Len(<< >>) = 0
      OBVIOUS
    <3> QED  BY <1>1, <1>3, <2>3, <3>1
  <2>5. r.eof /\ r.line = << >> => at = n
    BY <1>1, <1>3, <2>3, <2>4
  <2>6. r.line = << >> => r.eof
    BY <1>1, <1>3, <2>3, <2>4
  <2>7. Fits(text) => at = n
    <3> SUFFICES ASSUME Fits(text), at # n PROVE FALSE
      OBVIOUS
    <3>1. at + 1 \in 1 .. n
      BY <1>1
    <3>2. PICK j \in at + 1 .. n : j <= (at + 1) + BufferSize - 2 /\ text[j] = "\n"
      BY <1>1, <3>1 DEF Fits
    <3>3. j \in at + 1 .. last
      BY <1>1, <1>3, <3>2
    <3> QED  BY <1>4, <3>2, <3>3
  <2>8. Fits(text) =>
          /\ r.line = << >> /\ SubSeq(text, at + 1, n) = << >> /\ SubSeq(text, r.at + 1, n) = << >>
    <3> SUFFICES ASSUME Fits(text)
                 PROVE  r.line = << >> /\ SubSeq(text, at + 1, n) = << >>
                        /\ SubSeq(text, r.at + 1, n) = << >>
      OBVIOUS
    <3>1. at = n /\ last = n
      BY <1>1, <1>3, <2>7
    <3>2. SubSeq(text, n + 1, n) = << >>
      <4>1. SubSeq(text, n + 1, n) \in Texts /\ Len(SubSeq(text, n + 1, n)) = 0
        BY <1>1, RestIs
      <4> QED  BY <4>1, EmptySeq DEF Texts
    <3> QED  BY <2>3, <3>1, <3>2
  <2>9. Fits(text) => Tokens(SubSeq(text, at + 1, n)) = Tokens(r.line)
        \o Tokens(SubSeq(text, r.at + 1, n))
    <3>1. Tokens(<< >>) = << >> /\ << >> \o << >> = << >>
      BY NoTokens
    <3> QED  BY <2>8, <3>1
  <2>10. LineFrom(text, at, r)
    <3>1. r.at \in at .. n
      BY <1>1, <1>3, <2>3
    <3>2. Fits(text) => r.line = << >>
      BY <2>8
    <3> HIDE DEF end
    <3> QED  BY <1>1, <2>3, <2>5, <2>6, <2>9, <3>1, <3>2 DEF LineFrom
  <2> QED  BY <2>10 DEF text, r
<1>5. CASE end # {}
  <2>1. /\ i \in at + 1 .. last /\ text[i] \in {"\r", "\n"} /\ i \in Nat /\ i <= n /\ at < i
    <3>1. end \in SUBSET Nat
      BY <1>1
    <3>2. i \in end
      <4> HIDE DEF end
      <4> QED  BY <1>5, <3>1, LeastOf
    <3> HIDE DEF i
    <3> QED  BY <1>1, <1>3, <3>2
  <2>2. r = [line |-> SubSeq(text, at + 1, IF text[i] = "\n" \/ crlf THEN i ELSE i - 1),
             at |-> IF crlf THEN i + 1 ELSE i, eof |-> FALSE]
    BY <1>2, <1>5
  <2> HIDE DEF i, end
  <2>3. /\ SubSeq(text, at + 1, i) \in Texts /\ Len(SubSeq(text, at + 1, i)) = i - at
        /\ SubSeq(text, at + 1, i)[i - at] = text[i]
    <3>1. /\ SubSeq(text, at + 1, i) \in Texts
          /\ Len(SubSeq(text, at + 1, i)) = IF at < i THEN i - at ELSE 0
          /\ \A j \in 1 .. i - at : SubSeq(text, at + 1, i)[j] = text[at + j]
      <4>1. i \in 0 .. Len(text)
        BY <1>1, <2>1
      <4> QED  BY <1>1, <4>1, RestIs
    <3>2. i - at \in 1 .. i - at /\ at + (i - at) = i
      BY <1>1, <2>1
    <3> QED  BY <2>1, <3>1, <3>2
  <2>4. i - at # 0 /\ Len(<< >>) = 0
    BY <1>1, <2>1
  <2>5. Tokens(SubSeq(text, at + 1, n)) = Tokens(SubSeq(text, at + 1, i))
        \o Tokens(SubSeq(text, i + 1, n))
    <3>1. CutsAt(text, at, i, n)
      <4>1. text[i] \in Blanks
        BY <2>1 DEF Blanks
      <4> QED  BY <1>1, <2>1, <4>1, CutAt
    <3> QED  BY <3>1 DEF CutsAt
  <2>6. text[i] \in Blanks
    BY <2>1 DEF Blanks
  <2>7. CASE text[i] = "\n"
    <3>1. ~crlf
      BY <2>7
    <3>2. r.line = SubSeq(text, at + 1, i) /\ r.at = i /\ r.eof = FALSE
      BY <2>2, <2>7, <3>1
    <3>3. r.line # << >> /\ r.line[Len(r.line)] \in Blanks
      BY <2>3, <2>4, <2>6, <3>2
    <3>4. i \in at .. n
      BY <1>1, <2>1
    <3> QED  BY <1>1, <2>3, <2>5, <3>2, <3>3, <3>4 DEF LineFrom, text, n, r
  <2>8. CASE crlf
    <3>1. i + 1 \in at .. n /\ i + 1 \in Nat /\ i < n /\ text[i + 1] = "\n"
      BY <1>1, <2>1, <2>8
    <3>2. r.line = SubSeq(text, at + 1, i) /\ r.at = i + 1 /\ r.eof = FALSE
      BY <2>2, <2>8
    <3>3. r.line # << >> /\ r.line[Len(r.line)] \in Blanks
      BY <2>3, <2>4, <2>6, <3>2
    <3>4. Tokens(SubSeq(text, i + 1, n)) = Tokens(SubSeq(text, (i + 1) + 1, n))
      <4> DEFINE k == i + 1
                 lf == SubSeq(text, i + 1, k)
      <4>1. k \in Nat /\ i < k /\ i <= k /\ k <= n /\ text[k] \in Blanks /\ k - i = 1 /\ i + 1 = k
        BY <1>1, <2>1, <3>1 DEF Blanks
      <4> HIDE DEF k
      <4>2. CutsAt(text, i, k, n)
        BY <1>1, <2>1, <4>1, CutAt
      <4>3. lf \in Texts /\ Len(lf) = 1 /\ lf[1] = text[k]
        <5>1. /\ lf \in Texts /\ Len(lf) = (IF i < k THEN k - i ELSE 0)
              /\ \A j \in 1 .. k - i : lf[j] = text[i + j]
          <6>1. k \in 0 .. Len(text) /\ text \in Texts /\ i \in Nat
            BY <1>1, <2>1, <4>1
          <6> HIDE DEF text
          <6> QED  BY <6>1, RestIs
        <5>2. 1 \in 1 .. k - i /\ i + 1 = k
          BY <4>1
        <5> HIDE DEF lf
        <5> QED  BY <4>1, <5>1, <5>2
      <4>4. Tokens(lf) = << >>
        <5>1. \A j \in 1 .. Len(lf) : lf[j] \in Blanks
          <6> HIDE DEF lf
          <6> QED  BY <4>1, <4>3
        <5> HIDE DEF lf
        <5> QED  BY <4>3, <5>1, BlankTokens
      <4>5. Tokens(SubSeq(text, k + 1, n)) \in Seq(Texts)
        <5>1. SubSeq(text, k + 1, n) \in Texts
          <6>1. n \in 0 .. Len(text)
            BY <1>1
          <6> QED  BY <1>1, <4>1, <6>1, RestIs
        <5> QED  BY <5>1, TokensTyped
      <4>6. << >> \o Tokens(SubSeq(text, k + 1, n)) = Tokens(SubSeq(text, k + 1, n))
        BY <4>5, ConcatEmptySeq
      <4> HIDE DEF lf
      <4>7. Tokens(SubSeq(text, i + 1, n)) = Tokens(lf) \o Tokens(SubSeq(text, k + 1, n))
        BY <4>2 DEF CutsAt, lf
      <4> QED  BY <4>4, <4>6, <4>7 DEF k
    <3> QED  BY <1>1, <2>3, <2>5, <3>1, <3>2, <3>3, <3>4 DEF LineFrom, text, n, r
  <2>9. CASE text[i] # "\n" /\ ~crlf
    <3>1. r.line = SubSeq(text, at + 1, i - 1) /\ r.at = i /\ r.eof = FALSE
      BY <2>2, <2>9
    <3>2. SubSeq(text, at + 1, i - 1) \in Texts
      <4>1. i - 1 \in 0 .. Len(text)
        BY <1>1, <2>1
      <4> QED  BY <1>1, <4>1, RestIs
    <3>3. ~EndsLines(text)
      <4>1. text[i] = "\r" /\ i \in 1 .. n
        BY <1>1, <2>1, <2>9
      <4> QED  BY <1>1, <2>9, <4>1 DEF EndsLines
    <3>4. i \in at .. n
      BY <1>1, <2>1
    <3> QED  BY <1>1, <3>1, <3>2, <3>3, <3>4 DEF LineFrom, text, n, r
  <2> QED  BY <2>1, <2>7, <2>8, <2>9
<1> QED  BY <1>4, <1>5

-----------------------------------------------------------------------------
(* A source by itself, with what there is to read.                         *)

SourceSet ==
  [id : {-1, 0, 3}, blk : Nat, file : Symbols \cup {""}, at : Nat, base : Texts,
   in : Nat, max : Nat, text : Texts, read : Seq(Texts)]

\* What a source with this name and this much read has in its file.
Left(fs, f, at) == IF f = "" THEN << >> ELSE SubSeq(fs[f], at + 1, Len(fs[f]))

\* The keyboard, a string, a block or a file.
Kind(fs, bs, s) ==
  \/ s.id \in {-1, 0} /\ s.blk = 0 /\ s.file = ""
  \/ s.id = 0 /\ s.blk \in DOMAIN bs /\ s.file = ""
  \/ s.id = 3 /\ s.blk = 0 /\ s.file \in DOMAIN fs /\ s.at \in 0 .. Len(fs[s.file])

\* The buffer ends in a blank, and the text is what was taken and what is left.
Right(fs, s) ==
  /\ s.in < s.max => s.base[s.max] \in Blanks
  /\ s.read \o Tokens(Rest(s)) \o Tokens(Left(fs, s.file, s.at)) = Tokens(s.text)

SourceOK(fs, bs, s) ==
  /\ s \in SourceSet /\ Kind(fs, bs, s)
  /\ s.in \in 0 .. Len(s.base) /\ s.max \in 0 .. Len(s.base)
  /\ Tidy => Right(fs, s)

IsKeyboard(s) == s.id = 0 /\ s.blk = 0

\* What there is to read.
ReadOK(fs, bs) == fs \in Library /\ bs \in Volumes

\* What there is to read are texts.
LEMMA ReadIs ==
  ASSUME NEW fs, NEW bs, ReadOK(fs, bs)
  PROVE  /\ DOMAIN fs \subseteq Symbols /\ "" \notin DOMAIN fs
         /\ \A f \in DOMAIN fs : fs[f] \in Texts /\ (Tidy => EndsLines(fs[f]) /\ Fits(fs[f]))
         /\ bs \in Seq(Texts) /\ DOMAIN bs = 1 .. Len(bs)
         /\ \A n \in DOMAIN bs : bs[n] \in Texts /\ (Tidy => EndsBlank(bs[n]))
<1>1. DOMAIN fs \subseteq Symbols /\ \A f \in DOMAIN fs : fs[f] \in Texts
  BY SourcesAssumption DEF ReadOK, Texts
<1>2. "" \notin Symbols
  BY SourcesAssumption
<1>3. bs \in Seq(Texts)
  BY SourcesAssumption DEF ReadOK, Texts
<1>4. DOMAIN bs = 1 .. Len(bs) /\ \A n \in DOMAIN bs : bs[n] \in Texts
  BY <1>3, LenProperties, ElementOfSeq
<1>5. Tidy => \A f \in DOMAIN fs : EndsLines(fs[f]) /\ Fits(fs[f])
  BY DEF Tidy, ReadOK
<1>6. Tidy => \A n \in DOMAIN bs : EndsBlank(bs[n])
  BY DEF Tidy, ReadOK
<1> QED  BY <1>1, <1>2, <1>3, <1>4, <1>5, <1>6

\* Two symbols that are blanks.
LEMMA BlankSymbols == Blanks \subseteq Symbols /\ "nul" \in Blanks /\ << >> \in Texts
<1>1. << >> \in Texts
  BY EmptySeq DEF Texts
<1> QED  BY <1>1, SourcesAssumption DEF Blanks

\* A new source is right if its buffer and its file have its text.
Begins(fs, base, max, text, f, at) ==
  /\ max # 0 => base[max] \in Blanks
  /\ Tokens(SubSeq(base, 1, max)) \o Tokens(Left(fs, f, at)) = Tokens(text)

\* A source whose buffer and file have its text is a source.
LEMMA NewSource ==
  ASSUME NEW fs, NEW bs, NEW s \in SourceSet, Kind(fs, bs, s),
         s.in = 0, s.read = << >>, s.max \in 0 .. Len(s.base),
         Tidy => Begins(fs, s.base, s.max, s.text, s.file, s.at)
  PROVE  SourceOK(fs, bs, s)
<1> DEFINE base == s.base
           max == s.max
<1>1. /\ base \in Texts /\ Len(base) \in Nat /\ max \in Nat /\ s.in = 0 /\ s.read = << >>
      /\ s.base = base /\ s.max = max /\ max \in 0 .. Len(base)
  <2>1. base \in Texts
    BY DEF SourceSet
  <2> QED  BY <2>1, LenProperties DEF Texts
<1> HIDE DEF base, max
<1>4. s.in \in 0 .. Len(s.base) /\ s.max \in 0 .. Len(s.base)
  BY <1>1
<1>5. ASSUME Tidy PROVE Right(fs, s)
  <2> DEFINE r == SubSeq(base, 1, max)
  <2>1. r = Rest(s)
    <3>1. 0 + 1 = 1
      OBVIOUS
    <3> QED  BY <1>1, <3>1 DEF Rest
  <2>2. r \in Texts
    <3>1. 0 + 1 = 1 /\ 0 \in Nat
      OBVIOUS
    <3>2. SubSeq(base, 0 + 1, max) \in Texts
      BY <1>1, <3>1, RestIs
    <3> QED  BY <3>1, <3>2
  <2> HIDE DEF r
  <2>3. Tokens(r) \in Seq(Texts)
    BY <2>2, TokensTyped
  <2>4. << >> \o Tokens(r) = Tokens(r)
    BY <2>3, ConcatEmptySeq
  <2>5. (max # 0 => base[max] \in Blanks)
        /\ Tokens(r) \o Tokens(Left(fs, s.file, s.at)) = Tokens(s.text)
    BY <1>1, <1>5 DEF Begins, r
  <2>6. s.read \o Tokens(Rest(s)) \o Tokens(Left(fs, s.file, s.at)) = Tokens(s.text)
    BY <1>1, <2>1, <2>4, <2>5
  <2>7. s.in < s.max => s.base[s.max] \in Blanks
    BY <1>1, <2>5
  <2> QED  BY <2>6, <2>7 DEF Right
<1> QED  BY <1>4, <1>5 DEF SourceOK

\* A text that is its whole buffer.
LEMMA WholeText ==
  ASSUME NEW fs, NEW t \in Texts
  PROVE  /\ Left(fs, "", 0) = << >> /\ SubSeq(t, 1, Len(t)) = t
         /\ EndsBlank(t) => Begins(fs, t, Len(t), t, "", 0)
<1>1. Len(t) \in Nat /\ t \in Seq(Symbols)
  BY LenProperties DEF Texts
<1>2. SubSeq(t, 1, Len(t)) = t
  BY <1>1, SubSeqFull
<1>3. Left(fs, "", 0) = << >>
  BY DEF Left
<1>4. Tokens(t) \o << >> = Tokens(t)
  <2>1. Tokens(t) \in Seq(Texts)
    BY TokensTyped
  <2> QED  BY <2>1, ConcatEmptySeq
<1>5. Tokens(SubSeq(t, 1, Len(t))) \o Tokens(Left(fs, "", 0)) = Tokens(t)
  BY <1>2, <1>3, <1>4, NoTokens
<1>6. EndsBlank(t) /\ Len(t) # 0 => t[Len(t)] \in Blanks
  <2>1. Len(<< >>) = 0
    OBVIOUS
  <2> QED  BY <2>1 DEF EndsBlank, Last
<1> QED  BY <1>2, <1>3, <1>5, <1>6 DEF Begins

\* A text with the byte behind it.
LEMMA WithEnd ==
  ASSUME NEW t \in Texts
  PROVE  /\ Append(t, "nul") \in Texts /\ Len(t) \in 0 .. Len(Append(t, "nul")) /\ Len(t) \in Nat
         /\ SubSeq(Append(t, "nul"), 1, Len(t)) = t
         /\ \A i \in 1 .. Len(t) : Append(t, "nul")[i] = t[i]
<1>1. Len(t) \in Nat /\ t \in Seq(Symbols) /\ "nul" \in Symbols
  BY LenProperties, BlankSymbols DEF Texts
<1> DEFINE a == Append(t, "nul")
<1>2. a \in Seq(Symbols) /\ Len(a) = Len(t) + 1 /\ \A i \in 1 .. Len(t) : a[i] = t[i]
  BY <1>1, AppendProperties
<1>3. SubSeq(a, 1, Len(t)) = t
  <2>1. \A i \in 1 .. Len(t) : a[i] \in Symbols
    BY <1>1, <1>2, LenProperties
  <2>2. /\ SubSeq(a, 1, Len(t)) \in Seq(Symbols)
        /\ Len(SubSeq(a, 1, Len(t))) = IF 1 <= Len(t) THEN Len(t) - 1 + 1 ELSE 0
        /\ \A i \in 1 .. Len(t) - 1 + 1 : SubSeq(a, 1, Len(t))[i] = a[1 + i - 1]
    <3> DEFINE n == Len(t)
    <3>1. n \in Int /\ 1 \in Int /\ \A i \in 1 .. n : a[i] \in Symbols
      BY <1>1, <2>1
    <3> HIDE DEF a, n
    <3>2. /\ SubSeq(a, 1, n) \in Seq(Symbols)
          /\ Len(SubSeq(a, 1, n)) = IF 1 <= n THEN n - 1 + 1 ELSE 0
          /\ \A i \in 1 .. n - 1 + 1 : SubSeq(a, 1, n)[i] = a[1 + i - 1]
      BY ONLY <3>1, SubSeqProperties
    <3> QED  BY <3>2 DEF n
  <2> DEFINE b == SubSeq(a, 1, Len(t))
  <2> HIDE DEF a, b
  <2>3. Len(b) = Len(t)
    BY <1>1, <2>2 DEF b
  <2>4. \A i \in 1 .. Len(t) : b[i] = t[i]
    <3> SUFFICES ASSUME NEW i \in 1 .. Len(t) PROVE b[i] = t[i]
      OBVIOUS
    <3>1. i \in 1 .. Len(t) - 1 + 1 /\ 1 + i - 1 = i
      BY <1>1
    <3> QED  BY <1>2, <2>2, <3>1 DEF b
  <2>5. b = t
    BY <1>1, <2>2, <2>3, <2>4, SeqEqual DEF b
  <2> QED  BY <2>5 DEF b
<1> HIDE DEF a
<1>4. Len(t) \in 0 .. Len(a)
  BY <1>1, <1>2
<1> QED  BY <1>1, <1>2, <1>3, <1>4 DEF a, Texts

\* A line of the keyboard.
LEMMA KeyboardIs ==
  ASSUME NEW fs, NEW bs, ReadOK(fs, bs), NEW line \in Texts, Tidy => EndsBlank(line)
  PROVE  SourceOK(fs, bs, Keyboard(line)) /\ IsKeyboard(Keyboard(line))
<1> DEFINE a == Append(line, "nul")
           n == Len(line)
           s == Source(0, 0, "", 0, a, n, line)
<1>1. /\ a \in Texts /\ n \in 0 .. Len(a) /\ n \in Nat /\ SubSeq(a, 1, n) = line
      /\ \A i \in 1 .. n : a[i] = line[i]
  BY WithEnd
<1> HIDE DEF a, n
<1>2. Tidy => Begins(fs, a, n, line, "", 0)
  <2>1. SubSeq(line, 1, Len(line)) = line
        /\ (EndsBlank(line) => Begins(fs, line, Len(line), line, "", 0))
    BY WholeText
  <2>2. n # 0 => a[n] = line[n]
    BY <1>1
  <2> QED  BY <1>1, <2>1, <2>2 DEF Begins, n
<1>3. /\ s \in SourceSet /\ s.id = 0 /\ s.blk = 0 /\ s.file = "" /\ s.at = 0 /\ s.base = a
      /\ s.in = 0 /\ s.max = n /\ s.text = line /\ s.read = << >>
  <2>1. << >> \in Seq(Texts) /\ "" \in Symbols \cup {""}
    BY EmptySeq
  <2> QED  BY <1>1, <2>1 DEF Source, SourceSet
<1>4. Kind(fs, bs, s)
  <2> HIDE DEF s
  <2> QED  BY <1>3 DEF Kind
<1>5. SourceOK(fs, bs, s)
  <2> HIDE DEF s
  <2> QED  BY <1>1, <1>2, <1>3, <1>4, NewSource
<1>6. s = Keyboard(line)
  BY DEF Keyboard, a, n
<1> HIDE DEF s
<1>7. IsKeyboard(s)
  BY <1>3 DEF IsKeyboard
<1> QED  BY <1>5, <1>6, <1>7

\* A string that is evaluated.
LEMMA EvaluatedIs ==
  ASSUME NEW fs, NEW bs, ReadOK(fs, bs), NEW t \in Texts, Tidy => EndsBlank(t)
  PROVE  SourceOK(fs, bs, Evaluated(t)) /\ ~IsKeyboard(Evaluated(t))
<1> DEFINE n == Len(t)
           s == Source(-1, 0, "", 0, t, n, t)
<1>1. n \in Nat /\ n \in 0 .. Len(t)
  BY LenProperties DEF Texts
<1>2. Tidy => Begins(fs, t, n, t, "", 0)
  BY WholeText
<1> HIDE DEF n
<1>3. /\ s \in SourceSet /\ s.id = -1 /\ s.blk = 0 /\ s.file = "" /\ s.at = 0 /\ s.base = t
      /\ s.in = 0 /\ s.max = n /\ s.text = t /\ s.read = << >>
  <2>1. << >> \in Seq(Texts) /\ "" \in Symbols \cup {""}
    BY EmptySeq
  <2> QED  BY <1>1, <2>1 DEF Source, SourceSet
<1>4. Kind(fs, bs, s)
  <2> HIDE DEF s
  <2> QED  BY <1>3 DEF Kind
<1>5. SourceOK(fs, bs, s)
  <2> HIDE DEF s
  <2> QED  BY <1>1, <1>2, <1>3, <1>4, NewSource
<1>6. s = Evaluated(t)
  BY DEF Evaluated, n
<1> HIDE DEF s
<1>7. ~IsKeyboard(s)
  <2>1. s.id # 0
    <3>1. -1 # 0
      OBVIOUS
    <3>2. s.id = -1
      BY <1>3
    <3> QED  BY <3>1, <3>2, Zenon
  <2> QED  BY <2>1 DEF IsKeyboard
<1> QED  BY <1>5, <1>6, <1>7

\* A block that is loaded.
LEMMA BlockIs ==
  ASSUME ReadOK(files, blocks), NEW b \in DOMAIN blocks
  PROVE  SourceOK(files, blocks, Block(b)) /\ ~IsKeyboard(Block(b)) /\ b \in Nat \ {0}
<1> DEFINE t == blocks[b]
           n == Len(t)
           s == Source(0, b, "", 0, t, n, t)
<1>0. t \in Texts /\ (Tidy => EndsBlank(t)) /\ b \in Nat \ {0}
  <2>1. DOMAIN blocks = 1 .. Len(blocks) /\ blocks \in Seq(Texts)
    BY ReadIs
  <2>2. \A k \in DOMAIN blocks : blocks[k] \in Texts /\ (Tidy => EndsBlank(blocks[k]))
    BY ReadIs
  <2>3. b \in Nat \ {0}
    BY <2>1, LenProperties
  <2> QED  BY <2>2, <2>3
<1>6. s = Block(b)
  BY DEF Block
<1> HIDE DEF t
<1>1. n \in Nat /\ n \in 0 .. Len(t)
  BY <1>0, LenProperties DEF Texts
<1>2. Tidy => Begins(files, t, n, t, "", 0)
  BY <1>0, WholeText
<1> HIDE DEF n
<1>3. /\ s \in SourceSet /\ s.id = 0 /\ s.blk = b /\ s.file = "" /\ s.at = 0 /\ s.base = t
      /\ s.in = 0 /\ s.max = n /\ s.text = t /\ s.read = << >>
  <2>1. << >> \in Seq(Texts) /\ "" \in Symbols \cup {""}
    BY EmptySeq
  <2> QED  BY <1>0, <1>1, <2>1 DEF Source, SourceSet
<1>4. Kind(files, blocks, s)
  <2> HIDE DEF s
  <2> QED  BY <1>3 DEF Kind
<1>5. SourceOK(files, blocks, s)
  <2> HIDE DEF s
  <2> QED  BY <1>1, <1>2, <1>3, <1>4, NewSource
<1> HIDE DEF s
<1>7. ~IsKeyboard(s)
  <2>1. b # 0
    BY <1>0
  <2> QED  BY <1>3, <2>1 DEF IsKeyboard
<1> QED  BY <1>0, <1>5, <1>6, <1>7

\* t is the same source as s, further on in its buffer.
Like(s, t) ==
  t.id = s.id /\ t.blk = s.blk /\ t.file = s.file /\ t.at = s.at /\ t.text = s.text

\* What a source is made of.
LEMMA SourceParts ==
  ASSUME NEW s \in SourceSet
  PROVE  /\ s.base \in Texts /\ Len(s.base) \in Nat /\ s.in \in Nat /\ s.max \in Nat /\ s.at \in Nat
         /\ s.read \in Seq(Texts) /\ s.text \in Texts /\ s.blk \in Nat
<1>1. s.base \in Texts
  BY DEF SourceSet
<1>2. Len(s.base) \in Nat
  BY <1>1, LenProperties DEF Texts
<1> QED  BY <1>1, <1>2 DEF SourceSet

\* What is left of a buffer is a text.
LEMMA RestTyped ==
  ASSUME NEW s \in SourceSet, s.max \in 0 .. Len(s.base)
  PROVE  /\ Rest(s) \in Texts /\ Tokens(Rest(s)) \in Seq(Texts)
         /\ s.max <= s.in => Rest(s) = << >> /\ Tokens(Rest(s)) = << >>
<1>1. s.base \in Texts /\ s.in \in Nat /\ s.max \in Nat
  BY SourceParts
<1>2. Rest(s) \in Texts /\ Len(Rest(s)) = IF s.in < s.max THEN s.max - s.in ELSE 0
  BY <1>1, RestIs DEF Rest
<1>3. Tokens(Rest(s)) \in Seq(Texts)
  BY <1>2, TokensTyped
<1>4. s.max <= s.in => Rest(s) = << >>
  BY <1>1, <1>2, EmptySeq DEF Texts
<1> QED  BY <1>2, <1>3, <1>4, NoTokens

\* What is left of a file is a text.
LEMMA LeftTyped ==
  ASSUME NEW fs, NEW bs, ReadOK(fs, bs), NEW s \in SourceSet, Kind(fs, bs, s)
  PROVE  Left(fs, s.file, s.at) \in Texts /\ Tokens(Left(fs, s.file, s.at)) \in Seq(Texts)
<1>1. Left(fs, s.file, s.at) \in Texts
  <2>1. CASE s.file = ""
    BY <2>1, BlankSymbols DEF Left
  <2>2. CASE s.file # ""
    <3>1. s.file \in DOMAIN fs /\ s.at \in 0 .. Len(fs[s.file])
      BY <2>2 DEF Kind
    <3>2. fs[s.file] \in Texts
      BY <3>1, ReadIs
    <3> DEFINE t == fs[s.file]
               n == Len(t)
    <3>3. t \in Texts /\ s.at \in Nat
      BY <3>2, SourceParts
    <3>4. Left(fs, s.file, s.at) = SubSeq(t, s.at + 1, n)
      BY <2>2 DEF Left
    <3> HIDE DEF t
    <3>5. n \in 0 .. Len(t)
      BY <3>3, LenProperties DEF Texts
    <3>6. SubSeq(t, s.at + 1, n) \in Texts
      BY <3>3, <3>5, RestIs
    <3> QED  BY <3>4, <3>6
  <2> QED  BY <2>1, <2>2
<1> QED  BY <1>1, TokensTyped

\* The source is as right as before when its tokens are only moved from what is
\* left to what was read.
LEMMA Moved ==
  ASSUME NEW fs, NEW bs, ReadOK(fs, bs), NEW s, SourceOK(fs, bs, s),
         NEW t \in SourceSet, Like(s, t), t.base = s.base, t.max = s.max,
         t.in \in s.in .. Len(s.base), NEW W \in Seq(Texts), t.read = s.read \o W,
         Tidy => Tokens(Rest(s)) = W \o Tokens(Rest(t))
  PROVE  /\ SourceOK(fs, bs, t)
         /\ Tidy => t.read \o Tokens(Rest(t)) = s.read \o Tokens(Rest(s))
<1>1. /\ s \in SourceSet /\ Kind(fs, bs, s) /\ s.in \in Nat /\ s.max \in Nat
         /\ s.max \in 0 .. Len(s.base)
      /\ (Tidy => Right(fs, s)) /\ s.read \in Seq(Texts) /\ s.base \in Texts /\ Len(s.base) \in Nat
  BY SourceParts DEF SourceOK
<1>2. Kind(fs, bs, t) /\ t.in \in 0 .. Len(t.base) /\ t.max \in 0 .. Len(t.base) /\ t.in \in Nat
  <2>1. Kind(fs, bs, t)
    BY <1>1 DEF Kind, Like
  <2> QED  BY <1>1, <2>1
<1>3. Tokens(Rest(t)) \in Seq(Texts) /\ Tokens(Rest(s)) \in Seq(Texts)
  BY <1>1, <1>2, RestTyped
<1>4. Tidy => t.read \o Tokens(Rest(t)) = s.read \o Tokens(Rest(s))
  <2>1. (s.read \o W) \o Tokens(Rest(t)) = s.read \o (W \o Tokens(Rest(t)))
    <3> DEFINE a == s.read
               b == Tokens(Rest(t))
    <3>1. a \in Seq(Texts) /\ b \in Seq(Texts)
      BY <1>1, <1>3
    <3> HIDE DEF a, b
    <3>2. (a \o W) \o b = a \o (W \o b)
      BY <3>1, ConcatAssociative
    <3> QED  BY <3>2 DEF a, b
  <2> QED  BY <2>1
<1>5. ASSUME Tidy PROVE Right(fs, t)
  <2>1. s.in < s.max => s.base[s.max] \in Blanks
    BY <1>1, <1>5 DEF Right
  <2>2. t.in < t.max => t.base[t.max] \in Blanks
    <3>1. t.in < t.max => s.in < s.max
      BY <1>1, <1>2
    <3> QED  BY <2>1, <3>1
  <2>3. s.read \o Tokens(Rest(s)) \o Tokens(Left(fs, s.file, s.at)) = Tokens(s.text)
    BY <1>1, <1>5 DEF Right
  <2>4. t.file = s.file /\ t.at = s.at /\ t.text = s.text
    BY DEF Like
  <2>5. t.read \o Tokens(Rest(t)) \o Tokens(Left(fs, t.file, t.at)) = Tokens(t.text)
    BY <1>4, <1>5, <2>3, <2>4
  <2> QED  BY <2>2, <2>5 DEF Right
<1> QED  BY <1>2, <1>4, <1>5 DEF SourceOK

\* A source behind a token.
LEMMA BehindIs ==
  ASSUME NEW s \in SourceSet, NEW n \in Nat, NEW w \in Texts
  PROVE  LET t == Behind(s, n, w)
         IN  /\ t \in SourceSet /\ Like(s, t) /\ t.base = s.base /\ t.max = s.max
             /\ t.in = s.in + n /\ t.read = s.read \o << w >>
<1>1. Append(s.read, w) = s.read \o << w >> /\ Append(s.read, w) \in Seq(Texts)
  <2>1. s.read \in Seq(Texts)
    BY SourceParts
  <2> QED  BY <2>1, AppendProperties, AppendIsConcat
<1>2. s.in + n \in Nat
  BY SourceParts
<1> QED  BY <1>1, <1>2 DEF Behind, SourceSet, Like

\* What NextToken says of a source.
Took(fs, bs, s, r) ==
  /\ SourceOK(fs, bs, r.source) /\ Like(s, r.source) /\ r.token \in Texts
  /\ r.token # << >> => r.source.in <= r.source.max
  /\ Tidy => r.source.read \o Tokens(Rest(r.source)) = s.read \o Tokens(Rest(s))
  /\ Tidy /\ r.token = << >> => /\ r.source.read = s.read /\ Tokens(Rest(s)) = << >>
                                /\ Tokens(Rest(r.source)) = << >>

\* Whatever NextToken finds, no token is lost.
LEMMA TokenIs ==
  ASSUME NEW fs, NEW bs, ReadOK(fs, bs), NEW s, SourceOK(fs, bs, s)
  PROVE  Took(fs, bs, s, NextToken(s))
<1> DEFINE r == NextToken(s)
<1>1. /\ s \in SourceSet /\ s.in \in Nat /\ s.max \in Nat /\ s.max \in 0 .. Len(s.base)
      /\ s.in \in 0 .. Len(s.base)
      /\ (Tidy => Right(fs, s)) /\ s.read \in Seq(Texts) /\ s.base \in Texts /\ Len(s.base) \in Nat
  BY SourceParts DEF SourceOK
<1>2. Buffered(s)
  BY <1>1 DEF Buffered
<1>3. CASE NoneFound(s)
  <2> DEFINE t == r.source
  <2>1. r.token = << >> /\ t = (IF s.in < s.max THEN [s EXCEPT !.in = s.max] ELSE s)
    BY <1>3 DEF NoneFound, NoToken
  <2> HIDE DEF t
  <2>2. /\ t \in SourceSet /\ Like(s, t) /\ t.base = s.base /\ t.max = s.max /\ t.read = s.read
        /\ t.in = IF s.in < s.max THEN s.max ELSE s.in
    <3>1. CASE s.in < s.max
      BY <1>1, <2>1, <3>1 DEF SourceSet, Like
    <3>2. CASE ~(s.in < s.max)
      BY <1>1, <2>1, <3>2 DEF Like
    <3> QED  BY <3>1, <3>2
  <2>3. t.in \in s.in .. Len(s.base) /\ t.max <= t.in /\ t.max \in 0 .. Len(t.base)
    BY <1>1, <2>2
  <2>4. Tokens(Rest(t)) = << >>
    BY <2>2, <2>3, RestTyped
  <2>5. ASSUME Tidy PROVE Tokens(Rest(s)) = << >>
    <3>1. EndsBlank(Rest(s))
      <4>1. CASE s.max <= s.in
        BY <1>1, <4>1, RestTyped DEF EndsBlank
      <4>2. CASE s.in < s.max
        <5>1. s.base[s.max] \in Blanks
          BY <1>1, <2>5, <4>2 DEF Right
        <5>2. /\ Len(Rest(s)) = s.max - s.in
              /\ \A j \in 1 .. s.max - s.in : Rest(s)[j] = s.base[s.in + j]
          BY <1>1, <4>2, RestIs DEF Rest
        <5>3. s.max - s.in \in 1 .. s.max - s.in /\ s.in + (s.max - s.in) = s.max
          BY <1>1, <4>2
        <5>4. Rest(s)[Len(Rest(s))] \in Blanks
          BY <5>1, <5>2, <5>3
        <5> QED  BY <5>4 DEF EndsBlank, Last
      <4> QED  BY <1>1, <4>1, <4>2
    <3> QED  BY <1>3, <3>1 DEF NoneFound
  <2>6. << >> \in Seq(Texts) /\ s.read \o << >> = s.read /\ << >> \o << >> = << >>
    BY <1>1, EmptySeq, ConcatEmptySeq
  <2>7. t.read = s.read \o << >> /\ (Tidy => Tokens(Rest(s)) = << >> \o Tokens(Rest(t)))
    BY <2>2, <2>4, <2>5, <2>6
  <2>8. SourceOK(fs, bs, t) /\ (Tidy => t.read \o Tokens(Rest(t)) = s.read \o Tokens(Rest(s)))
    BY <2>2, <2>3, <2>6, <2>7, Moved
  <2>9. r.token \in Texts
    BY <2>1, BlankSymbols
  <2> HIDE DEF r
  <2> QED  BY <2>1, <2>2, <2>4, <2>5, <2>8, <2>9 DEF Took, t, r
<1>4. ASSUME NEW e \in s.in + 1 .. s.max, NEW w \in Texts \ {<< >>}, Found(s, e, w)
      PROVE  Took(fs, bs, s, r)
  <2> DEFINE t == r.source
  <2>1. r.token = w /\ t = Behind(s, e - s.in, w) /\ w \in Texts /\ w # << >>
    BY <1>4 DEF Found
  <2> HIDE DEF t
  <2>2. e \in Nat /\ e - s.in \in Nat /\ s.in + (e - s.in) = e /\ e <= s.max /\ s.in <= e
    BY <1>1
  <2>3. /\ t \in SourceSet /\ Like(s, t) /\ t.base = s.base /\ t.max = s.max
        /\ t.in = s.in + (e - s.in) /\ t.read = s.read \o << w >>
    <3> DEFINE n == e - s.in
    <3>1. n \in Nat
      BY <2>2
    <3> HIDE DEF n
    <3>2. LET u == Behind(s, n, w)
          IN  /\ u \in SourceSet /\ Like(s, u) /\ u.base = s.base /\ u.max = s.max
              /\ u.in = s.in + n /\ u.read = s.read \o << w >>
      BY <1>1, <3>1, BehindIs
    <3> QED  BY <2>1, <3>2 DEF n
  <2>4. t.in = e /\ t.in \in s.in .. Len(s.base) /\ t.in <= t.max
    BY <1>1, <2>2, <2>3
  <2>5. Tokens(Rest(s)) = << w >> \o Tokens(Rest(t))
    BY <1>4, <2>3, <2>4 DEF Found, Rest
  <2>6. << w >> \in Seq(Texts)
    BY <2>1
  <2>7. SourceOK(fs, bs, t) /\ (Tidy => t.read \o Tokens(Rest(t)) = s.read \o Tokens(Rest(s)))
    BY <2>3, <2>4, <2>5, <2>6, Moved
  <2> HIDE DEF r
  <2> QED  BY <2>1, <2>3, <2>4, <2>7 DEF Took, t
<1>5. \/ NoneFound(s)
      \/ \E e \in s.in + 1 .. s.max, w \in Texts \ {<< >>} : Found(s, e, w)
  BY <1>2, TokenFound
<1> QED  BY <1>3, <1>4, <1>5

\* The length of a text.
LEMMA LenNat ==
  ASSUME NEW t \in Texts
  PROVE  Len(t) \in Nat /\ 0 \in 0 .. Len(t) /\ Len(t) \in 0 .. Len(t)
<1>1. Len(t) \in Nat
  BY LenProperties DEF Texts
<1> QED  BY <1>1

\* The file of a source, and its next line.
LEMMA FileIs ==
  ASSUME ReadOK(files, blocks), NEW s, SourceOK(files, blocks, s), s.id = 3
  PROVE  LET text == files[s.file]
         IN  /\ s.file \in DOMAIN files /\ s.file # "" /\ text \in Texts /\ s.at \in 0 .. Len(text)
             /\ s.blk = 0 /\ (Tidy => EndsLines(text) /\ Fits(text))
             /\ LineFrom(text, s.at, FileLine(s.file, s.at))
<1>1. s.file \in DOMAIN files /\ s.at \in 0 .. Len(files[s.file]) /\ s.blk = 0
  BY DEF SourceOK, Kind
<1>2. s.file # "" /\ files[s.file] \in Texts
      /\ (Tidy => EndsLines(files[s.file]) /\ Fits(files[s.file]))
  <2>1. "" \notin DOMAIN files
    BY ReadIs
  <2>2. \A f \in DOMAIN files : files[f] \in Texts
        /\ (Tidy => EndsLines(files[f]) /\ Fits(files[f]))
    BY ReadIs
  <2> QED  BY <1>1, <2>1, <2>2
<1>3. LineFrom(files[s.file], s.at, FileLine(s.file, s.at))
  BY <1>1, <1>2, LineIs
<1> QED  BY <1>1, <1>2, <1>3

\* At the end of a file nothing of its text is left.
LEMMA FileEndIs ==
  ASSUME ReadOK(files, blocks), NEW s, SourceOK(files, blocks, s), s.id = 3,
         FileLine(s.file, s.at).eof, FileLine(s.file, s.at).line = << >>
  PROVE  Tokens(Left(files, s.file, s.at)) = << >>
<1> DEFINE text == files[s.file]
<1>1. s.file # "" /\ text \in Texts /\ LineFrom(text, s.at, FileLine(s.file, s.at))
  BY FileIs
<1>2. s.at = Len(text)
  BY <1>1 DEF LineFrom
<1>3. Left(files, s.file, s.at) = SubSeq(text, Len(text) + 1, Len(text))
  BY <1>1, <1>2 DEF Left
<1> HIDE DEF text
<1>4. SubSeq(text, Len(text) + 1, Len(text)) = << >>
  <2> DEFINE n == Len(text)
  <2>1. n \in Nat /\ n \in 0 .. Len(text)
    BY <1>1, LenNat
  <2> HIDE DEF n
  <2>2. SubSeq(text, n + 1, n) \in Texts /\ Len(SubSeq(text, n + 1, n)) = IF n < n THEN n - n ELSE 0
    BY <1>1, <2>1, RestIs
  <2>3. SubSeq(text, n + 1, n) = << >>
    BY <2>1, <2>2, EmptySeq DEF Texts
  <2> QED  BY <2>3 DEF n
<1> QED  BY <1>3, <1>4, NoTokens

\* With the next line of its file a source is a source.
LEMMA NextLineIs ==
  ASSUME ReadOK(files, blocks), NEW s, SourceOK(files, blocks, s), s.id = 3
  PROVE  SourceOK(files, blocks, NextLine(s)) /\ NextLine(s).id = 3
<1> DEFINE r == FileLine(s.file, s.at)
           t == NextLine(s)
           text == files[s.file]
           a == Append(r.line, "nul")
           n == Len(r.line)
           W == Tokens(Rest(s))
<1>1. /\ s \in SourceSet /\ Kind(files, blocks, s) /\ s.max \in 0 .. Len(s.base)
      /\ (Tidy => Right(files, s)) /\ s.read \in Seq(Texts)
  BY SourceParts DEF SourceOK
<1>2. /\ s.file \in DOMAIN files /\ s.file # "" /\ text \in Texts /\ s.at \in 0 .. Len(text)
      /\ s.blk = 0 /\ (Tidy => EndsLines(text) /\ Fits(text)) /\ LineFrom(text, s.at, r)
  BY FileIs
<1>3. t = [s EXCEPT !.base = a, !.at = r.at, !.in = 0, !.max = n, !.read = s.read \o W]
  BY DEF NextLine
<1>4. W \in Seq(Texts)
  BY <1>1, RestTyped
<1> HIDE DEF r, t, text
<1>5. r.line \in Texts /\ r.at \in s.at .. Len(text)
  BY <1>2 DEF LineFrom
<1>6. /\ a \in Texts /\ n \in 0 .. Len(a) /\ n \in Nat /\ SubSeq(a, 1, n) = r.line
      /\ \A i \in 1 .. n : a[i] = r.line[i]
  <2> DEFINE line == r.line
  <2>1. line \in Texts
    BY <1>5
  <2> HIDE DEF line
  <2>2. /\ Append(line, "nul") \in Texts /\ Len(line) \in 0 .. Len(Append(line, "nul"))
           /\ Len(line) \in Nat
        /\ SubSeq(Append(line, "nul"), 1, Len(line)) = line
        /\ \A i \in 1 .. Len(line) : Append(line, "nul")[i] = line[i]
    BY <2>1, WithEnd
  <2> QED  BY <2>2 DEF line
<1>7. r.at \in Nat /\ s.read \o W \in Seq(Texts)
  <2>1. Len(text) \in Nat /\ s.at \in Nat
    BY <1>1, <1>2, LenNat, SourceParts
  <2> QED  BY <1>1, <1>4, <1>5, <2>1, ConcatProperties
<1> HIDE DEF a, n, W
<1>8. /\ t \in SourceSet /\ t.id = 3 /\ t.blk = 0 /\ t.file = s.file /\ t.at = r.at /\ t.base = a
      /\ t.in = 0 /\ t.max = n /\ t.read = s.read \o W /\ t.text = s.text
  BY <1>1, <1>2, <1>3, <1>6, <1>7 DEF SourceSet
<1>9. Kind(files, blocks, t)
  <2>1. t.at \in 0 .. Len(files[t.file])
    <3>1. Len(text) \in Nat /\ s.at \in Nat
      BY <1>1, <1>2, LenNat, SourceParts
    <3>2. r.at \in 0 .. Len(text)
      BY <1>5, <3>1
    <3> QED  BY <1>8, <3>2 DEF text
  <2> QED  BY <1>2, <1>8, <2>1 DEF Kind
<1>10. t.in \in 0 .. Len(t.base) /\ t.max \in 0 .. Len(t.base)
  BY <1>6, <1>8
<1>11. ASSUME Tidy PROVE Right(files, t)
  <2>1. EndsLines(text) /\ Fits(text)
    BY <1>2, <1>11
  <2>2. /\ r.line # << >> => r.line[Len(r.line)] \in Blanks
        /\ Tokens(SubSeq(text, s.at + 1, Len(text)))
             = Tokens(r.line) \o Tokens(SubSeq(text, r.at + 1, Len(text)))
    BY <1>2, <2>1 DEF LineFrom
  <2>3. t.in < t.max => t.base[t.max] \in Blanks
    <3> SUFFICES ASSUME t.in < t.max PROVE t.base[t.max] \in Blanks
      OBVIOUS
    <3>1. n \in 1 .. n /\ n # 0
      BY <1>6, <1>8
    <3>2. r.line # << >>
      <4>1. Len(<< >>) = 0
        OBVIOUS
      <4> QED  BY <3>1, <4>1 DEF n
    <3>3. a[n] = r.line[n]
      BY <1>6, <3>1
    <3> QED  BY <1>8, <2>2, <3>2, <3>3 DEF n
  <2>4. Rest(t) = r.line
    <3>1. 0 + 1 = 1
      OBVIOUS
    <3> QED  BY <1>6, <1>8, <3>1 DEF Rest
  <2> DEFINE Z == Tokens(r.line)
             Y == Tokens(SubSeq(text, r.at + 1, Len(text)))
  <2>5. /\ Left(files, s.file, s.at) = SubSeq(text, s.at + 1, Len(text))
        /\ Left(files, t.file, t.at) = SubSeq(text, r.at + 1, Len(text))
    BY <1>2, <1>8 DEF Left, text
  <2>6. Z \in Seq(Texts) /\ Y \in Seq(Texts)
    <3>1. Z \in Seq(Texts)
      BY <1>5, TokensTyped
    <3>2. Tokens(Left(files, t.file, t.at)) \in Seq(Texts)
      BY <1>8, <1>9, LeftTyped
    <3> QED  BY <2>5, <3>1, <3>2
  <2>7. s.read \o W \o Tokens(Left(files, s.file, s.at)) = Tokens(s.text)
    BY <1>1, <1>11 DEF Right, W
  <2>8. Tokens(Left(files, s.file, s.at)) = Z \o Y
    BY <2>2, <2>5
  <2>9. Tokens(Left(files, t.file, t.at)) = Y
    BY <2>5
  <2> HIDE DEF Z, Y
  <2>10. ((s.read \o W) \o Z) \o Y = (s.read \o W) \o (Z \o Y)
    <3> DEFINE b == s.read \o W
    <3>1. b \in Seq(Texts)
      BY <1>7
    <3> HIDE DEF b
    <3>2. (b \o Z) \o Y = b \o (Z \o Y)
      BY <2>6, <3>1, ConcatAssociative
    <3> QED  BY <3>2 DEF b
  <2>11. Tokens(Rest(t)) = Z
    BY <2>4 DEF Z
  <2>12. t.read \o Tokens(Rest(t)) \o Tokens(Left(files, t.file, t.at)) = Tokens(t.text)
    BY <1>8, <2>7, <2>8, <2>9, <2>10, <2>11
  <2> QED  BY <2>3, <2>12 DEF Right
<1>12. SourceOK(files, blocks, t)
  BY <1>8, <1>9, <1>10, <1>11 DEF SourceOK
<1> QED  BY <1>8, <1>12 DEF t

\* The source of a file, with its first line.
Opened(f) ==
  LET r == FileLine(f, 0)
  IN  Source(3, 0, f, r.at, Append(r.line, "nul"), Len(r.line), files[f])

\* The source of a file that is opened.
LEMMA OpenedIs ==
  ASSUME ReadOK(files, blocks), NEW f \in DOMAIN files
  PROVE  /\ SourceOK(files, blocks, Opened(f)) /\ Opened(f).id = 3
         /\ Opened(f).max = Len(FileLine(f, 0).line)
<1> DEFINE text == files[f]
           r == FileLine(f, 0)
           at == r.at
           line == r.line
           a == Append(line, "nul")
           n == Len(line)
           s == Source(3, 0, f, at, a, n, text)
<1>1. f \in Symbols /\ f # "" /\ text \in Texts /\ (Tidy => EndsLines(text) /\ Fits(text))
  <2>1. DOMAIN files \subseteq Symbols /\ "" \notin DOMAIN files
    BY ReadIs
  <2>2. \A g \in DOMAIN files : files[g] \in Texts
        /\ (Tidy => EndsLines(files[g]) /\ Fits(files[g]))
    BY ReadIs
  <2> QED  BY <2>1, <2>2
<1>2. Len(text) \in Nat /\ 0 \in 0 .. Len(text)
  BY <1>1, LenNat
<1>3. LineFrom(text, 0, r)
  BY <1>1, <1>2, LineIs
<1>4. s = Opened(f)
  BY DEF Opened
<1> HIDE DEF r
<1>5. line \in Texts /\ at \in 0 .. Len(text) /\ at \in Nat
  <2> HIDE DEF text
  <2> QED  BY <1>2, <1>3 DEF LineFrom
<1> HIDE DEF text, line, at
<1>6. /\ a \in Texts /\ n \in 0 .. Len(a) /\ n \in Nat /\ SubSeq(a, 1, n) = line
      /\ \A i \in 1 .. n : a[i] = line[i]
  BY <1>5, WithEnd
<1> HIDE DEF a, n
<1>7. /\ s \in SourceSet /\ s.id = 3 /\ s.blk = 0 /\ s.file = f /\ s.at = at /\ s.base = a
      /\ s.in = 0 /\ s.max = n /\ s.text = text /\ s.read = << >>
  <2>1. << >> \in Seq(Texts)
    BY EmptySeq
  <2> QED  BY <1>1, <1>5, <1>6, <2>1 DEF Source, SourceSet
<1> HIDE DEF s
<1>8. Kind(files, blocks, s)
  BY <1>5, <1>7 DEF Kind, text
<1>9. ASSUME Tidy PROVE Begins(files, a, n, text, f, at)
  <2>1. /\ line # << >> => line[Len(line)] \in Blanks
        /\ Tokens(SubSeq(text, 0 + 1, Len(text))) = Tokens(line)
           \o Tokens(SubSeq(text, at + 1, Len(text)))
    BY <1>1, <1>3, <1>9 DEF LineFrom, line, at
  <2>2. SubSeq(text, 0 + 1, Len(text)) = text
    <3>1. 0 + 1 = 1
      OBVIOUS
    <3>2. SubSeq(text, 1, Len(text)) = text
      BY <1>1, WholeText
    <3> QED  BY <3>1, <3>2
  <2>3. n # 0 => a[n] \in Blanks
    <3> SUFFICES ASSUME n # 0 PROVE a[n] \in Blanks
      OBVIOUS
    <3>1. n \in 1 .. n
      BY <1>6
    <3>2. line # << >>
      <4>1. Len(<< >>) = 0
        OBVIOUS
      <4> QED  BY <4>1 DEF n
    <3>3. a[n] = line[n]
      BY <1>6, <3>1
    <3> QED  BY <2>1, <3>2, <3>3 DEF n
  <2>4. Left(files, f, at) = SubSeq(text, at + 1, Len(text))
    BY <1>1 DEF Left, text
  <2> QED  BY <1>6, <2>1, <2>2, <2>3, <2>4 DEF Begins
<1>10. SourceOK(files, blocks, s)
  BY <1>6, <1>7, <1>8, <1>9, NewSource
<1> QED  BY <1>4, <1>7, <1>10 DEF n, line, r

\* A source of which W, up to `last`, was passed over.
LEMMA SkippedIs ==
  ASSUME NEW fs, NEW bs, ReadOK(fs, bs), NEW s, SourceOK(fs, bs, s),
         NEW last \in s.in .. s.max, last = s.max \/ s.base[last] \in Blanks
  PROVE  LET t == [s EXCEPT !.in = last, !.read = @ \o Tokens(SubSeq(s.base, s.in + 1, last))]
         IN  SourceOK(fs, bs, t) /\ Like(s, t)
<1> DEFINE W == Tokens(SubSeq(s.base, s.in + 1, last))
           t == [s EXCEPT !.in = last, !.read = s.read \o W]
<1>1. /\ s \in SourceSet /\ s.in \in Nat /\ s.max \in Nat /\ s.max \in 0 .. Len(s.base)
      /\ (Tidy => Right(fs, s)) /\ s.read \in Seq(Texts) /\ s.base \in Texts /\ Len(s.base) \in Nat
  BY SourceParts DEF SourceOK
<1>2. last \in Nat /\ s.in <= last /\ last <= s.max /\ s.max <= Len(s.base)
      /\ last \in 0 .. Len(s.base)
  BY <1>1
<1>3. SubSeq(s.base, s.in + 1, last) \in Texts
  BY <1>1, <1>2, RestIs
<1>4. W \in Seq(Texts)
  BY <1>3, TokensTyped
<1>5. s.read \o W \in Seq(Texts)
  BY <1>1, <1>4, ConcatProperties
<1> HIDE DEF W
<1>6. /\ t \in SourceSet /\ Like(s, t) /\ t.base = s.base /\ t.max = s.max /\ t.in = last
      /\ t.read = s.read \o W
  BY <1>1, <1>2, <1>5 DEF SourceSet, Like
<1> HIDE DEF t
<1>7. ASSUME Tidy PROVE Tokens(Rest(s)) = W \o Tokens(Rest(t))
  <2>1. s.in < last => s.base[last] \in Blanks
    <3>1. s.in < s.max => s.base[s.max] \in Blanks
      BY <1>1, <1>7 DEF Right
    <3> QED  BY <1>1, <1>2, <3>1
  <2> DEFINE b == s.base
             i == s.in
             m == s.max
  <2>2. /\ b \in Texts /\ i \in Nat /\ last \in Nat /\ m \in Nat /\ i <= last /\ last <= m
        /\ m <= Len(b) /\ (i < last => b[last] \in Blanks)
    BY <1>1, <1>2, <2>1
  <2>3. /\ Rest(s) = SubSeq(b, i + 1, m) /\ Rest(t) = SubSeq(b, last + 1, m)
        /\ W = Tokens(SubSeq(b, i + 1, last))
    BY <1>6 DEF Rest, W
  <2> HIDE DEF b, i, m
  <2>4. CutsAt(b, i, last, m)
    BY <2>2, CutAt
  <2> QED  BY <2>3, <2>4 DEF CutsAt
<1>8. t.in \in s.in .. Len(s.base)
  BY <1>1, <1>2, <1>6
<1>9. SourceOK(fs, bs, t)
  BY <1>4, <1>6, <1>7, <1>8, Moved
<1> QED  BY <1>6, <1>9 DEF t, W

\* The keyboard without its line.
Blanked(s) ==
  [s EXCEPT !.max = 0, !.text = << >>, !.read = << >>, !.base = [i \in DOMAIN @ |-> "nul"]]

\* The keyboard stays the keyboard.
LEMMA BlankedIs ==
  ASSUME NEW fs, NEW bs, ReadOK(fs, bs), NEW s, SourceOK(fs, bs, s), IsKeyboard(s)
  PROVE  SourceOK(fs, bs, Blanked(s)) /\ IsKeyboard(Blanked(s))
<1> DEFINE t == Blanked(s)
           a == [i \in DOMAIN s.base |-> "nul"]
<1>1. s \in SourceSet /\ Kind(fs, bs, s) /\ s.in \in 0 .. Len(s.base) /\ s.base \in Texts
      /\ Len(s.base) \in Nat /\ s.in \in Nat
  BY SourceParts DEF SourceOK
<1>2. DOMAIN s.base = 1 .. Len(s.base)
  BY <1>1, LenProperties DEF Texts
<1>3. a \in Texts /\ Len(a) = Len(s.base)
  <2>1. "nul" \in Symbols
    BY BlankSymbols
  <2>2. a \in [1 .. Len(s.base) -> Symbols]
    BY <1>2, <2>1
  <2> HIDE DEF a
  <2>3. a \in Seq(Symbols)
    BY <1>1, <2>2, IsASeq
  <2>4. Len(a) = Len(s.base)
    BY <1>1, <2>2, <2>3, LenProperties
  <2> QED  BY <2>3, <2>4 DEF Texts
<1>4. << >> \in Seq(Texts) /\ << >> \in Texts
  BY EmptySeq, BlankSymbols
<1>5. t = [s EXCEPT !.max = 0, !.text = << >>, !.read = << >>, !.base = a]
  BY DEF Blanked
<1> HIDE DEF a, t
<1>6. /\ t \in SourceSet /\ t.id = s.id /\ t.blk = s.blk /\ t.file = s.file /\ t.at = s.at
      /\ t.base = a /\ t.in = s.in /\ t.max = 0 /\ t.text = << >> /\ t.read = << >>
  BY <1>1, <1>3, <1>4, <1>5 DEF SourceSet
<1>7. Kind(fs, bs, t) /\ IsKeyboard(t)
  BY <1>1, <1>6 DEF Kind, IsKeyboard
<1>8. t.in \in 0 .. Len(t.base) /\ t.max \in 0 .. Len(t.base)
  BY <1>1, <1>3, <1>6
<1>9. Right(fs, t)
  <2>1. t.file = ""
    <3>1. 3 # 0
      OBVIOUS
    <3>2. s.id # 3
      BY <3>1 DEF IsKeyboard
    <3> QED  BY <1>1, <1>6, <3>2 DEF Kind
  <2>2. Left(fs, t.file, t.at) = << >>
    BY <2>1 DEF Left
  <2>3. Tokens(Rest(t)) = << >>
    <3>1. t.max <= t.in
      BY <1>1, <1>6
    <3> QED  BY <1>6, <1>8, <3>1, RestTyped
  <2>4. << >> \o << >> = << >>
    BY EmptySeq, ConcatEmptySeq
  <2>5. ~(t.in < t.max)
    BY <1>1, <1>6
  <2>6. t.read \o Tokens(Rest(t)) \o Tokens(Left(fs, t.file, t.at)) = Tokens(t.text)
    BY <1>6, <2>2, <2>3, <2>4, NoTokens
  <2> QED  BY <2>5, <2>6 DEF Right
<1>10. SourceOK(fs, bs, t)
  BY <1>6, <1>7, <1>8, <1>9 DEF SourceOK
<1> QED  BY <1>7, <1>10 DEF t

-----------------------------------------------------------------------------
(* The state a word works on.                                              *)

StringCells == {<<"addr", t>> : t \in {u \in Texts : Tidy => EndsBlank(u)}}
Cells == ({"number"} \X Int) \cup StringCells \cup {Length}

States == [sources : Seq(SourceSet), stack : Seq(Cells), c00 : Cells]

SourcesOK(fs, bs, q) ==
  /\ q \in Seq(SourceSet) /\ Len(q) \in 1 .. Capacity
  /\ \A i \in 1 .. Len(q) : SourceOK(fs, bs, q[i]) /\ (IsKeyboard(q[i]) <=> i = 1)

StackOK(q) == q \in Seq(Cells) /\ Len(q) <= Limit

Good(fs, bs, m) == m \in States /\ SourcesOK(fs, bs, m.sources) /\ StackOK(m.stack)

\* A sequence without its last element.
LEMMA FrontIs ==
  ASSUME NEW S, NEW q \in Seq(S), q # << >>
  PROVE  /\ Front(q) \in Seq(S) /\ Len(Front(q)) = Len(q) - 1 /\ Len(q) \in Nat \ {0}
         /\ \A i \in 1 .. Len(q) - 1 : Front(q)[i] = q[i]
         /\ Last(q) \in S /\ Last(q) = q[Len(q)]
<1> DEFINE n == Len(q) - 1
           f == SubSeq(q, 1, n)
<1>1. Len(q) \in Nat \ {0}
  BY EmptySeq
<1>2. \A i \in 1 .. Len(q) : q[i] \in S
  BY <1>1, ElementOfSeq
<1>3. n \in Nat /\ Len(q) = n + 1
  BY <1>1
<1>4. \A i \in 1 .. n : q[i] \in S
  BY <1>2, <1>3
<1> HIDE DEF n
<1>5. /\ f \in Seq(S) /\ Len(f) = IF 1 <= n THEN n - 1 + 1 ELSE 0
      /\ \A i \in 1 .. n - 1 + 1 : f[i] = q[1 + i - 1]
  <2>1. n \in Int /\ 1 \in Int
    BY <1>3
  <2> QED  BY ONLY <1>4, <2>1, SubSeqProperties
<1> HIDE DEF f
<1>6. Len(f) = n /\ \A i \in 1 .. n : f[i] = q[i]
  BY <1>3, <1>5
<1>7. Front(q) = f
  BY DEF Front, f, n
<1>8. Last(q) = q[Len(q)] /\ Last(q) \in S
  BY <1>1, <1>2 DEF Last
<1> QED  BY <1>1, <1>5, <1>6, <1>7, <1>8 DEF n

\* The bounds.
LEMMA SizesAre ==
  Capacity \in Nat \ {0} /\ Limit \in Nat /\ Limit > 1 /\ MaxLines \in Nat
<1>1. Capacity \in Nat \ {0}
  BY SourcesAssumption
<1>2. Limit \in Nat \ {0, 1}
  BY SourcesAssumption
<1>3. MaxLines \in Nat
  BY SourcesAssumption
<1> QED  BY <1>1, <1>2, <1>3

\* The current source.
LEMMA CurrentIs ==
  ASSUME NEW fs, NEW bs, NEW q, SourcesOK(fs, bs, q)
  PROVE  /\ q \in Seq(SourceSet) /\ q # << >> /\ Len(q) \in Nat \ {0} /\ Len(q) <= Capacity
         /\ SourceOK(fs, bs, Last(q)) /\ (IsKeyboard(Last(q)) <=> Len(q) = 1)
         /\ Last(q) = q[Len(q)]
<1>1. q \in Seq(SourceSet) /\ Len(q) \in 1 .. Capacity /\ Capacity \in Nat
  BY SourcesAssumption DEF SourcesOK
<1>2. Len(q) \in Nat \ {0} /\ Len(q) <= Capacity /\ Len(q) \in 1 .. Len(q)
  BY <1>1
<1>3. q # << >>
  BY <1>2
<1>4. Last(q) = q[Len(q)]
  BY DEF Last
<1> QED  BY <1>1, <1>2, <1>3, <1>4 DEF SourcesOK

\* A source that becomes another one of its kind.
LEMMA ReplacedIs ==
  ASSUME NEW fs, NEW bs, NEW q, SourcesOK(fs, bs, q), NEW i \in 1 .. Len(q), NEW s,
         SourceOK(fs, bs, s), IsKeyboard(s) <=> IsKeyboard(q[i])
  PROVE  /\ SourcesOK(fs, bs, [q EXCEPT ![i] = s]) /\ Len([q EXCEPT ![i] = s]) = Len(q)
         /\ [q EXCEPT ![i] = s][i] = s
         /\ \A j \in 1 .. Len(q) : j # i => [q EXCEPT ![i] = s][j] = q[j]
<1> DEFINE p == [q EXCEPT ![i] = s]
<1>1. q \in Seq(SourceSet) /\ s \in SourceSet
  BY DEF SourcesOK, SourceOK
<1>2. p \in Seq(SourceSet) /\ Len(p) = Len(q)
      /\ \A j \in 1 .. Len(q) : p[j] = IF j = i THEN s ELSE q[j]
  BY <1>1, ExceptSeq
<1> HIDE DEF p
<1>3. \A j \in 1 .. Len(q) : SourceOK(fs, bs, q[j]) /\ (IsKeyboard(q[j]) <=> j = 1)
  BY DEF SourcesOK
<1>4. \A j \in 1 .. Len(q) : SourceOK(fs, bs, p[j]) /\ (IsKeyboard(p[j]) <=> j = 1)
  <2> SUFFICES ASSUME NEW j \in 1 .. Len(q)
               PROVE  SourceOK(fs, bs, p[j]) /\ (IsKeyboard(p[j]) <=> j = 1)
    OBVIOUS
  <2>1. CASE j = i
    <3>1. p[j] = s
      BY <1>2, <2>1
    <3>2. IsKeyboard(q[j]) <=> j = 1
      BY <1>3
    <3> QED  BY <2>1, <3>1, <3>2
  <2>2. CASE j # i
    <3>1. p[j] = q[j]
      BY <1>2, <2>2
    <3>2. SourceOK(fs, bs, q[j]) /\ (IsKeyboard(q[j]) <=> j = 1)
      BY <1>3
    <3> QED  BY <3>1, <3>2
  <2> QED  BY <2>1, <2>2
<1>5. SourcesOK(fs, bs, p)
  <2>1. Len(q) \in 1 .. Capacity
    BY DEF SourcesOK
  <2> QED  BY <1>2, <1>4, <2>1 DEF SourcesOK
<1> QED  BY <1>2, <1>5 DEF p

\* A source that is pushed, or popped.
LEMMA AddedIs ==
  ASSUME NEW fs, NEW bs, NEW q, SourcesOK(fs, bs, q), Len(q) < Capacity, NEW s,
         SourceOK(fs, bs, s), ~IsKeyboard(s)
  PROVE  SourcesOK(fs, bs, Append(q, s)) /\ Len(Append(q, s)) = Len(q) + 1 /\ Last(Append(q, s)) = s
<1> DEFINE p == Append(q, s)
           n == Len(q)
<1>1. q \in Seq(SourceSet) /\ s \in SourceSet /\ n \in Nat \ {0} /\ n < Capacity /\ Capacity \in Nat
  <2>1. n \in Nat \ {0}
    BY CurrentIs
  <2> QED  BY <2>1, SourcesAssumption DEF SourcesOK, SourceOK
<1>2. p \in Seq(SourceSet) /\ Len(p) = n + 1 /\ (\A j \in 1 .. n : p[j] = q[j]) /\ p[n + 1] = s
  BY <1>1, AppendProperties
<1>3. \A j \in 1 .. n : SourceOK(fs, bs, q[j]) /\ (IsKeyboard(q[j]) <=> j = 1)
  BY DEF SourcesOK
<1> HIDE DEF p, n
<1>4. \A j \in 1 .. n + 1 : SourceOK(fs, bs, p[j]) /\ (IsKeyboard(p[j]) <=> j = 1)
  <2> SUFFICES ASSUME NEW j \in 1 .. n + 1
               PROVE  SourceOK(fs, bs, p[j]) /\ (IsKeyboard(p[j]) <=> j = 1)
    OBVIOUS
  <2>1. CASE j = n + 1
    <3>1. p[j] = s /\ j # 1
      BY <1>1, <1>2, <2>1
    <3> QED  BY <3>1
  <2>2. CASE j # n + 1
    <3>1. j \in 1 .. n
      BY <1>1, <2>2
    <3>2. p[j] = q[j]
      BY <1>2, <3>1
    <3> QED  BY <1>3, <3>1, <3>2
  <2> QED  BY <2>1, <2>2
<1>5. SourcesOK(fs, bs, p)
  <2>1. Len(p) \in 1 .. Capacity
    BY <1>1, <1>2
  <2>2. \A j \in 1 .. Len(p) : SourceOK(fs, bs, p[j]) /\ (IsKeyboard(p[j]) <=> j = 1)
    BY <1>2, <1>4
  <2> QED  BY <1>2, <2>1, <2>2 DEF SourcesOK
<1>6. Last(p) = s
  BY <1>2 DEF Last
<1> QED  BY <1>2, <1>5, <1>6 DEF p, n

\* Without their last one the sources are sources.
LEMMA RemovedIs ==
  ASSUME NEW fs, NEW bs, NEW q, SourcesOK(fs, bs, q), Len(q) > 1
  PROVE  /\ SourcesOK(fs, bs, Front(q)) /\ Len(Front(q)) = Len(q) - 1
         /\ \A j \in 1 .. Len(q) - 1 : Front(q)[j] = q[j]
<1> DEFINE n == Len(q)
           p == Front(q)
<1>1. q \in Seq(SourceSet) /\ q # << >> /\ n \in Nat \ {0} /\ n <= Capacity
  BY CurrentIs
<1>2. p \in Seq(SourceSet) /\ Len(p) = n - 1 /\ (\A j \in 1 .. n - 1 : p[j] = q[j])
  BY <1>1, FrontIs
<1>3. n > 1 /\ \A j \in 1 .. n : SourceOK(fs, bs, q[j]) /\ (IsKeyboard(q[j]) <=> j = 1)
  BY DEF SourcesOK
<1> HIDE DEF p, n
<1>4. n - 1 \in 1 .. Capacity
  BY <1>1, <1>3, SizesAre
<1>5. \A j \in 1 .. n - 1 : SourceOK(fs, bs, p[j]) /\ (IsKeyboard(p[j]) <=> j = 1)
  <2> SUFFICES ASSUME NEW j \in 1 .. n - 1
               PROVE  SourceOK(fs, bs, p[j]) /\ (IsKeyboard(p[j]) <=> j = 1)
    OBVIOUS
  <2>1. j \in 1 .. n /\ p[j] = q[j]
    BY <1>1, <1>2
  <2> QED  BY <1>3, <2>1
<1>6. SourcesOK(fs, bs, p)
  <2>1. Len(p) \in 1 .. Capacity /\ \A j \in 1 .. Len(p) : SourceOK(fs, bs, p[j])
        /\ (IsKeyboard(p[j]) <=> j = 1)
    BY <1>2, <1>4, <1>5
  <2> QED  BY <1>2, <2>1 DEF SourcesOK
<1> QED  BY <1>2, <1>6 DEF p, n

\* Only the keyboard.
LEMMA AloneIs ==
  ASSUME NEW fs, NEW bs, ReadOK(fs, bs), NEW q, SourcesOK(fs, bs, q)
  PROVE  SourcesOK(fs, bs, << Blanked(q[1]) >>)
<1>1. Len(q) \in Nat \ {0} /\ 1 \in 1 .. Len(q)
  BY CurrentIs
<1>2. SourceOK(fs, bs, q[1]) /\ IsKeyboard(q[1])
  BY <1>1 DEF SourcesOK
<1> DEFINE s == Blanked(q[1])
<1>3. SourceOK(fs, bs, s) /\ IsKeyboard(s)
  BY <1>2, BlankedIs
<1> HIDE DEF s
<1>4. s \in SourceSet
  BY <1>3 DEF SourceOK
<1>5. << s >> \in Seq(SourceSet) /\ Len(<< s >>) = 1 /\ << s >>[1] = s
  BY <1>4
<1>6. 1 \in 1 .. Capacity
  BY SizesAre
<1>7. \A j \in 1 .. Len(<< s >>) : SourceOK(fs, bs, << s >>[j])
      /\ (IsKeyboard(<< s >>[j]) <=> j = 1)
  <2> SUFFICES ASSUME NEW j \in 1 .. Len(<< s >>)
               PROVE  SourceOK(fs, bs, << s >>[j]) /\ (IsKeyboard(<< s >>[j]) <=> j = 1)
    OBVIOUS
  <2>1. j = 1 /\ << s >>[j] = s
    BY <1>5
  <2> QED  BY <1>3, <2>1
<1>8. SourcesOK(fs, bs, << s >>)
  BY <1>5, <1>6, <1>7 DEF SourcesOK
<1> QED  BY <1>8 DEF s

\* What a good state is made of.
LEMMA StateParts ==
  ASSUME NEW fs, NEW bs, NEW m, Good(fs, bs, m)
  PROVE  /\ m \in States /\ SourcesOK(fs, bs, m.sources) /\ StackOK(m.stack)
         /\ m.sources \in Seq(SourceSet) /\ m.stack \in Seq(Cells) /\ m.c00 \in Cells
         /\ Len(m.stack) \in Nat /\ Len(m.stack) <= Limit
<1>1. m \in States /\ SourcesOK(fs, bs, m.sources) /\ StackOK(m.stack)
  BY DEF Good
<1>2. m.sources \in Seq(SourceSet) /\ m.stack \in Seq(Cells) /\ m.c00 \in Cells
  BY <1>1 DEF States
<1>3. Len(m.stack) \in Nat
  BY <1>2, LenProperties
<1> QED  BY <1>1, <1>2, <1>3 DEF StackOK

\* The same state with another part.
LEMMA WithParts ==
  ASSUME NEW m \in States
  PROVE  /\ \A q \in Seq(Cells) :
              LET t == [m EXCEPT !.stack = q]
              IN  t \in States /\ t.sources = m.sources /\ t.stack = q /\ t.c00 = m.c00
         /\ \A c \in Cells :
              LET t == [m EXCEPT !.c00 = c]
              IN  t \in States /\ t.sources = m.sources /\ t.stack = m.stack /\ t.c00 = c
         /\ \A q \in Seq(SourceSet) :
              LET t == [m EXCEPT !.sources = q]
              IN  t \in States /\ t.sources = q /\ t.stack = m.stack /\ t.c00 = m.c00
  BY DEF States

\* The stack with v on it, if there is room.
Grown(q, v) == IF Len(q) < Limit THEN Append(q, v) ELSE q

\* A stack that a cell is pushed on.
LEMMA GrownIs ==
  ASSUME NEW q, StackOK(q), NEW v \in Cells
  PROVE  /\ StackOK(Grown(q, v)) /\ Grown(q, v) \in Seq(Cells) /\ Len(Grown(q, v)) \in Nat
         /\ Len(Grown(q, v)) = IF Len(q) < Limit THEN Len(q) + 1 ELSE Len(q)
<1>1. q \in Seq(Cells) /\ Len(q) \in Nat /\ Len(q) <= Limit
  BY LenProperties DEF StackOK
<1>2. Append(q, v) \in Seq(Cells) /\ Len(Append(q, v)) = Len(q) + 1
  BY <1>1, AppendProperties
<1>3. CASE Len(q) < Limit
  <2>1. Grown(q, v) = Append(q, v)
    BY <1>3 DEF Grown
  <2>2. Len(q) + 1 <= Limit /\ Len(q) + 1 \in Nat
    BY <1>1, <1>3, SizesAre
  <2> QED  BY <1>2, <1>3, <2>1, <2>2 DEF StackOK
<1>4. CASE ~(Len(q) < Limit)
  <2>1. Grown(q, v) = q
    BY <1>4 DEF Grown
  <2> QED  BY <1>1, <1>4, <2>1
<1> QED  BY <1>3, <1>4

\* A cell is pushed.
LEMMA PushIs ==
  ASSUME NEW fs, NEW bs, NEW m, Good(fs, bs, m), NEW v \in Cells
  PROVE  /\ Good(fs, bs, Push(v, m)) /\ Push(v, m).sources = m.sources
         /\ Push(v, m).stack = Grown(m.stack, v) /\ Push(v, m).c00 = m.c00
<1>1. m \in States /\ SourcesOK(fs, bs, m.sources) /\ StackOK(m.stack)
  BY StateParts
<1>2. StackOK(Grown(m.stack, v)) /\ Grown(m.stack, v) \in Seq(Cells)
  BY <1>1, GrownIs
<1>3. CASE Len(m.stack) < Limit
  <2> DEFINE q == Append(m.stack, v)
             t == [m EXCEPT !.stack = q]
  <2>1. Push(v, m) = t /\ Grown(m.stack, v) = q
    BY <1>3 DEF Push, Grown
  <2>2. q \in Seq(Cells) /\ StackOK(q)
    BY <1>2, <2>1
  <2> HIDE DEF q
  <2>3. t \in States /\ t.sources = m.sources /\ t.stack = q /\ t.c00 = m.c00
    BY <1>1, <2>2, WithParts
  <2> HIDE DEF t
  <2> QED  BY <1>1, <2>1, <2>2, <2>3 DEF Good
<1>4. CASE ~(Len(m.stack) < Limit)
  <2>1. Push(v, m) = m /\ Grown(m.stack, v) = m.stack
    BY <1>4 DEF Push, Grown
  <2> QED  BY <2>1
<1> QED  BY <1>3, <1>4

\* A cell is put into the register.
LEMMA C00Is ==
  ASSUME NEW fs, NEW bs, NEW m, Good(fs, bs, m), NEW v \in Cells
  PROVE  LET t == [m EXCEPT !.c00 = v]
         IN  Good(fs, bs, t) /\ t.sources = m.sources /\ t.stack = m.stack /\ t.c00 = v
<1>1. m \in States /\ SourcesOK(fs, bs, m.sources) /\ StackOK(m.stack)
  BY StateParts
<1> DEFINE t == [m EXCEPT !.c00 = v]
<1>2. t \in States /\ t.sources = m.sources /\ t.stack = m.stack /\ t.c00 = v
  BY <1>1, WithParts
<1> HIDE DEF t
<1>3. Good(fs, bs, t)
  BY <1>1, <1>2 DEF Good
<1> QED  BY <1>2, <1>3 DEF t

\* A cell is pushed through the register.
LEMMA PushC00Is ==
  ASSUME NEW fs, NEW bs, NEW m, Good(fs, bs, m), NEW v \in Cells
  PROVE  /\ Good(fs, bs, PushC00(v, m)) /\ PushC00(v, m).sources = m.sources
         /\ PushC00(v, m).stack = Grown(m.stack, v) /\ PushC00(v, m).c00 = v
<1> DEFINE t == [m EXCEPT !.c00 = v]
<1>1. Good(fs, bs, t) /\ t.sources = m.sources /\ t.stack = m.stack /\ t.c00 = v
  BY C00Is
<1>2. PushC00(v, m) = Push(v, t)
  BY DEF PushC00
<1> HIDE DEF t
<1>3. /\ Good(fs, bs, Push(v, t)) /\ Push(v, t).sources = t.sources
      /\ Push(v, t).stack = Grown(t.stack, v) /\ Push(v, t).c00 = t.c00
  BY <1>1, PushIs
<1> QED  BY <1>1, <1>2, <1>3

\* A stack that a cell is taken from.
LEMMA StackFrontIs ==
  ASSUME NEW q, StackOK(q), q # << >>
  PROVE  /\ StackOK(Front(q)) /\ Front(q) \in Seq(Cells) /\ Last(q) \in Cells
         /\ Len(Front(q)) = Len(q) - 1 /\ Len(q) \in Nat \ {0}
<1>1. q \in Seq(Cells) /\ Len(q) <= Limit
  BY DEF StackOK
<1>2. Front(q) \in Seq(Cells) /\ Last(q) \in Cells /\ Len(Front(q)) = Len(q) - 1
      /\ Len(q) \in Nat \ {0}
  BY <1>1, FrontIs
<1>3. Len(Front(q)) <= Limit
  BY <1>1, <1>2, SizesAre
<1> QED  BY <1>2, <1>3 DEF StackOK

\* Without its top cell.
LEMMA DroppedIs ==
  ASSUME NEW fs, NEW bs, NEW m, Good(fs, bs, m), m.stack # << >>
  PROVE  LET t == [m EXCEPT !.stack = Front(@)]
         IN  Good(fs, bs, t) /\ t.sources = m.sources /\ t.stack = Front(m.stack) /\ t.c00 = m.c00
<1>1. m \in States /\ SourcesOK(fs, bs, m.sources) /\ StackOK(m.stack)
  BY StateParts
<1> DEFINE q == Front(m.stack)
           t == [m EXCEPT !.stack = q]
<1>2. StackOK(q) /\ q \in Seq(Cells)
  BY <1>1, StackFrontIs
<1> HIDE DEF q
<1>3. t \in States /\ t.sources = m.sources /\ t.stack = q /\ t.c00 = m.c00
  BY <1>1, <1>2, WithParts
<1> HIDE DEF t
<1>4. Good(fs, bs, t)
  BY <1>1, <1>2, <1>3 DEF Good
<1> QED  BY <1>3, <1>4 DEF t, q

\* A cell is popped into the register.
LEMMA PopC00Is ==
  ASSUME NEW fs, NEW bs, NEW m, Good(fs, bs, m), m.stack # << >>
  PROVE  /\ Good(fs, bs, PopC00(m)) /\ PopC00(m).sources = m.sources
         /\ PopC00(m).stack = Front(m.stack) /\ PopC00(m).c00 = Last(m.stack)
<1> DEFINE u == [m EXCEPT !.stack = Front(@)]
           c == Last(m.stack)
           t == [u EXCEPT !.c00 = c]
<1>1. Good(fs, bs, u) /\ u.sources = m.sources /\ u.stack = Front(m.stack) /\ u.c00 = m.c00
  BY DroppedIs
<1>2. c \in Cells
  BY StateParts, StackFrontIs
<1>3. PopC00(m) = t
  <2>1. m \in States
    BY StateParts
  <2> QED  BY <2>1 DEF PopC00, States
<1> HIDE DEF u, c
<1>4. Good(fs, bs, t) /\ t.sources = u.sources /\ t.stack = u.stack /\ t.c00 = c
  BY <1>1, <1>2, C00Is
<1> HIDE DEF t
<1> QED  BY <1>1, <1>3, <1>4 DEF c

\* t is m with s for its current source, which is of the same kind.
SameKind(s, m) == IsKeyboard(s) <=> IsKeyboard(Last(m.sources))
TopSet(fs, bs, s, m, t) ==
  /\ Good(fs, bs, t) /\ t.stack = m.stack /\ t.c00 = m.c00
  /\ t.sources = [m.sources EXCEPT ![Len(m.sources)] = s]
  /\ Len(t.sources) = Len(m.sources) /\ Last(t.sources) = s
  /\ \A j \in 1 .. Len(m.sources) - 1 : t.sources[j] = m.sources[j]

\* The current source becomes another one of its kind.
LEMMA SetTopIs ==
  ASSUME NEW fs, NEW bs, NEW m, Good(fs, bs, m), NEW s, SourceOK(fs, bs, s), SameKind(s, m)
  PROVE  TopSet(fs, bs, s, m, SetTop(s, m))
<1>1. m \in States /\ SourcesOK(fs, bs, m.sources) /\ StackOK(m.stack)
  BY StateParts
<1> DEFINE n == Len(m.sources)
           q == [m.sources EXCEPT ![n] = s]
           t == [m EXCEPT !.sources = q]
<1>2. n \in Nat \ {0} /\ n \in 1 .. Len(m.sources) /\ Last(m.sources) = m.sources[n]
  <2>1. n \in Nat \ {0} /\ Last(m.sources) = m.sources[n]
    BY <1>1, CurrentIs
  <2> QED  BY <2>1
<1>3. SetTop(s, m) = t
  BY <1>1 DEF SetTop, States
<1> HIDE DEF n
<1>4. /\ SourcesOK(fs, bs, q) /\ Len(q) = Len(m.sources) /\ q[n] = s
      /\ \A j \in 1 .. Len(m.sources) : j # n => q[j] = m.sources[j]
  BY <1>1, <1>2, ReplacedIs DEF SameKind
<1>5. q \in Seq(SourceSet)
  BY <1>4 DEF SourcesOK
<1>6. q = [m.sources EXCEPT ![Len(m.sources)] = s]
  BY DEF n
<1> HIDE DEF q
<1>7. t \in States /\ t.sources = q /\ t.stack = m.stack /\ t.c00 = m.c00
  BY <1>1, <1>5, WithParts
<1> HIDE DEF t
<1>8. Good(fs, bs, t)
  BY <1>1, <1>4, <1>7 DEF Good
<1>9. Last(q) = s
  BY <1>4 DEF Last, n
<1>10. \A j \in 1 .. Len(m.sources) - 1 : q[j] = m.sources[j]
  <2> SUFFICES ASSUME NEW j \in 1 .. Len(m.sources) - 1 PROVE q[j] = m.sources[j]
    OBVIOUS
  <2>1. j \in 1 .. Len(m.sources) /\ j # n
    BY <1>2 DEF n
  <2> QED  BY <1>4, <2>1
<1> QED  BY <1>3, <1>4, <1>6, <1>7, <1>8, <1>9, <1>10 DEF TopSet

\* A source is pushed, if there is room.
LEMMA PushSourceIs ==
  ASSUME NEW fs, NEW bs, NEW m, Good(fs, bs, m), NEW s, SourceOK(fs, bs, s), ~IsKeyboard(s)
  PROVE  /\ Good(fs, bs, PushSource(s, m)) /\ PushSource(s, m).stack = m.stack
         /\ PushSource(s, m).c00 = m.c00
         /\ PushSource(s, m).sources = IF Len(m.sources) < Capacity THEN Append(m.sources, s)
                                       ELSE m.sources
         /\ Len(m.sources) <= Len(PushSource(s, m).sources)
<1>1. m \in States /\ SourcesOK(fs, bs, m.sources) /\ StackOK(m.stack)
  BY StateParts
<1>2. Len(m.sources) \in Nat
  BY <1>1, CurrentIs
<1>3. CASE Len(m.sources) < Capacity
  <2> DEFINE q == Append(m.sources, s)
             t == [m EXCEPT !.sources = q]
  <2>1. PushSource(s, m) = t
    BY <1>3 DEF PushSource
  <2>2. SourcesOK(fs, bs, q) /\ Len(q) = Len(m.sources) + 1
    <3> DEFINE p == m.sources
    <3>1. SourcesOK(fs, bs, p) /\ Len(p) < Capacity
      BY <1>1, <1>3
    <3> HIDE DEF p
    <3>2. SourcesOK(fs, bs, Append(p, s)) /\ Len(Append(p, s)) = Len(p) + 1
      BY <3>1, AddedIs
    <3> QED  BY <3>2 DEF p
  <2>3. q \in Seq(SourceSet)
    BY <2>2 DEF SourcesOK
  <2>4. q = Append(m.sources, s)
    OBVIOUS
  <2> HIDE DEF q
  <2>5. t \in States /\ t.sources = q /\ t.stack = m.stack /\ t.c00 = m.c00
    BY <1>1, <2>3, WithParts
  <2> HIDE DEF t
  <2>6. Good(fs, bs, t)
    BY <1>1, <2>2, <2>5 DEF Good
  <2> QED  BY <1>2, <1>3, <2>1, <2>2, <2>4, <2>5, <2>6
<1>4. CASE ~(Len(m.sources) < Capacity)
  <2>1. PushSource(s, m) = m
    BY <1>4 DEF PushSource
  <2> QED  BY <1>2, <1>4, <2>1
<1> QED  BY <1>3, <1>4

\* A source is popped, if it is not the keyboard.
LEMMA PopSourceIs ==
  ASSUME NEW fs, NEW bs, NEW m, Good(fs, bs, m)
  PROVE  /\ Good(fs, bs, PopSource(m)) /\ PopSource(m).stack = m.stack /\ PopSource(m).c00 = m.c00
         /\ PopSource(m).sources = IF Len(m.sources) > 1 THEN Front(m.sources) ELSE m.sources
<1>1. m \in States /\ SourcesOK(fs, bs, m.sources) /\ StackOK(m.stack)
  BY StateParts
<1>2. CASE Len(m.sources) > 1
  <2> DEFINE q == Front(m.sources)
             t == [m EXCEPT !.sources = q]
  <2>1. PopSource(m) = t
    BY <1>2 DEF PopSource
  <2>2. SourcesOK(fs, bs, q)
    BY <1>1, <1>2, RemovedIs
  <2>3. q \in Seq(SourceSet) /\ q = Front(m.sources)
    BY <2>2 DEF SourcesOK
  <2> HIDE DEF q
  <2>4. t \in States /\ t.sources = q /\ t.stack = m.stack /\ t.c00 = m.c00
    BY <1>1, <2>3, WithParts
  <2> HIDE DEF t
  <2>5. Good(fs, bs, t)
    BY <1>1, <2>2, <2>4 DEF Good
  <2> QED  BY <1>2, <2>1, <2>3, <2>4, <2>5
<1>3. CASE ~(Len(m.sources) > 1)
  <2>1. PopSource(m) = m
    BY <1>3 DEF PopSource
  <2> QED  BY <1>3, <2>1
<1> QED  BY <1>2, <1>3

\* What is on the stack: numbers, addresses of texts that end in a blank, lengths.
LEMMA CellsAre ==
  /\ \A k \in Int : <<"number", k>> \in Cells
  /\ FORTH_TRUE \in Cells /\ FORTH_FALSE \in Cells /\ Length \in Cells
  /\ \A t \in Texts : (Tidy => EndsBlank(t)) => Addr(t) \in Cells
<1>1. \A k \in Int : <<"number", k>> \in Cells
  BY DEF Cells
<1>2. -1 \in Int /\ 0 \in Int
  OBVIOUS
<1>3. FORTH_TRUE \in Cells /\ FORTH_FALSE \in Cells
  BY <1>1, <1>2 DEF FORTH_TRUE, FORTH_FALSE
<1>4. Length \in Cells
  BY DEF Cells
<1>5. ASSUME NEW t \in Texts, Tidy => EndsBlank(t) PROVE Addr(t) \in Cells
  <2>1. t \in {u \in Texts : Tidy => EndsBlank(u)}
    BY <1>5
  <2>2. <<"addr", t>> \in StringCells
    BY <2>1 DEF StringCells
  <2> QED  BY <2>2 DEF Cells, Addr
<1> QED  BY <1>1, <1>3, <1>4, <1>5

\* What the kind of a cell says of it.
LEMMA CellIs ==
  ASSUME NEW c \in Cells
  PROVE  /\ c[1] \in CellsOf
         /\ c[1] = "addr" => c[2] \in Texts /\ (Tidy => EndsBlank(c[2]))
<1>1. CASE c \in {"number"} \X Int
  <2>1. c[1] = "number" /\ "number" # "addr"
    BY <1>1
  <2> QED  BY <2>1 DEF CellsOf
<1>2. CASE c \in StringCells
  <2>1. PICK t \in {u \in Texts : Tidy => EndsBlank(u)} : c = <<"addr", t>>
    BY <1>2 DEF StringCells
  <2>2. c[1] = "addr" /\ c[2] = t /\ t \in Texts /\ (Tidy => EndsBlank(t))
    BY <2>1
  <2> QED  BY <2>2 DEF CellsOf
<1>3. CASE c = Length
  <2>1. c[1] = "length" /\ "length" # "addr"
    BY <1>3 DEF Length
  <2> QED  BY <2>1 DEF CellsOf
<1> QED  BY <1>1, <1>2, <1>3 DEF Cells

\* What the number of a source says of it.
LEMMA KindIs ==
  ASSUME NEW fs, NEW bs, NEW s \in SourceSet, Kind(fs, bs, s)
  PROVE  /\ s.id = -1 => s.blk = 0
         /\ s.blk # 0 => s.id = 0 /\ s.blk \in DOMAIN bs
         /\ s.id = -1 \/ s.blk > 0 \/ (s.id = 0 /\ s.blk = 0) \/ s.id = 3
<1>1. s.blk \in Nat /\ s.id \in {-1, 0, 3}
  BY DEF SourceSet
<1>2. -1 # 0 /\ -1 # 3 /\ 0 # 3
  OBVIOUS
<1>3. s.id = -1 => s.blk = 0
  BY <1>2, Zenon DEF Kind
<1>4. s.blk # 0 => s.id = 0 /\ s.blk \in DOMAIN bs
  BY <1>2, Zenon DEF Kind
<1>5. s.id = -1 \/ s.id = 0 \/ s.id = 3
  BY <1>1
<1>6. s.blk > 0 \/ s.blk = 0
  BY <1>1
<1> QED  BY <1>3, <1>4, <1>5, <1>6

-----------------------------------------------------------------------------
(* REFILL.                                                                 *)

\* All lines of files end in a line feed.
LinesEnd == \A l \in Library : \A f \in DOMAIN l : EndsLines(l[f])

\* The sources stay as many as they are, or that of a file that was read is left;
\* one cell is pushed, except for a block.
Refilled(m, t) ==
  LET s == Last(m.sources)
  IN  /\ Good(files, blocks, t)
      /\ \/ Len(t.sources) = Len(m.sources)
         \/ FileDone(s) /\ Len(m.sources) > 1 /\ t.sources = Front(m.sources)
      /\ LinesEnd /\ s.blk = 0 => \E v \in Cells : t.stack = Grown(m.stack, v)

\* At the end of a file its source is popped.
LEMMA FileEndsIs ==
  ASSUME ReadOK(files, blocks), NEW m, Good(files, blocks, m), Len(m.sources) > 1
  PROVE  /\ Good(files, blocks, FileEnds(m)) /\ FileEnds(m).sources = Front(m.sources)
         /\ FileEnds(m).stack = Grown(m.stack, m.c00)
<1> DEFINE u == PopSource(m)
           c == m.c00
           w == Push(c, u)
           t == [w EXCEPT !.c00 = FORTH_FALSE]
<1>1. Good(files, blocks, u) /\ u.stack = m.stack /\ u.c00 = m.c00 /\ u.sources = Front(m.sources)
  BY PopSourceIs
<1>2. c \in Cells
  BY StateParts
<1>3. FileEnds(m) = t
  BY DEF FileEnds
<1> HIDE DEF u
<1>4. Good(files, blocks, w) /\ w.sources = u.sources /\ w.stack = Grown(u.stack, c)
  <2> HIDE DEF c
  <2> QED  BY <1>1, <1>2, PushIs
<1> HIDE DEF w
<1>5. Good(files, blocks, t) /\ t.sources = w.sources /\ t.stack = w.stack
  <2>1. FORTH_FALSE \in Cells
    BY CellsAre
  <2> QED  BY <1>4, <2>1, C00Is
<1> HIDE DEF t
<1> QED  BY <1>1, <1>3, <1>4, <1>5

\* What REFILL does, in each of its cases.
LEMMA RefillIs ==
  ASSUME ReadOK(files, blocks), NEW m, Good(files, blocks, m), Readable(m),
         NEW line \in Texts, Tidy => EndsBlank(line)
  PROVE  Refilled(m, Refill(line, m))
<1> DEFINE s == Last(m.sources)
           r == FileLine(s.file, s.at)
           t == Refill(line, m)
<1>1. /\ SourcesOK(files, blocks, m.sources) /\ SourceOK(files, blocks, s) /\ s \in SourceSet
      /\ (IsKeyboard(s) <=> Len(m.sources) = 1) /\ Len(m.sources) \in Nat \ {0}
      /\ StackOK(m.stack)
  <2>1. SourcesOK(files, blocks, m.sources) /\ StackOK(m.stack)
    BY StateParts
  <2>2. SourceOK(files, blocks, s) /\ (IsKeyboard(s) <=> Len(m.sources) = 1)
        /\ Len(m.sources) \in Nat \ {0}
    BY <2>1, CurrentIs
  <2> QED  BY <2>1, <2>2 DEF SourceOK
<1>2. t = CASE s.id = -1 -> PushC00(FORTH_FALSE, m)
            [] s.blk > 0 -> SetTop(Block(s.blk + 1), m)
            [] s.id = 0 /\ s.blk = 0 -> PushC00(FORTH_TRUE, SetTop(Keyboard(line), m))
            [] s.id > 0 ->
                 IF r.eof /\ r.line = << >> THEN FileEnds(m)
                 ELSE IF r.line = << >> THEN SetTop(NextLine(s), m)
                 ELSE PushC00(FORTH_TRUE, SetTop(NextLine(s), m))
  BY DEF Refill
<1>3. Kind(files, blocks, s) /\ s.blk \in Nat /\ s.id \in {-1, 0, 3}
  <2>1. Kind(files, blocks, s)
    BY <1>1 DEF SourceOK
  <2>2. s.blk \in Nat /\ s.id \in {-1, 0, 3}
    <3> HIDE DEF s
    <3> QED  BY <1>1 DEF SourceSet
  <2> QED  BY <2>1, <2>2
<1>4. Readable(m) => (s.blk > 0 => s.blk < Len(blocks))
  BY DEF Readable
<1>5. FORTH_TRUE \in Cells /\ FORTH_FALSE \in Cells
  BY CellsAre
<1>6. CASE s.id = -1
  <2>1. t = PushC00(FORTH_FALSE, m)
    <3>1. s.blk = 0
      BY <1>1, <1>3, <1>6, KindIs
    <3> HIDE DEF s, r
    <3> QED  BY <1>2, <1>6, <3>1
  <2>2. Good(files, blocks, t) /\ t.sources = m.sources /\ t.stack = Grown(m.stack, FORTH_FALSE)
    <3> HIDE DEF t
    <3> QED  BY <1>5, <2>1, PushC00Is
  <2> HIDE DEF t, s
  <2>3. Refilled(m, t)
    BY <1>5, <2>2 DEF Refilled
  <2> QED  BY <2>3 DEF t
<1>7. CASE s.blk > 0
  <2>1. s.id = 0 /\ s.blk + 1 \in DOMAIN blocks /\ ~IsKeyboard(s)
    <3>1. s.id = 0 /\ s.blk # 0
      <4>1. s.blk # 0
        <5> HIDE DEF s
        <5> QED  BY <1>3, <1>7
      <4> QED  BY <1>1, <1>3, <4>1, KindIs
    <3>2. DOMAIN blocks = 1 .. Len(blocks) /\ Len(blocks) \in Nat
      <4>1. DOMAIN blocks = 1 .. Len(blocks) /\ blocks \in Seq(Texts)
        BY ReadIs
      <4> QED  BY <4>1, LenProperties
    <3> HIDE DEF s
    <3>3. s.blk + 1 \in 1 .. Len(blocks)
      BY <1>3, <1>4, <1>7, <3>2
    <3> QED  BY <3>1, <3>2, <3>3 DEF IsKeyboard
  <2> DEFINE b == s.blk + 1
  <2>2. t = SetTop(Block(b), m)
    <3> HIDE DEF s, r
    <3>1. s.id # -1 /\ s.blk # 0
      BY <1>3, <1>7, <2>1
    <3> QED  BY <1>2, <1>7, <2>1, <3>1
  <2>3. b \in DOMAIN blocks
    BY <2>1
  <2> HIDE DEF b
  <2>4. SourceOK(files, blocks, Block(b)) /\ ~IsKeyboard(Block(b))
    BY <2>3, BlockIs
  <2> DEFINE k == Block(b)
  <2>5. SourceOK(files, blocks, k) /\ SameKind(k, m)
    BY <2>1, <2>4 DEF SameKind
  <2> HIDE DEF k
  <2>6. Good(files, blocks, SetTop(k, m)) /\ Len(SetTop(k, m).sources) = Len(m.sources)
    <3>1. TopSet(files, blocks, k, m, SetTop(k, m))
      BY <2>5, SetTopIs
    <3> QED  BY <3>1 DEF TopSet
  <2>7. Good(files, blocks, t) /\ Len(t.sources) = Len(m.sources)
    BY <2>2, <2>6 DEF k
  <2>8. s.blk # 0
    <3> HIDE DEF s
    <3> QED  BY <1>3, <1>7
  <2> HIDE DEF t
  <2>9. Refilled(m, t)
    BY <2>7, <2>8 DEF Refilled
  <2> QED  BY <2>9 DEF t
<1>8. CASE s.id = 0 /\ s.blk = 0
  <2> DEFINE k == Keyboard(line)
             u == SetTop(k, m)
  <2>1. SourceOK(files, blocks, k) /\ IsKeyboard(k)
    BY KeyboardIs
  <2>2. SameKind(k, m)
    BY <1>8, <2>1 DEF SameKind, IsKeyboard
  <2>3. t = PushC00(FORTH_TRUE, u)
    <3>1. s.id # -1 /\ ~(s.id > 0) /\ ~(s.blk > 0)
      <4>1. 0 # -1 /\ ~(0 > 0)
        OBVIOUS
      <4> HIDE DEF s
      <4> QED  BY <1>8, <4>1
    <3> HIDE DEF s, r
    <3> QED  BY <1>2, <1>8, <3>1
  <2> HIDE DEF k
  <2>4. Good(files, blocks, u) /\ u.stack = m.stack /\ Len(u.sources) = Len(m.sources)
    <3>1. TopSet(files, blocks, k, m, u)
      BY <2>1, <2>2, SetTopIs
    <3> HIDE DEF u
    <3> QED  BY <3>1 DEF TopSet
  <2> HIDE DEF u
  <2>5. /\ Good(files, blocks, t) /\ t.sources = u.sources /\ t.stack = Grown(u.stack, FORTH_TRUE)
    <3> HIDE DEF t
    <3> QED  BY <1>5, <2>3, <2>4, PushC00Is
  <2> HIDE DEF t, s
  <2>6. Refilled(m, t)
    BY <1>5, <2>4, <2>5 DEF Refilled
  <2> QED  BY <2>6 DEF t
<1>9. CASE s.id = 3
  <2>1. /\ s.file \in DOMAIN files /\ s.file # "" /\ s.blk = 0 /\ files[s.file] \in Texts
        /\ LineFrom(files[s.file], s.at, r)
    BY <1>1, <1>9, FileIs
  <2>2. ~IsKeyboard(s) /\ Len(m.sources) > 1
    <3>1. 3 # 0
      OBVIOUS
    <3>2. ~IsKeyboard(s)
      BY <1>9, <3>1 DEF IsKeyboard
    <3>3. Len(m.sources) # 1
      BY <1>1, <3>2
    <3>4. Len(m.sources) > 1
      <4> DEFINE n == Len(m.sources)
      <4>1. n \in Nat \ {0} /\ n # 1
        BY <1>1, <3>3
      <4> HIDE DEF n
      <4>2. n > 1
        BY <4>1
      <4> QED  BY <4>2 DEF n
    <3> QED  BY <3>2, <3>4
  <2>3. t = IF r.eof /\ r.line = << >> THEN FileEnds(m)
            ELSE IF r.line = << >> THEN SetTop(NextLine(s), m)
            ELSE PushC00(FORTH_TRUE, SetTop(NextLine(s), m))
    <3>1. s.id # -1 /\ s.id > 0 /\ s.id # 0 /\ ~(s.blk > 0)
      <4>1. 3 # -1 /\ 3 > 0 /\ 3 # 0 /\ ~(0 > 0)
        OBVIOUS
      <4> HIDE DEF s, r
      <4> QED  BY <1>9, <2>1, <4>1
    <3> HIDE DEF s, r
    <3> QED  BY <1>2, <3>1
  <2> DEFINE k == NextLine(s)
             u == SetTop(k, m)
  <2>4. Good(files, blocks, u) /\ u.stack = m.stack /\ Len(u.sources) = Len(m.sources)
    <3>1. SourceOK(files, blocks, k) /\ k.id = 3
      BY <1>1, <1>9, NextLineIs
    <3> HIDE DEF k
    <3>2. ~IsKeyboard(k)
      BY <3>1 DEF IsKeyboard
    <3>3. SameKind(k, m)
      BY <2>2, <3>2 DEF SameKind
    <3>4. TopSet(files, blocks, k, m, u)
      BY <3>1, <3>3, SetTopIs
    <3> HIDE DEF u
    <3> QED  BY <3>4 DEF TopSet
  <2>5. CASE r.eof /\ r.line = << >>
    <3>1. t = FileEnds(m)
      BY <2>3, <2>5
    <3>2. Good(files, blocks, t) /\ t.sources = Front(m.sources) /\ t.stack = Grown(m.stack, m.c00)
      <4> HIDE DEF t
      <4> QED  BY <2>2, <3>1, FileEndsIs
    <3>3. m.c00 \in Cells
      BY StateParts
    <3>4. FileDone(s)
      BY <1>9, <2>5 DEF FileDone
    <3> HIDE DEF t
    <3>5. Refilled(m, t)
      BY <2>2, <3>2, <3>3, <3>4 DEF Refilled
    <3> QED  BY <3>5 DEF t
  <2>6. CASE r.line = << >> /\ ~r.eof
    <3>1. t = u
      BY <2>3, <2>6
    <3>2. ~LinesEnd
      <4>1. LinesEnd => EndsLines(files[s.file])
        BY <2>1 DEF LinesEnd, ReadOK
      <4>2. ~EndsLines(files[s.file])
        <5> HIDE DEF r
        <5> QED  BY <2>1, <2>6 DEF LineFrom
      <4> QED  BY <4>1, <4>2
    <3>3. Good(files, blocks, t) /\ Len(t.sources) = Len(m.sources)
      BY <2>4, <3>1
    <3> HIDE DEF t
    <3>4. Refilled(m, t)
      BY <3>2, <3>3 DEF Refilled
    <3> QED  BY <3>4 DEF t
  <2>7. CASE r.line # << >>
    <3>1. t = PushC00(FORTH_TRUE, u)
      BY <2>3, <2>7
    <3> HIDE DEF u
    <3>2. Good(files, blocks, t) /\ t.sources = u.sources /\ t.stack = Grown(u.stack, FORTH_TRUE)
      <4> HIDE DEF t
      <4> QED  BY <1>5, <2>4, <3>1, PushC00Is
    <3> HIDE DEF t, s
    <3>3. Refilled(m, t)
      BY <1>5, <2>4, <3>2 DEF Refilled
    <3> QED  BY <3>3 DEF t
  <2> QED  BY <2>5, <2>6, <2>7
<1>10. s.id = -1 \/ s.blk > 0 \/ (s.id = 0 /\ s.blk = 0) \/ s.id = 3
  BY <1>1, <1>3, KindIs
<1> QED  BY <1>6, <1>7, <1>8, <1>9, <1>10

-----------------------------------------------------------------------------
(* The invariant, and what every step begins with.                         *)

Fine(fs, bs, q, st, c) == SourcesOK(fs, bs, q) /\ StackOK(st) /\ c \in Cells

IInv ==
  /\ ReadOK(files, blocks) /\ Fine(files, blocks, sources, stack, c00)
  /\ comment \in 0 .. Capacity /\ (failed => comment = 0)
  /\ failed \in BOOLEAN /\ alive \in BOOLEAN /\ typed \in 0 .. MaxLines

\* The state of a word at its beginning.
LEMMA NowIs ==
  ASSUME IInv
  PROVE  /\ Good(files, blocks, Now) /\ Now.sources = sources /\ Now.stack = stack /\ Now.c00 = c00
         /\ ReadOK(files, blocks)
<1>1. SourcesOK(files, blocks, sources) /\ StackOK(stack) /\ c00 \in Cells /\ ReadOK(files, blocks)
  BY DEF IInv, Fine
<1>2. sources \in Seq(SourceSet) /\ stack \in Seq(Cells)
  BY <1>1 DEF SourcesOK, StackOK
<1>3. Now.sources = sources /\ Now.stack = stack /\ Now.c00 = c00 /\ Now \in States
  BY <1>1, <1>2 DEF Now, States
<1> QED  BY <1>1, <1>3 DEF Good

\* The state behind the next token.
LEMMA TakenIs ==
  ASSUME IInv
  PROVE  /\ Took(files, blocks, Last(sources), Next1)
         /\ TopSet(files, blocks, Next1.source, Now, Taken) /\ Taken = Ended
         /\ Good(files, blocks, Taken) /\ Taken.stack = stack /\ Taken.c00 = c00
         /\ Taken.sources = [sources EXCEPT ![Len(sources)] = Next1.source]
         /\ Len(Taken.sources) = Len(sources) /\ Last(Taken.sources) = Next1.source
<1>1. Good(files, blocks, Now) /\ Now.sources = sources /\ Now.stack = stack /\ Now.c00 = c00
      /\ ReadOK(files, blocks)
  BY NowIs
<1>2. SourceOK(files, blocks, Last(sources))
  <2>1. SourcesOK(files, blocks, sources)
    BY DEF IInv, Fine
  <2> QED  BY <2>1, CurrentIs
<1>3. Took(files, blocks, Last(sources), Next1)
  BY <1>1, <1>2, TokenIs DEF Next1
<1>4. SourceOK(files, blocks, Next1.source) /\ SameKind(Next1.source, Now)
  BY <1>1, <1>3 DEF Took, Like, SameKind, IsKeyboard
<1>5. TopSet(files, blocks, Next1.source, Now, Taken)
  BY <1>1, <1>4, SetTopIs DEF Taken
<1>6. Taken = Ended
  BY DEF Taken, Ended
<1> QED  BY <1>1, <1>3, <1>5, <1>6 DEF TopSet

\* The variables of a good state are good.
LEMMA BecomesFine ==
  ASSUME NEW m, Good(files, blocks, m), ReadOK(files, blocks), Becomes(m), UNCHANGED texts
  PROVE  /\ ReadOK(files, blocks)' /\ Fine(files, blocks, sources, stack, c00)'
         /\ sources' = m.sources /\ stack' = m.stack
<1>1. SourcesOK(files, blocks, m.sources) /\ StackOK(m.stack) /\ m.c00 \in Cells
  BY StateParts
<1>2. sources' = m.sources /\ stack' = m.stack /\ c00' = m.c00 /\ files' = files /\ blocks' = blocks
  BY DEF Becomes, texts
<1> QED  BY <1>1, <1>2 DEF Fine, ReadOK

\* What every step of the machine leaves.
LEMMA StepEnds ==
  ASSUME IInv, Works \/ Fails \/ Dies
  PROVE  /\ UNCHANGED texts /\ failed' \in BOOLEAN /\ alive' \in BOOLEAN
         /\ Works => failed' = failed /\ alive' = alive
         /\ Dies => failed' = failed
  BY DEF IInv, Works, Fails, Dies, texts

\* A step of a word: comments stay closed.
LEMMA WordStep ==
  ASSUME IInv, NEW m, Good(files, blocks, m), Becomes(m), Works \/ Fails \/ Dies,
         Reads, UNCHANGED comment, typed' \in 0 .. MaxLines
  PROVE  IInv' /\ sources' = m.sources
<1>1. ReadOK(files, blocks)
  BY DEF IInv
<1>2. UNCHANGED texts /\ failed' \in BOOLEAN /\ alive' \in BOOLEAN
  BY StepEnds
<1>3. ReadOK(files, blocks)' /\ Fine(files, blocks, sources, stack, c00)' /\ sources' = m.sources
  BY <1>1, <1>2, BecomesFine
<1>4. comment' \in 0 .. Capacity /\ comment' = 0
  BY DEF IInv, Reads
<1> QED  BY <1>2, <1>3, <1>4 DEF IInv

\* What the user types, and nothing at all.
LEMMA LinesAre ==
  /\ \A line \in Lines : line \in Texts /\ (Tidy => EndsBlank(line))
  /\ << >> \in Texts /\ EndsBlank(<< >>)
<1>1. \A line \in Lines : line \in Texts
  BY SourcesAssumption DEF Texts
<1>2. Tidy => \A line \in Lines : EndsBlank(line)
  BY DEF Tidy
<1>3. << >> \in Texts /\ EndsBlank(<< >>)
  BY BlankSymbols DEF EndsBlank
<1> QED  BY <1>1, <1>2, <1>3

\* REFILL is called with some line.
Typed(m, t) == \E line \in Texts : (Tidy => EndsBlank(line)) /\ t = Refill(line, m)

\* What REFILL does with such a line.
LEMMA RefilledIs ==
  ASSUME ReadOK(files, blocks), NEW m, Good(files, blocks, m), Readable(m), NEW t, Typed(m, t)
  PROVE  Refilled(m, t) /\ Good(files, blocks, t)
<1>1. PICK line \in Texts : (Tidy => EndsBlank(line)) /\ t = Refill(line, m)
  BY DEF Typed
<1>2. Refilled(m, Refill(line, m))
  BY <1>1, RefillIs
<1>3. Refilled(m, t)
  BY <1>1, <1>2
<1> QED  BY <1>3 DEF Refilled

\* Whatever follows a call of REFILL, it follows with such a line.
LEMMA TypedIs ==
  ASSUME NEW m
  PROVE  /\ \A line \in Lines : Typed(m, Refill(line, m))
         /\ Typed(m, Refill(<< >>, m))
  BY LinesAre DEF Typed

\* Lines are counted.
LEMMA CountIs ==
  ASSUME IInv, UNCHANGED typed \/ (typed < MaxLines /\ typed' = typed + 1)
  PROVE  typed' \in 0 .. MaxLines
<1>1. typed \in 0 .. MaxLines /\ MaxLines \in Nat
  BY SizesAre DEF IInv
<1> QED  BY <1>1

\* A sequence without its last element, whatever that was.
LEMMA FrontOfAppend ==
  ASSUME NEW S, NEW q \in Seq(S), NEW e \in S
  PROVE  Front(Append(q, e)) = q
<1> DEFINE a == Append(q, e)
           n == Len(q)
<1>1. n \in Nat /\ a \in Seq(S) /\ a # << >> /\ Len(a) = n + 1 /\ \A i \in 1 .. n : a[i] = q[i]
  BY LenProperties, AppendProperties
<1> HIDE DEF a
<1>2. Front(a) \in Seq(S) /\ Len(Front(a)) = Len(a) - 1
      /\ \A i \in 1 .. Len(a) - 1 : Front(a)[i] = a[i]
  BY <1>1, FrontIs
<1>3. Len(a) - 1 = n
  BY <1>1
<1>4. Len(Front(a)) = n /\ \A i \in 1 .. n : Front(a)[i] = q[i]
  BY <1>1, <1>2, <1>3
<1>5. Front(a) = q
  BY <1>2, <1>4, SeqEqual
<1> QED  BY <1>5 DEF a

\* A sequence without its last element, when that was changed.
LEMMA FrontOfChanged ==
  ASSUME NEW S, NEW q \in Seq(S), q # << >>, NEW e \in S
  PROVE  Front([q EXCEPT ![Len(q)] = e]) = Front(q)
<1> DEFINE n == Len(q)
           p == [q EXCEPT ![n] = e]
<1>1. /\ n \in Nat \ {0} /\ Front(q) \in Seq(S) /\ Len(Front(q)) = n - 1
      /\ \A i \in 1 .. n - 1 : Front(q)[i] = q[i]
  BY FrontIs
<1>2. p \in Seq(S) /\ Len(p) = n /\ \A j \in 1 .. n : p[j] = IF j = n THEN e ELSE q[j]
  <2>1. n \in 1 .. Len(q)
    BY <1>1
  <2> HIDE DEF n
  <2>2. /\ p \in Seq(S) /\ Len(p) = Len(q)
        /\ \A j \in 1 .. Len(q) : p[j] = IF j = n THEN e ELSE q[j]
    BY <2>1, ExceptSeq
  <2> QED  BY <2>2 DEF n
<1>3. p = [q EXCEPT ![Len(q)] = e]
  OBVIOUS
<1> HIDE DEF p, n
<1>4. p # << >>
  <2>1. Len(p) # 0 /\ Len(<< >>) = 0
    BY <1>1, <1>2
  <2> QED  BY <2>1
<1>5. Front(p) \in Seq(S) /\ Len(Front(p)) = n - 1 /\ \A i \in 1 .. n - 1 : Front(p)[i] = p[i]
  BY <1>2, <1>4, FrontIs
<1>6. \A i \in 1 .. n - 1 : Front(p)[i] = Front(q)[i]
  <2> SUFFICES ASSUME NEW i \in 1 .. n - 1 PROVE Front(p)[i] = Front(q)[i]
    OBVIOUS
  <2>1. i \in 1 .. n /\ i # n
    BY <1>1
  <2> QED  BY <1>1, <1>2, <1>5, <2>1
<1>7. Front(p) = Front(q)
  BY <1>1, <1>5, <1>6, SeqEqual
<1> QED  BY <1>3, <1>7

\* Behind the current token, the sources that are not the current one are the same.
LEMMA TakenFront ==
  ASSUME IInv
  PROVE  Front(Taken.sources) = Front(sources)
<1>1. SourcesOK(files, blocks, sources)
  BY DEF IInv, Fine
<1>2. sources \in Seq(SourceSet) /\ sources # << >>
  BY <1>1, CurrentIs
<1>3. Took(files, blocks, Last(sources), Next1)
      /\ Taken.sources = [sources EXCEPT ![Len(sources)] = Next1.source]
  BY TakenIs
<1>4. Next1.source \in SourceSet
  BY <1>3 DEF Took, SourceOK
<1>5. Front([sources EXCEPT ![Len(sources)] = Next1.source]) = Front(sources)
  BY <1>2, <1>4, FrontOfChanged
<1> QED  BY <1>3, <1>5

\* A source has been read when nothing is left of its file but what is in its buffer.
LEMMA AtItsEnd ==
  ASSUME IInv, Tidy,
         Tokens(Left(files, Next1.source.file, Next1.source.at)) = << >>
  PROVE  LET s == Last(sources)
         IN  /\ s.read \o Tokens(Rest(s)) = Tokens(s.text)
             /\ Next1.token = << >> => s.read \o << >> = Tokens(s.text)
<1> DEFINE s == Last(sources)
<1>1. Took(files, blocks, s, Next1)
  BY TakenIs
<1>2. SourceOK(files, blocks, s)
  <2>1. SourcesOK(files, blocks, sources)
    BY DEF IInv, Fine
  <2> QED  BY <2>1, CurrentIs
<1> HIDE DEF s
<1>3. /\ s \in SourceSet /\ s.max \in 0 .. Len(s.base) /\ s.read \in Seq(Texts)
      /\ s.read \o Tokens(Rest(s)) \o Tokens(Left(files, s.file, s.at)) = Tokens(s.text)
  BY <1>2, SourceParts DEF SourceOK, Right
<1>4. Left(files, s.file, s.at) = Left(files, Next1.source.file, Next1.source.at)
  BY <1>1 DEF Took, Like
<1>5. Tokens(Rest(s)) \in Seq(Texts)
  BY <1>3, RestTyped
<1> DEFINE a == s.read
           b == Tokens(Rest(s))
<1>6. a \o b \in Seq(Texts) /\ (a \o b) \o << >> = a \o b
  <2>1. a \in Seq(Texts) /\ b \in Seq(Texts)
    BY <1>3, <1>5
  <2> HIDE DEF a, b
  <2>2. a \o b \in Seq(Texts)
    BY <2>1, ConcatProperties
  <2> QED  BY <2>2, ConcatEmptySeq
<1>7. s.read \o Tokens(Rest(s)) = Tokens(s.text)
  BY <1>3, <1>4, <1>6
<1>8. Next1.token = << >> => Tokens(Rest(s)) = << >>
  BY <1>1 DEF Took
<1> QED  BY <1>7, <1>8 DEF s

-----------------------------------------------------------------------------
(* The end of a text.                                                      *)

\* What the end of a line comes to: the source is left, or REFILL is called.
LineEndCases(t) ==
  /\ Typed(Ended, t) /\ Last(sources).blk = 0 /\ Last(sources).id # -1
  /\ UNCHANGED typed \/ (typed < MaxLines /\ typed' = typed + 1)
  /\ IF t.stack = << >> THEN Becomes(t) /\ Dies
     ELSE Becomes([t EXCEPT !.stack = Front(@)]) /\ Works

\* The end of a line is one or the other.
LEMMA LineEndIs ==
  ASSUME IInv, LineEnd
  PROVE  \/ /\ Last(sources).blk > 0 \/ Last(sources).id = -1
            /\ Becomes(PopSource(Ended)) /\ Works /\ UNCHANGED typed
         \/ \E t : LineEndCases(t)
<1>1. CASE Last(sources).blk > 0 \/ Last(sources).id = -1
  BY <1>1 DEF LineEnd
<1>2. CASE ~(Last(sources).blk > 0 \/ Last(sources).id = -1)
  <2>1. Refills(Ended, LAMBDA m : IF m.stack = << >> THEN Becomes(m) /\ Dies
                                  ELSE Becomes([m EXCEPT !.stack = Front(@)]) /\ Works)
    BY <1>2 DEF LineEnd
  <2>2. Last(sources).blk = 0 /\ Last(sources).id # -1
    <3>1. SourcesOK(files, blocks, sources)
      BY DEF IInv, Fine
    <3>2. SourceOK(files, blocks, Last(sources))
      BY <3>1, CurrentIs
    <3>3. Last(sources).blk \in Nat
      BY <3>2, SourceParts DEF SourceOK
    <3> QED  BY <1>2, <3>3
  <2>3. CASE Asks(Ended)
    <3>1. /\ typed < MaxLines /\ typed' = typed + 1
          /\ \E line \in Lines :
               IF Refill(line, Ended).stack = << >> THEN Becomes(Refill(line, Ended)) /\ Dies
               ELSE Becomes([Refill(line, Ended) EXCEPT !.stack = Front(@)]) /\ Works
      BY <2>1, <2>3 DEF Refills
    <3>2. PICK line \in Lines :
               IF Refill(line, Ended).stack = << >> THEN Becomes(Refill(line, Ended)) /\ Dies
               ELSE Becomes([Refill(line, Ended) EXCEPT !.stack = Front(@)]) /\ Works
      BY <3>1
    <3>3. Typed(Ended, Refill(line, Ended))
      BY TypedIs
    <3> DEFINE t == Refill(line, Ended)
    <3>4. /\ Typed(Ended, t)
          /\ IF t.stack = << >> THEN Becomes(t) /\ Dies
             ELSE Becomes([t EXCEPT !.stack = Front(@)]) /\ Works
      BY <3>2, <3>3
    <3> HIDE DEF t
    <3>5. LineEndCases(t)
      BY <2>2, <3>1, <3>4 DEF LineEndCases
    <3> QED  BY <3>5
  <2>4. CASE ~Asks(Ended)
    <3> DEFINE t == Refill(<< >>, Ended)
    <3>1. /\ UNCHANGED typed
          /\ IF t.stack = << >> THEN Becomes(t) /\ Dies
             ELSE Becomes([t EXCEPT !.stack = Front(@)]) /\ Works
      BY <2>1, <2>4 DEF Refills
    <3>2. Typed(Ended, t)
      BY TypedIs
    <3> HIDE DEF t
    <3>3. LineEndCases(t)
      BY <2>2, <3>1, <3>2 DEF LineEndCases
    <3> QED  BY <3>3
  <2> QED  BY <2>3, <2>4
<1> QED  BY <1>1, <1>2

\* A step that leaves a source leaves it at its end.
Leaving ==
  Len(sources') < Len(sources) /\ sources' # OnlyKeyboard =>
    LET s == Last(sources)
    IN  /\ sources' = Front(sources)
        /\ s.read \o (IF Takes("refill") THEN Tokens(Rest(s)) ELSE << >>) = Tokens(s.text)

\* What is known of the current source at the end of its line.
LEMMA EndedIs ==
  ASSUME IInv, AtEnd
  PROVE  /\ Good(files, blocks, Ended) /\ Ended.stack = stack /\ Len(Ended.sources) = Len(sources)
         /\ Front(Ended.sources) = Front(sources)
         /\ Last(Ended.sources) = Next1.source /\ Like(Last(sources), Next1.source)
         /\ SourceOK(files, blocks, Next1.source) /\ Len(sources) \in Nat \ {0}
         /\ Next1.token = << >> /\ ~Takes("refill") /\ Reads
<1>1. /\ Took(files, blocks, Last(sources), Next1) /\ Taken = Ended /\ Good(files, blocks, Taken)
      /\ Taken.stack = stack /\ Len(Taken.sources) = Len(sources)
         /\ Last(Taken.sources) = Next1.source
  BY TakenIs
<1>2. Front(Taken.sources) = Front(sources)
  BY TakenFront
<1>3. Len(sources) \in Nat \ {0}
  <2>1. SourcesOK(files, blocks, sources)
    BY DEF IInv, Fine
  <2> QED  BY <2>1, CurrentIs
<1>4. Next1.token = << >> /\ ~Takes("refill") /\ Reads
  <2>1. << "refill" >> # << >>
    OBVIOUS
  <2> QED  BY <2>1 DEF AtEnd, Takes
<1> QED  BY <1>1, <1>2, <1>3, <1>4 DEF Took

\* REFILL is called at the end of a line of a source that is not a block.
LEMMA EndedRefill ==
  ASSUME IInv, AtEnd, NEW t, LineEndCases(t)
  PROVE  Refilled(Ended, t) /\ Good(files, blocks, t) /\ Next1.source.blk = 0
<1>1. Good(files, blocks, Ended) /\ Last(Ended.sources) = Next1.source
      /\ Like(Last(sources), Next1.source)
  BY EndedIs
<1>2. Next1.source.blk = 0
  BY <1>1 DEF LineEndCases, Like
<1>3. Readable(Ended)
  <2>1. ~(0 > 0)
    OBVIOUS
  <2> QED  BY <1>1, <1>2, <2>1 DEF Readable
<1>4. Typed(Ended, t) /\ ReadOK(files, blocks)
  BY DEF LineEndCases, IInv
<1>5. Refilled(Ended, t) /\ Good(files, blocks, t)
  BY <1>1, <1>3, <1>4, RefilledIs
<1> QED  BY <1>2, <1>5

\* The end of a line keeps the invariant.
LEMMA LineEndKeeps ==
  ASSUME IInv, LineEnd
  PROVE  IInv'
<1>1. AtEnd /\ UNCHANGED comment
  BY DEF LineEnd
<1>2. Good(files, blocks, Ended) /\ Reads
  BY <1>1, EndedIs
<1>3. CASE Becomes(PopSource(Ended)) /\ Works /\ UNCHANGED typed
  <2> DEFINE m == PopSource(Ended)
  <2>1. Good(files, blocks, m)
    BY <1>2, PopSourceIs
  <2>2. typed' \in 0 .. MaxLines
    BY <1>3, CountIs
  <2>3. Becomes(m)
    BY <1>3
  <2> HIDE DEF m
  <2> QED  BY <1>1, <1>2, <1>3, <2>1, <2>2, <2>3, WordStep
<1>4. ASSUME NEW t, LineEndCases(t) PROVE IInv'
  <2>1. Good(files, blocks, t)
    BY <1>1, <1>4, EndedRefill
  <2>2. typed' \in 0 .. MaxLines
    <3>1. UNCHANGED typed \/ (typed < MaxLines /\ typed' = typed + 1)
      BY <1>4 DEF LineEndCases
    <3> QED  BY <3>1, CountIs
  <2>3. CASE t.stack = << >>
    <3>1. Becomes(t) /\ Dies
      BY <1>4, <2>3 DEF LineEndCases
    <3> QED  BY <1>1, <1>2, <2>1, <2>2, <3>1, WordStep
  <2>4. CASE t.stack # << >>
    <3> DEFINE m == [t EXCEPT !.stack = Front(@)]
    <3>1. Becomes(m) /\ Works
      BY <1>4, <2>4 DEF LineEndCases
    <3>2. Good(files, blocks, m)
      BY <2>1, <2>4, DroppedIs
    <3> HIDE DEF m
    <3> QED  BY <1>1, <1>2, <2>2, <3>1, <3>2, WordStep
  <2> QED  BY <2>3, <2>4
<1> QED  BY <1>3, <1>4, LineEndIs

\* The flag of REFILL is taken off again.
LEMMA LineEndStack ==
  ASSUME IInv, LineEnd, LinesEnd, Len(stack) < Limit
  PROVE  stack' = stack /\ alive'
<1>1. AtEnd /\ UNCHANGED comment
  BY DEF LineEnd
<1>2. Good(files, blocks, Ended) /\ Reads /\ Ended.stack = stack
      /\ Last(Ended.sources) = Next1.source
  BY <1>1, EndedIs
<1>3. alive /\ stack \in Seq(Cells)
  <2>1. StackOK(stack)
    BY DEF IInv, Fine
  <2> QED  BY <1>2, <2>1 DEF Reads, StackOK
<1>4. CASE Becomes(PopSource(Ended)) /\ Works /\ UNCHANGED typed
  <2> DEFINE m == PopSource(Ended)
  <2>1. m.stack = stack
    BY <1>2, PopSourceIs
  <2>2. Becomes(m)
    BY <1>4
  <2> HIDE DEF m
  <2> QED  BY <1>3, <1>4, <2>1, <2>2 DEF Becomes, Works
<1>5. ASSUME NEW t, LineEndCases(t) PROVE stack' = stack /\ alive'
  <2>1. Refilled(Ended, t) /\ Next1.source.blk = 0
    BY <1>1, <1>5, EndedRefill
  <2>2. PICK v \in Cells : t.stack = Grown(stack, v)
    BY <1>2, <2>1 DEF Refilled
  <2>3. t.stack = Append(stack, v)
    BY <2>2 DEF Grown
  <2>4. t.stack # << >> /\ Front(t.stack) = stack
    BY <1>3, <2>3, AppendProperties, FrontOfAppend
  <2> DEFINE m == [t EXCEPT !.stack = Front(@)]
  <2>5. Becomes(m) /\ Works
    BY <1>5, <2>4 DEF LineEndCases
  <2>6. m.stack = stack
    <3>1. Good(files, blocks, t)
      BY <2>1 DEF Refilled
    <3>2. m.stack = Front(t.stack)
      BY <2>4, <3>1, DroppedIs
    <3> QED  BY <2>4, <3>2
  <2> HIDE DEF m
  <2> QED  BY <1>3, <2>5, <2>6 DEF Becomes, Works
<1> QED  BY <1>4, <1>5, LineEndIs

\* At the end of a line a source is left at its end.
LEMMA LineEndLeaves ==
  ASSUME IInv, LineEnd, Tidy
  PROVE  Leaving
<1>1. AtEnd
  BY DEF LineEnd
<1>2. /\ Good(files, blocks, Ended) /\ Reads /\ Last(Ended.sources) = Next1.source
      /\ Len(Ended.sources) = Len(sources) /\ Front(Ended.sources) = Front(sources)
      /\ Like(Last(sources), Next1.source) /\ SourceOK(files, blocks, Next1.source)
      /\ Next1.token = << >> /\ ~Takes("refill") /\ Len(sources) \in Nat \ {0}
  BY <1>1, EndedIs
<1>3. ASSUME Tokens(Left(files, Next1.source.file, Next1.source.at)) = << >>,
             Len(sources') = Len(sources) \/ sources' = Front(sources)
      PROVE  Leaving
  <2>1. Last(sources).read \o << >> = Tokens(Last(sources).text)
    BY <1>2, <1>3, AtItsEnd
  <2>2. Len(sources') = Len(sources) => ~(Len(sources') < Len(sources))
    BY <1>2
  <2> QED  BY <1>2, <1>3, <2>1, <2>2 DEF Leaving
<1>4. CASE /\ Last(sources).blk > 0 \/ Last(sources).id = -1
           /\ Becomes(PopSource(Ended)) /\ Works /\ UNCHANGED typed
  <2> DEFINE m == PopSource(Ended)
             s == Last(sources)
  <2>1. m.sources = IF Len(Ended.sources) > 1 THEN Front(Ended.sources) ELSE Ended.sources
    BY <1>2, PopSourceIs
  <2>2. Becomes(m)
    BY <1>4
  <2> HIDE DEF m
  <2>3. Len(sources') = Len(sources) \/ sources' = Front(sources)
    BY <1>2, <2>1, <2>2 DEF Becomes
  <2>4. Next1.source.file = ""
    <3>1. SourceOK(files, blocks, s)
      <4>1. SourcesOK(files, blocks, sources)
        BY DEF IInv, Fine
      <4> QED  BY <4>1, CurrentIs
    <3>2. s \in SourceSet /\ Kind(files, blocks, s) /\ s.blk \in Nat
      BY <3>1, SourceParts DEF SourceOK
    <3>3. s.id # 3
      <4>1. CASE s.id = -1
        <5>1. -1 # 3
          OBVIOUS
        <5> QED  BY <4>1, <5>1, Zenon
      <4>2. CASE s.blk > 0
        <5> HIDE DEF s
        <5>1. s.blk # 0
          BY <3>2, <4>2
        <5>2. s.id = 0 /\ 0 # 3
          BY <3>2, <5>1, KindIs
        <5> QED  BY <5>2, Zenon
      <4> QED  BY <1>4, <4>1, <4>2
    <3>4. s.file = ""
      BY <3>2, <3>3, Zenon DEF Kind
    <3> QED  BY <1>2, <3>4 DEF Like
  <2>5. Tokens(Left(files, Next1.source.file, Next1.source.at)) = << >>
    BY <2>4, NoTokens DEF Left
  <2> QED  BY <1>3, <2>3, <2>5
<1>5. ASSUME NEW t, LineEndCases(t) PROVE Leaving
  <2>1. Refilled(Ended, t) /\ Good(files, blocks, t)
    BY <1>1, <1>5, EndedRefill
  <2>2. sources' = t.sources
    <3>1. CASE t.stack = << >>
      <4>1. Becomes(t)
        BY <1>5, <3>1 DEF LineEndCases
      <4> QED  BY <4>1 DEF Becomes
    <3>2. CASE t.stack # << >>
      <4> DEFINE m == [t EXCEPT !.stack = Front(@)]
      <4>1. Becomes(m)
        BY <1>5, <3>2 DEF LineEndCases
      <4>2. m.sources = t.sources
        BY <2>1, <3>2, DroppedIs
      <4> HIDE DEF m
      <4> QED  BY <4>1, <4>2 DEF Becomes
    <3> QED  BY <3>1, <3>2
  <2>3. \/ Len(t.sources) = Len(Ended.sources)
        \/ FileDone(Next1.source) /\ t.sources = Front(Ended.sources)
    BY <1>2, <2>1 DEF Refilled
  <2>4. CASE Len(t.sources) = Len(Ended.sources)
    <3>1. ~(Len(sources') < Len(sources))
      BY <1>2, <2>2, <2>4
    <3> QED  BY <3>1 DEF Leaving
  <2>5. CASE FileDone(Next1.source) /\ t.sources = Front(Ended.sources)
    <3>1. ReadOK(files, blocks)
      BY DEF IInv
    <3> DEFINE u == Next1.source
    <3>2. /\ SourceOK(files, blocks, u) /\ u.id = 3 /\ FileLine(u.file, u.at).eof
          /\ FileLine(u.file, u.at).line = << >>
      BY <1>2, <2>5 DEF FileDone
    <3> HIDE DEF u
    <3>3. Tokens(Left(files, u.file, u.at)) = << >>
      BY <3>1, <3>2, FileEndIs
    <3> QED  BY <1>2, <1>3, <2>2, <2>5, <3>3 DEF u
  <2> QED  BY <2>3, <2>4, <2>5
<1> QED  BY <1>4, <1>5, LineEndIs

\* No source is left.
Stays == Len(sources') \in Nat /\ Len(sources) <= Len(sources')

\* There is a source, and no more than there is room for.
LEMMA LenSources ==
  ASSUME IInv
  PROVE  Len(sources) \in Nat \ {0} /\ Len(sources) <= Capacity /\ SourcesOK(files, blocks, sources)
<1>1. SourcesOK(files, blocks, sources)
  BY DEF IInv, Fine
<1> QED  BY <1>1, CurrentIs

-----------------------------------------------------------------------------
(* Comments.                                                               *)

\* ( keeps the invariant, in the current source.
LEMMA OpenCommentKeeps ==
  ASSUME IInv, OpenComment
  PROVE  IInv' /\ Stays /\ comment' = Len(sources')
<1>1. Becomes(Taken) /\ Works /\ UNCHANGED typed /\ comment' = Len(sources) /\ Reads
  BY DEF OpenComment, Takes
<1>2. Good(files, blocks, Taken) /\ Len(Taken.sources) = Len(sources)
  BY TakenIs
<1>3. UNCHANGED texts /\ failed' \in BOOLEAN /\ alive' \in BOOLEAN /\ failed' = failed
  BY <1>1, StepEnds
<1>4. ReadOK(files, blocks)
  BY DEF IInv
<1>5. ReadOK(files, blocks)' /\ Fine(files, blocks, sources, stack, c00)'
      /\ sources' = Taken.sources
  BY <1>1, <1>2, <1>3, <1>4, BecomesFine
<1>6. Len(sources) \in Nat \ {0} /\ Len(sources) <= Capacity /\ Capacity \in Nat
  BY LenSources, SizesAre
<1>7. comment' \in 0 .. Capacity
  BY <1>1, <1>6
<1>8. ~failed'
  BY <1>1, <1>3 DEF Reads
<1>9. typed' \in 0 .. MaxLines
  BY <1>1, CountIs
<1>10. Stays /\ comment' = Len(sources')
  BY <1>1, <1>2, <1>5, <1>6 DEF Stays
<1> QED  BY <1>3, <1>5, <1>7, <1>8, <1>9, <1>10 DEF IInv

\* Tokens of a comment are passed over.
LEMMA SkipCommentKeeps ==
  ASSUME IInv, SkipComment
  PROVE  IInv' /\ Len(sources') = Len(sources) /\ comment' \in {0, comment}
<1>1. /\ InComment /\ Skimmed.token # << >> /\ Works /\ UNCHANGED <<stack, c00, typed>>
      /\ sources' = [sources EXCEPT ![comment] = Skimmed.source]
      /\ comment' \in {0, comment}
  BY DEF SkipComment
<1>2. /\ SourcesOK(files, blocks, sources) /\ StackOK(stack) /\ c00 \in Cells
         /\ ReadOK(files, blocks)
      /\ comment \in 0 .. Capacity /\ Len(sources) \in Nat \ {0} /\ Capacity \in Nat
  BY LenSources, SizesAre DEF IInv, Fine
<1>3. comment <= Len(sources)
  <2> SUFFICES ASSUME ~(comment <= Len(sources)) PROVE FALSE
    OBVIOUS
  <2>1. Skimmed = [token |-> << >>, ends |-> FALSE]
    BY DEF Skimmed
  <2> QED  BY <1>1, <2>1
<1>4. comment \in 1 .. Len(sources) /\ comment # 0
  BY <1>1, <1>2, <1>3 DEF InComment
<1> DEFINE s == sources[comment]
           t == Skimmed.source
<1>5. Skimmed = NextToken(s)
  BY <1>3 DEF Skimmed
<1>6. SourceOK(files, blocks, s)
  BY <1>2, <1>4 DEF SourcesOK
<1>7. Took(files, blocks, s, Skimmed)
  <2> HIDE DEF s
  <2> QED  BY <1>2, <1>5, <1>6, TokenIs
<1>8. SourceOK(files, blocks, t) /\ (IsKeyboard(t) <=> IsKeyboard(sources[comment]))
  BY <1>7 DEF Took, Like, IsKeyboard
<1>9. sources' = [sources EXCEPT ![comment] = t]
  BY <1>1
<1> HIDE DEF t, s
<1>10. SourcesOK(files, blocks, sources') /\ Len(sources') = Len(sources)
  <2> DEFINE k == comment
             q == sources
             p == [q EXCEPT ![k] = t]
  <2>1. SourcesOK(files, blocks, q) /\ k \in 1 .. Len(q) /\ (IsKeyboard(t) <=> IsKeyboard(q[k]))
    BY <1>2, <1>4, <1>8
  <2>2. sources' = p
    BY <1>9
  <2> HIDE DEF k
  <2>3. SourcesOK(files, blocks, p) /\ Len(p) = Len(q)
    <3> HIDE DEF q
    <3> QED  BY <1>8, <2>1, ReplacedIs
  <2> HIDE DEF p
  <2> QED  BY <2>2, <2>3
<1>11. UNCHANGED texts /\ failed' \in BOOLEAN /\ alive' \in BOOLEAN /\ failed' = failed
  BY <1>1, StepEnds
<1>12. ReadOK(files, blocks)' /\ Fine(files, blocks, sources, stack, c00)'
  BY <1>1, <1>2, <1>10, <1>11 DEF Fine, ReadOK, texts
<1>13. ~failed' /\ comment' \in 0 .. Capacity
  BY <1>1, <1>2, <1>11 DEF InComment
<1>14. typed' \in 0 .. MaxLines
  BY <1>1, CountIs
<1> QED  BY <1>1, <1>10, <1>11, <1>12, <1>13, <1>14 DEF IInv

\* What a call of REFILL does to the sources.
LEMMA RefillsIs ==
  ASSUME ReadOK(files, blocks), NEW m, Good(files, blocks, m), Readable(m),
         Refills(m, LAMBDA n : Becomes(n))
  PROVE  /\ \E t : Becomes(t) /\ Refilled(m, t) /\ Good(files, blocks, t)
         /\ UNCHANGED typed \/ (typed < MaxLines /\ typed' = typed + 1)
<1>1. CASE Asks(m)
  <2>1. PICK line \in Lines : Becomes(Refill(line, m))
    BY <1>1 DEF Refills
  <2>2. typed < MaxLines /\ typed' = typed + 1
    BY <1>1 DEF Refills
  <2> DEFINE t == Refill(line, m)
  <2>3. Typed(m, t) /\ Becomes(t)
    BY <2>1, TypedIs
  <2> HIDE DEF t
  <2>4. Refilled(m, t) /\ Good(files, blocks, t)
    BY <2>3, RefilledIs
  <2> QED  BY <2>2, <2>3, <2>4
<1>2. CASE ~Asks(m)
  <2> DEFINE t == Refill(<< >>, m)
  <2>1. Typed(m, t) /\ Becomes(t) /\ UNCHANGED typed
    BY <1>2, TypedIs DEF Refills
  <2> HIDE DEF t
  <2>2. Refilled(m, t) /\ Good(files, blocks, t)
    BY <2>1, RefilledIs
  <2> QED  BY <2>1, <2>2
<1> QED  BY <1>1, <1>2

\* The state behind the blanks of a comment's source.
LEMMA SpentIs ==
  ASSUME IInv, InComment
  PROVE  /\ Good(files, blocks, Spent) /\ ReadOK(files, blocks)
         /\ Len(Spent.sources) = Len(sources)
         /\ FileDone(Last(Spent.sources)) => FileDone(Last(sources))
<1>1. /\ Good(files, blocks, Now) /\ Now.sources = sources /\ Now.stack = stack /\ Now.c00 = c00
      /\ ReadOK(files, blocks)
  BY NowIs
<1>2. CASE ~(comment <= Len(sources))
  <2>1. Spent = Now
    BY <1>2 DEF Spent
  <2> QED  BY <1>1, <2>1
<1>3. CASE comment <= Len(sources)
  <2>1. /\ comment \in 1 .. Len(sources) /\ Len(sources) \in Nat \ {0}
        /\ SourcesOK(files, blocks, sources)
    BY <1>3, LenSources, SizesAre DEF IInv, InComment
  <2> DEFINE k == comment
             t == Skimmed.source
             q == sources
             p == [q EXCEPT ![k] = t]
  <2>2. Skimmed = NextToken(sources[comment])
    BY <1>3 DEF Skimmed
  <2>3. SourceOK(files, blocks, sources[comment])
    BY <2>1 DEF SourcesOK
  <2>4. Took(files, blocks, sources[comment], Skimmed)
    BY <1>1, <2>2, <2>3, TokenIs
  <2>5. SourceOK(files, blocks, t) /\ Like(q[k], t) /\ (IsKeyboard(t) <=> IsKeyboard(q[k]))
    BY <2>4 DEF Took, Like, IsKeyboard
  <2>6. Spent = [Now EXCEPT !.sources[k] = t]
    BY <1>3 DEF Spent
  <2>7. SourcesOK(files, blocks, q) /\ k \in 1 .. Len(q) /\ Len(q) \in Nat \ {0}
    BY <2>1
  <2>8. Now.sources = q
    BY <1>1
  <2> HIDE DEF k, t, q
  <2>9. /\ SourcesOK(files, blocks, p) /\ Len(p) = Len(q) /\ p[k] = t
        /\ \A j \in 1 .. Len(q) : j # k => p[j] = q[j]
    BY <2>5, <2>7, ReplacedIs
  <2>10. FileDone(Last(p)) => FileDone(Last(q))
    <3>1. Last(p) = p[Len(q)] /\ Last(q) = q[Len(q)]
      BY <2>9 DEF Last
    <3>2. CASE Len(q) = k
      BY <2>5, <2>9, <3>1, <3>2 DEF FileDone, Like
    <3>3. CASE Len(q) # k
      BY <2>7, <2>9, <3>1, <3>3
    <3> QED  BY <3>2, <3>3
  <2> HIDE DEF p
  <2>11. Spent = [Now EXCEPT !.sources = p]
    BY <2>6, <2>8 DEF Now, p
  <2>12. /\ Spent \in States /\ Spent.sources = p /\ Spent.stack = Now.stack
         /\ Spent.c00 = Now.c00
    BY <1>1, <2>9, <2>11 DEF Good, States, SourcesOK
  <2>13. Good(files, blocks, Spent)
    BY <1>1, <2>9, <2>12 DEF Good
  <2> QED  BY <1>1, <2>9, <2>10, <2>12, <2>13 DEF q
<1> QED  BY <1>2, <1>3

\* REFILL in a comment leaves no source, if the comment is closed.
LEMMA RefillCommentKeeps ==
  ASSUME IInv, RefillComment
  PROVE  /\ IInv' /\ UNCHANGED comment
         /\ Closed => Len(sources') = Len(sources)
<1>1. InComment /\ Skimmed.token = << >> /\ Works /\ UNCHANGED comment
  BY DEF RefillComment
<1>2. UNCHANGED texts /\ failed' \in BOOLEAN /\ alive' \in BOOLEAN /\ failed' = failed
  BY <1>1, StepEnds
<1>3. /\ Good(files, blocks, Spent) /\ ReadOK(files, blocks)
      /\ Len(Spent.sources) = Len(sources)
      /\ FileDone(Last(Spent.sources)) => FileDone(Last(sources))
  BY <1>1, SpentIs
<1>4. ~failed' /\ comment' \in 0 .. Capacity
  BY <1>1, <1>2 DEF InComment, IInv
<1>5. CASE Readable(Spent)
  <2>1. Refills(Spent, LAMBDA m : Becomes(m))
    BY <1>5 DEF RefillComment
  <2>2. /\ \E t : Becomes(t) /\ Refilled(Spent, t) /\ Good(files, blocks, t)
        /\ UNCHANGED typed \/ (typed < MaxLines /\ typed' = typed + 1)
    BY <1>3, <1>5, <2>1, RefillsIs
  <2>3. PICK t : Becomes(t) /\ Refilled(Spent, t) /\ Good(files, blocks, t)
    BY <2>2
  <2>4. typed' \in 0 .. MaxLines
    BY <2>2, CountIs
  <2>5. ReadOK(files, blocks)' /\ Fine(files, blocks, sources, stack, c00)' /\ sources' = t.sources
    BY <1>2, <1>3, <2>3, BecomesFine
  <2>6. Closed => Len(sources') = Len(sources)
    <3>1. Closed => ~FileDone(Last(sources))
      BY <1>1 DEF Closed
    <3>2. Len(t.sources) = Len(Spent.sources) \/ FileDone(Last(Spent.sources))
      BY <2>3 DEF Refilled
    <3> QED  BY <1>3, <2>5, <3>1, <3>2
  <2> QED  BY <1>1, <1>2, <1>4, <2>4, <2>5, <2>6 DEF IInv
<1>6. CASE ~Readable(Spent)
  <2>1. Becomes(Spent) /\ UNCHANGED typed
    BY <1>6 DEF RefillComment
  <2>2. /\ ReadOK(files, blocks)' /\ Fine(files, blocks, sources, stack, c00)'
        /\ sources' = Spent.sources
    BY <1>2, <1>3, <2>1, BecomesFine
  <2>3. typed' \in 0 .. MaxLines
    BY <2>1, CountIs
  <2> QED  BY <1>1, <1>2, <1>3, <1>4, <2>2, <2>3 DEF IInv
<1> QED  BY <1>5, <1>6

\* A comment that its block does not close.
LEMMA UnclosedInBlockKeeps ==
  ASSUME IInv, UnclosedInBlock
  PROVE  IInv' /\ Len(sources') = Len(sources) /\ comment' = 0
<1>1. InComment /\ comment' = 0 /\ Becomes(Spent) /\ Fails /\ UNCHANGED typed
  BY DEF UnclosedInBlock
<1>2. UNCHANGED texts /\ failed' \in BOOLEAN /\ alive' \in BOOLEAN
  BY <1>1, StepEnds
<1>3. /\ ReadOK(files, blocks)' /\ Fine(files, blocks, sources, stack, c00)'
      /\ Len(sources') = Len(sources)
  BY <1>1, <1>2, SpentIs, BecomesFine
<1>4. comment' \in 0 .. Capacity /\ typed' \in 0 .. MaxLines
  <2>1. 0 \in 0 .. Capacity
    BY SizesAre
  <2> QED  BY <1>1, <2>1, CountIs
<1> QED  BY <1>1, <1>2, <1>3, <1>4 DEF IInv

\* Where a comment to the end of its line ends.
LEMMA LineCommentKeeps ==
  ASSUME IInv, LineComment
  PROVE  IInv' /\ Len(sources') = Len(sources) /\ UNCHANGED comment
<1> DEFINE s == Next1.source
           EndsAt(i) == s.base[i] \in {"\n", "nul"} /\ i > s.in + 1 /\ s.base[i - 1] \notin Blanks
           end == {i \in s.in + 1 .. s.max : EndsAt(i)}
           last == IF end = {} THEN s.max ELSE Min(end)
           t == [s EXCEPT !.in = last, !.read = @ \o Tokens(SubSeq(s.base, s.in + 1, last))]
<1>1. /\ Reads /\ Next1.token = << "\\" >> /\ UNCHANGED <<comment, stack, c00, typed>> /\ Works
      /\ sources' = SetTop(t, Now).sources
  BY DEF LineComment, Takes
<1>2. /\ Took(files, blocks, Last(sources), Next1) /\ ReadOK(files, blocks)
  BY TakenIs DEF IInv
<1>3. SourceOK(files, blocks, s) /\ Like(Last(sources), s) /\ s.in <= s.max
  <2>1. << "\\" >> # << >>
    OBVIOUS
  <2> QED  BY <1>1, <1>2, <2>1 DEF Took
<1> HIDE DEF s
<1>4. s.in \in Nat /\ s.max \in Nat
  BY <1>3, SourceParts DEF SourceOK
<1>5. last \in s.in .. s.max /\ (last = s.max \/ s.base[last] \in Blanks)
  <2>1. CASE end = {}
    <3>1. last = s.max
      BY <2>1
    <3> HIDE DEF last
    <3> QED  BY <1>3, <1>4, <3>1
  <2>2. CASE end # {}
    <3>1. end \in SUBSET Nat
      BY <1>4
    <3>2. Min(end) \in end
      <4> HIDE DEF end
      <4> QED  BY <2>2, <3>1, LeastOf
    <3>3. last = Min(end)
      BY <2>2
    <3>4. Min(end) \in s.in + 1 .. s.max /\ s.base[Min(end)] \in {"\n", "nul"}
      BY <3>2
    <3> DEFINE k == Min(end)
    <3> HIDE DEF k, last
    <3>5. k \in s.in + 1 .. s.max /\ s.base[k] \in Blanks /\ last = k
      BY <3>3, <3>4 DEF k, Blanks
    <3> QED  BY <1>4, <3>5
  <2> QED  BY <2>1, <2>2
<1> HIDE DEF last
<1>6. SourceOK(files, blocks, t) /\ Like(s, t)
  BY <1>2, <1>3, <1>5, SkippedIs
<1> HIDE DEF t
<1>7. /\ Good(files, blocks, Now) /\ Now.sources = sources
  BY NowIs
<1>8. SameKind(t, Now)
  BY <1>3, <1>6, <1>7 DEF Like, SameKind, IsKeyboard
<1> DEFINE m == SetTop(t, Now)
<1>9. TopSet(files, blocks, t, Now, m)
  BY <1>6, <1>7, <1>8, SetTopIs
<1>10. sources' = m.sources
  BY <1>1
<1> HIDE DEF m
<1>11. SourcesOK(files, blocks, m.sources) /\ Len(m.sources) = Len(sources)
  BY <1>7, <1>9, StateParts DEF TopSet
<1>12. UNCHANGED texts /\ failed' \in BOOLEAN /\ alive' \in BOOLEAN
  BY <1>1, StepEnds
<1>13. ReadOK(files, blocks)' /\ Fine(files, blocks, sources, stack, c00)'
  BY <1>1, <1>10, <1>11, <1>12 DEF IInv, Fine, ReadOK, texts
<1>14. comment' \in 0 .. Capacity /\ comment' = 0 /\ typed' \in 0 .. MaxLines
  BY <1>1, CountIs DEF IInv, Reads
<1> QED  BY <1>1, <1>10, <1>11, <1>12, <1>13, <1>14 DEF IInv

-----------------------------------------------------------------------------
(* Words.                                                                  *)

\* A word leaves a good state that has at least the sources there were.
LEMMA WordKeeps ==
  ASSUME IInv, NEW m, Good(files, blocks, m), Becomes(m), Works \/ Fails \/ Dies,
         Reads, UNCHANGED <<comment, typed>>, Len(sources) <= Len(m.sources)
  PROVE  IInv' /\ Stays
<1>1. typed' \in 0 .. MaxLines /\ UNCHANGED comment
  BY CountIs
<1>2. IInv' /\ sources' = m.sources
  BY <1>1, WordStep
<1>3. Len(m.sources) \in Nat
  BY StateParts, CurrentIs
<1> QED  BY <1>2, <1>3 DEF Stays

\* What the state behind a token is.
LEMMA TakenHas ==
  ASSUME IInv
  PROVE  /\ Good(files, blocks, Taken) /\ Taken.stack = stack /\ Taken.c00 = c00
         /\ Len(sources) <= Len(Taken.sources) /\ Len(Taken.sources) = Len(sources)
         /\ Len(sources) \in Nat
<1>1. Good(files, blocks, Taken) /\ Taken.stack = stack /\ Taken.c00 = c00
      /\ Len(Taken.sources) = Len(sources)
  BY TakenIs
<1>2. Len(sources) \in Nat \ {0}
  BY LenSources
<1> QED  BY <1>1, <1>2

\* A word that does nothing.
LEMMA PlainKeeps ==
  ASSUME IInv, Plain
  PROVE  IInv' /\ Stays
<1>1. Becomes(Taken) /\ Works /\ UNCHANGED <<comment, typed>> /\ Reads
  BY DEF Plain, Takes
<1>2. Good(files, blocks, Taken) /\ Len(sources) <= Len(Taken.sources)
  BY TakenHas
<1> QED  BY <1>1, <1>2, WordKeeps

\* What is no word.
LEMMA UnknownKeeps ==
  ASSUME IInv, Unknown
  PROVE  IInv' /\ Stays
<1>1. Becomes(Taken) /\ Fails /\ UNCHANGED <<comment, typed>> /\ Reads
  BY DEF Unknown
<1>2. Good(files, blocks, Taken) /\ Len(sources) <= Len(Taken.sources)
  BY TakenHas
<1> QED  BY <1>1, <1>2, WordKeeps

\* A number is pushed.
LEMMA NumberKeeps ==
  ASSUME IInv, NEW n \in {"0", "1", "2"}, Number(n)
  PROVE  IInv' /\ Stays
<1> DEFINE k == CHOOSE i \in 0 .. 2 : <<"0", "1", "2">>[i + 1] = n
           v == <<"number", k>>
           m == Push(v, Taken)
<1>1. Becomes(m) /\ Works /\ UNCHANGED <<comment, typed>> /\ Reads
  BY DEF Number, Takes
<1>2. k \in 0 .. 2
  <2>1. \E i \in 0 .. 2 : <<"0", "1", "2">>[i + 1] = n
    <3>1. <<"0", "1", "2">>[1] = "0" /\ <<"0", "1", "2">>[2] = "1" /\ <<"0", "1", "2">>[3] = "2"
      OBVIOUS
    <3>2. 0 + 1 = 1 /\ 1 + 1 = 2 /\ 2 + 1 = 3 /\ 0 \in 0 .. 2 /\ 1 \in 0 .. 2 /\ 2 \in 0 .. 2
      OBVIOUS
    <3>3. n = "0" \/ n = "1" \/ n = "2"
      OBVIOUS
    <3> QED  BY <3>1, <3>2, <3>3
  <2> QED  BY <2>1
<1>3. v \in Cells
  <2> HIDE DEF k
  <2>1. k \in Int
    BY <1>2
  <2> QED  BY <2>1, CellsAre
<1>4. Good(files, blocks, Taken) /\ Len(sources) <= Len(Taken.sources)
  BY TakenHas
<1> HIDE DEF v
<1>5. Good(files, blocks, m) /\ m.sources = Taken.sources
  BY <1>3, <1>4, PushIs
<1> HIDE DEF m
<1> QED  BY <1>1, <1>4, <1>5, WordKeeps

\* A string is pushed.
LEMMA StringKeeps ==
  ASSUME IInv, NEW w \in DOMAIN Strings, String(w)
  PROVE  IInv' /\ Stays
<1> DEFINE v == Addr(Strings[w])
           u == PushC00(v, Taken)
           m == Push(Length, u)
<1>1. Becomes(m) /\ Works /\ UNCHANGED <<comment, typed>> /\ Reads
  BY DEF String, Takes
<1>2. v \in Cells
  <2>1. Strings[w] \in Texts /\ (Tidy => EndsBlank(Strings[w]))
    BY SourcesAssumption DEF Texts, Tidy
  <2> QED  BY <2>1, CellsAre
<1>3. Good(files, blocks, Taken) /\ Len(sources) <= Len(Taken.sources)
  BY TakenHas
<1> HIDE DEF v
<1>4. Good(files, blocks, u) /\ u.sources = Taken.sources
  BY <1>2, <1>3, PushC00Is
<1> HIDE DEF u
<1>5. Good(files, blocks, m) /\ m.sources = u.sources
  BY <1>4, CellsAre, PushIs
<1> HIDE DEF m
<1> QED  BY <1>1, <1>3, <1>4, <1>5, WordKeeps

\* A stack of one cell, and of two.
LEMMA OneCell ==
  ASSUME NEW q, StackOK(q), ~(Len(q) < 1)
  PROVE  q # << >> /\ Last(q) \in Cells
<1>1. q # << >>
  <2>1. Len(<< >>) = 0 /\ 0 < 1
    OBVIOUS
  <2> QED  BY <2>1
<1> QED  BY <1>1, StackFrontIs

\* What is below the top.
LEMMA TwoCells ==
  ASSUME NEW q, StackOK(q), ~(Len(q) < 2)
  PROVE  /\ q # << >> /\ Last(q) \in Cells /\ Front(q) # << >> /\ Last(Front(q)) \in Cells
         /\ StackOK(Front(q)) /\ StackOK(Front(Front(q))) /\ Front(Front(q)) \in Seq(Cells)
<1>1. Len(q) \in Nat
  BY LenProperties DEF StackOK
<1>2. ~(Len(q) < 1)
  BY <1>1
<1>3. q # << >> /\ Last(q) \in Cells
  BY <1>2, OneCell
<1>4. StackOK(Front(q)) /\ Len(Front(q)) = Len(q) - 1
  BY <1>3, StackFrontIs
<1>5. ~(Len(Front(q)) < 1)
  BY <1>1, <1>4
<1>6. Front(q) # << >> /\ Last(Front(q)) \in Cells
  BY <1>4, <1>5, OneCell
<1>7. StackOK(Front(Front(q))) /\ Front(Front(q)) \in Seq(Cells)
  BY <1>4, <1>6, StackFrontIs
<1> QED  BY <1>3, <1>4, <1>6, <1>7

\* A word that expects more cells than there are.
LEMMA TooFew ==
  ASSUME IInv, Becomes(Taken), Fails, Reads, UNCHANGED <<comment, typed>>
  PROVE  IInv' /\ Stays
<1>1. Good(files, blocks, Taken) /\ Len(sources) <= Len(Taken.sources)
  BY TakenHas
<1> QED  BY <1>1, WordKeeps

\* DROP, and that there is something to drop.
LEMMA DropKeeps ==
  ASSUME IInv, Drop
  PROVE  IInv' /\ Stays
<1>1. UNCHANGED <<comment, typed>> /\ Reads
  BY DEF Drop, Takes
<1>2. IF Len(stack) < 1 THEN Becomes(Taken) /\ Fails ELSE Becomes(PopC00(Taken)) /\ Works
  BY DEF Drop, Expects
<1>3. CASE Len(stack) < 1
  BY <1>1, <1>2, <1>3, TooFew
<1>4. CASE ~(Len(stack) < 1)
  <2>1. Good(files, blocks, Taken) /\ Len(sources) <= Len(Taken.sources) /\ Taken.stack = stack
    BY TakenHas
  <2>2. stack # << >>
    <3>1. StackOK(stack)
      BY DEF IInv, Fine
    <3> QED  BY <1>4, <3>1, OneCell
  <2> DEFINE m == PopC00(Taken)
  <2>3. Good(files, blocks, m) /\ m.sources = Taken.sources
    BY <2>1, <2>2, PopC00Is
  <2>4. Becomes(m) /\ Works
    BY <1>2, <1>4
  <2> HIDE DEF m
  <2> QED  BY <1>1, <2>1, <2>3, <2>4, WordKeeps
<1> QED  BY <1>3, <1>4

\* The state behind two cells, with the lower one in the register.
LEMMA TwoPopped ==
  ASSUME IInv, ~(Len(stack) < 2)
  PROVE  LET m == PopC00(PopC00(Taken))
         IN  /\ Good(files, blocks, m) /\ Len(sources) <= Len(m.sources) /\ m.c00 \in Cells
             /\ m.c00 = Last(Front(stack))
<1>1. Good(files, blocks, Taken) /\ Len(sources) <= Len(Taken.sources) /\ Taken.stack = stack
  BY TakenHas
<1>2. stack # << >> /\ Front(stack) # << >> /\ Last(Front(stack)) \in Cells
  <2>1. StackOK(stack)
    BY DEF IInv, Fine
  <2> QED  BY <2>1, TwoCells
<1> DEFINE u == PopC00(Taken)
           m == PopC00(u)
<1>3. Good(files, blocks, u) /\ u.sources = Taken.sources /\ u.stack = Front(stack)
  BY <1>1, <1>2, PopC00Is
<1> HIDE DEF u
<1>4. Good(files, blocks, m) /\ m.sources = u.sources /\ m.c00 = Last(u.stack)
  BY <1>2, <1>3, PopC00Is
<1> HIDE DEF m
<1>5. /\ Good(files, blocks, m) /\ Len(sources) <= Len(m.sources) /\ m.c00 \in Cells
      /\ m.c00 = Last(Front(stack))
  BY <1>1, <1>2, <1>3, <1>4
<1> QED  BY <1>5 DEF m, u

\* EVALUATE pushes the source of a string.
LEMMA EvaluateKeeps ==
  ASSUME IInv, Evaluate
  PROVE  IInv' /\ Stays
<1> DEFINE m == PopC00(PopC00(Taken))
           path == m.c00
           u == [m EXCEPT !.c00 = Length]
           s == Evaluated(path[2])
           t == PushSource(s, u)
<1>1. UNCHANGED <<comment, typed>> /\ Reads
  BY DEF Evaluate, Takes
<1>2. IF Len(stack) < 2 THEN Becomes(Taken) /\ Fails
      ELSE IF Last(stack) = Length /\ path[1] = "addr" /\ path[2] # << >>
           THEN Becomes(t) /\ Works
           ELSE Becomes(m) /\ Dies
  BY DEF Evaluate, Expects
<1>3. CASE Len(stack) < 2
  BY <1>1, <1>2, <1>3, TooFew
<1>4. CASE ~(Len(stack) < 2)
  <2>1. Good(files, blocks, m) /\ Len(sources) <= Len(m.sources) /\ path \in Cells
    BY <1>4, TwoPopped
  <2>2. IF Last(stack) = Length /\ path[1] = "addr" /\ path[2] # << >>
        THEN Becomes(t) /\ Works ELSE Becomes(m) /\ Dies
    BY <1>2, <1>4
  <2> HIDE DEF m
  <2>3. CASE Last(stack) = Length /\ path[1] = "addr" /\ path[2] # << >>
    <3>1. path[2] \in Texts /\ (Tidy => EndsBlank(path[2]))
      <4> HIDE DEF path
      <4> QED  BY <2>1, <2>3, CellIs
    <3>2. Good(files, blocks, u) /\ u.sources = m.sources
      BY <2>1, CellsAre, C00Is
    <3>3. Becomes(t) /\ Works
      BY <2>2, <2>3
    <3> HIDE DEF u, path
    <3>4. SourceOK(files, blocks, s) /\ ~IsKeyboard(s)
      <4>1. ReadOK(files, blocks)
        BY DEF IInv
      <4> QED  BY <3>1, <4>1, EvaluatedIs
    <3> HIDE DEF s
    <3>5. Good(files, blocks, t) /\ Len(u.sources) <= Len(t.sources)
      BY <3>2, <3>4, PushSourceIs
    <3> HIDE DEF t
    <3>6. Len(sources) <= Len(t.sources)
      <4>1. Len(sources) \in Nat /\ Len(u.sources) \in Nat /\ Len(t.sources) \in Nat
        BY <3>2, <3>5, TakenHas, StateParts, CurrentIs
      <4> QED  BY <2>1, <3>2, <3>5, <4>1
    <3> QED  BY <1>1, <3>3, <3>5, <3>6, WordKeeps
  <2>4. CASE ~(Last(stack) = Length /\ path[1] = "addr" /\ path[2] # << >>)
    <3>1. Becomes(m) /\ Dies
      BY <2>2, <2>4
    <3> QED  BY <1>1, <2>1, <3>1, WordKeeps
  <2> QED  BY <2>3, <2>4
<1> QED  BY <1>3, <1>4

\* LOAD pushes the source of a block.
LEMMA LoadKeeps ==
  ASSUME IInv, Load
  PROVE  IInv' /\ Stays
<1> DEFINE m == PopC00(Taken)
           n == m.c00
           s == Block(n[2])
           t == PushSource(s, m)
<1>1. UNCHANGED <<comment, typed>> /\ Reads
  BY DEF Load, Takes
<1>2. IF Len(stack) < 1 THEN Becomes(Taken) /\ Fails
      ELSE IF n[1] = "number" /\ n[2] \in DOMAIN blocks THEN Becomes(t) /\ Works
           ELSE Becomes(m) /\ Fails
  BY DEF Load, Expects
<1>3. CASE Len(stack) < 1
  BY <1>1, <1>2, <1>3, TooFew
<1>4. CASE ~(Len(stack) < 1)
  <2>1. Good(files, blocks, Taken) /\ Len(sources) <= Len(Taken.sources) /\ Taken.stack = stack
    BY TakenHas
  <2>2. stack # << >>
    <3>1. StackOK(stack)
      BY DEF IInv, Fine
    <3> QED  BY <1>4, <3>1, OneCell
  <2>3. Good(files, blocks, m) /\ m.sources = Taken.sources
    BY <2>1, <2>2, PopC00Is
  <2>4. Len(sources) <= Len(m.sources)
    BY <2>1, <2>3
  <2>5. IF n[1] = "number" /\ n[2] \in DOMAIN blocks THEN Becomes(t) /\ Works
        ELSE Becomes(m) /\ Fails
    BY <1>2, <1>4
  <2> HIDE DEF m
  <2>6. CASE n[1] = "number" /\ n[2] \in DOMAIN blocks
    <3>1. Becomes(t) /\ Works
      BY <2>5, <2>6
    <3>2. SourceOK(files, blocks, s) /\ ~IsKeyboard(s)
      <4> DEFINE b == n[2]
      <4>1. ReadOK(files, blocks) /\ b \in DOMAIN blocks
        BY <2>6 DEF IInv
      <4> HIDE DEF b
      <4>2. SourceOK(files, blocks, Block(b)) /\ ~IsKeyboard(Block(b))
        BY <4>1, BlockIs
      <4> QED  BY <4>2 DEF b
    <3> HIDE DEF s
    <3>3. Good(files, blocks, t) /\ Len(m.sources) <= Len(t.sources)
      BY <2>3, <3>2, PushSourceIs
    <3> HIDE DEF t
    <3>4. Len(sources) <= Len(t.sources)
      <4>1. Len(sources) \in Nat /\ Len(m.sources) \in Nat /\ Len(t.sources) \in Nat
        BY <2>3, <3>3, TakenHas, StateParts, CurrentIs
      <4> QED  BY <2>4, <3>3, <4>1
    <3> QED  BY <1>1, <3>1, <3>3, <3>4, WordKeeps
  <2>7. CASE ~(n[1] = "number" /\ n[2] \in DOMAIN blocks)
    <3>1. Becomes(m) /\ Fails
      BY <2>5, <2>7
    <3> QED  BY <1>1, <2>3, <2>4, <3>1, WordKeeps
  <2> QED  BY <2>6, <2>7
<1> QED  BY <1>3, <1>4

\* Less of the stack, with a cell in the register.
Less(q, v, m) == [m EXCEPT !.stack = q, !.c00 = v]

\* A state with this stack and this cell.
LEMMA LeftIs ==
  ASSUME NEW fs, NEW bs, NEW m, Good(fs, bs, m), NEW q, StackOK(q), NEW v \in Cells
  PROVE  Good(fs, bs, Less(q, v, m)) /\ Less(q, v, m).sources = m.sources
<1>1. m \in States /\ SourcesOK(fs, bs, m.sources) /\ q \in Seq(Cells)
  BY DEF Good, StackOK
<1> DEFINE t == Less(q, v, m)
<1>2. t \in States /\ t.sources = m.sources /\ t.stack = q
  BY <1>1 DEF States, Less
<1> HIDE DEF t
<1>3. Good(fs, bs, t) /\ t.sources = m.sources
  BY <1>1, <1>2 DEF Good
<1> QED  BY <1>3 DEF t

\* A state that comes of m, and what the step says of it.
Leads(m, t) ==
  /\ Good(files, blocks, t) /\ Becomes(t) /\ (Works \/ Fails \/ Dies)
  /\ Len(m.sources) <= Len(t.sources)

\* The new source is pushed; to make it as long as its line changes nothing.
LEMMA FilePushed ==
  ASSUME ReadOK(files, blocks), NEW m, Good(files, blocks, m), Len(m.sources) < Capacity,
         NEW f \in DOMAIN files
  PROVE  LET pushed == PushSource(Opened(f), m)
             t == SetTop([Last(pushed.sources) EXCEPT !.max = Len(FileLine(f, 0).line)], pushed)
         IN  Good(files, blocks, t) /\ Len(m.sources) <= Len(t.sources)
<1> DEFINE new == Opened(f)
           k == Len(FileLine(f, 0).line)
           pushed == PushSource(new, m)
           last == Last(pushed.sources)
           e == [last EXCEPT !.max = k]
           t == SetTop(e, pushed)
<1>1. SourceOK(files, blocks, new) /\ new.id = 3 /\ new.max = k
  BY OpenedIs
<1>2. SourcesOK(files, blocks, m.sources)
  BY StateParts
<1> HIDE DEF new, k
<1>3. ~IsKeyboard(new)
  <2>1. 3 # 0
    OBVIOUS
  <2> QED  BY <1>1, <2>1, Zenon DEF IsKeyboard
<1>4. Good(files, blocks, pushed) /\ pushed.sources = Append(m.sources, new)
      /\ Len(m.sources) <= Len(pushed.sources)
  <2>1. Good(files, blocks, PushSource(new, m)) /\ Len(m.sources) <= Len(PushSource(new, m).sources)
    BY <1>1, <1>3, PushSourceIs
  <2>2. PushSource(new, m).sources = Append(m.sources, new)
    <3>1. m \in States
      BY StateParts
    <3> QED  BY <3>1 DEF PushSource, States
  <2> QED  BY <2>1, <2>2
<1> HIDE DEF pushed
<1>5. last = new
  BY <1>1, <1>2, <1>3, <1>4, AddedIs
<1> HIDE DEF last
<1>6. e = new
  <2>1. last \in SourceSet /\ last.max = k
    BY <1>1, <1>5 DEF SourceOK
  <2>2. e = last
    BY <2>1 DEF SourceSet
  <2> QED  BY <1>5, <2>2
<1> HIDE DEF e
<1>7. SourceOK(files, blocks, e) /\ SameKind(e, pushed)
  BY <1>1, <1>5, <1>6 DEF SameKind, last
<1>8. TopSet(files, blocks, e, pushed, t)
  BY <1>4, <1>7, SetTopIs
<1> HIDE DEF t
<1>9. Good(files, blocks, t) /\ Len(m.sources) <= Len(t.sources)
  BY <1>4, <1>8 DEF TopSet
<1> QED  BY <1>9 DEF t, e, k, last, pushed, new

\* A file is opened, when there is room for it.
LEMMA OpensIs ==
  ASSUME ReadOK(files, blocks), NEW m, Good(files, blocks, m), ~(Len(m.stack) < 2),
         Len(m.sources) < Capacity, Opens(m)
  PROVE  \E t : Leads(m, t)
<1> DEFINE len  == Last(m.stack)
           path == Last(Front(m.stack))
           left == [m EXCEPT !.stack = Front(Front(@)), !.c00 = len]
           name == Front(path[2])
           f    == name[1]
           r    == FileLine(f, 0)
           pushed == PushSource(Opened(f), left)
           t    == SetTop([Last(pushed.sources) EXCEPT !.max = Len(r.line)], pushed)
<1>1. \/ Becomes(left) /\ Dies
      \/ Becomes(left) /\ Fails
      \/ f \in DOMAIN files /\ Becomes(t) /\ Works
  BY DEF Opens, Opened
<1>2. StackOK(m.stack) /\ SourcesOK(files, blocks, m.sources)
  BY StateParts
<1>3. StackOK(Front(Front(m.stack))) /\ len \in Cells
  BY <1>2, TwoCells
<1>4. Good(files, blocks, left) /\ left.sources = m.sources
  <2> DEFINE q == Front(Front(m.stack))
  <2>1. left = Less(q, len, m) /\ StackOK(q)
    BY <1>3 DEF Good, States, Less
  <2> HIDE DEF q, left, len
  <2>2. Good(files, blocks, Less(q, len, m)) /\ Less(q, len, m).sources = m.sources
    BY <1>3, <2>1, LeftIs
  <2> QED  BY <2>1, <2>2
<1> HIDE DEF left, f
<1>5. CASE Becomes(left) /\ (Dies \/ Fails)
  <2>1. Len(m.sources) <= Len(left.sources)
    <3>1. Len(m.sources) \in Nat
      BY <1>2, CurrentIs
    <3> QED  BY <1>4, <3>1
  <2>2. Leads(m, left)
    BY <1>4, <1>5, <2>1 DEF Leads
  <2> QED  BY <2>2
<1>6. CASE f \in DOMAIN files /\ Becomes(t) /\ Works
  <2>1. Good(files, blocks, t) /\ Len(left.sources) <= Len(t.sources)
    <3>1. Len(left.sources) < Capacity
      BY <1>4
    <3> QED  BY <1>4, <1>6, <3>1, FilePushed
  <2>2. Becomes(t) /\ Works
    BY <1>6
  <2> HIDE DEF t
  <2>3. Leads(m, t)
    BY <1>4, <2>1, <2>2 DEF Leads
  <2> QED  BY <2>3
<1> QED  BY <1>1, <1>5, <1>6

\* To open a file keeps the invariant.
LEMMA OpensKeeps ==
  ASSUME IInv, NEW m, Good(files, blocks, m), ~(Len(m.stack) < 2), Len(m.sources) = Len(sources),
         Len(sources) < Capacity, Opens(m), Reads, UNCHANGED <<comment, typed>>
  PROVE  IInv' /\ Stays
<1>1. ReadOK(files, blocks) /\ Len(m.sources) < Capacity
  BY DEF IInv
<1>2. PICK t : Leads(m, t)
  BY <1>1, OpensIs
<1>3. Good(files, blocks, t) /\ Becomes(t) /\ (Works \/ Fails \/ Dies)
      /\ Len(sources) <= Len(t.sources)
  BY <1>2 DEF Leads
<1> QED  BY <1>3, WordKeeps

\* There is room for a source where a file is opened.
LEMMA RoomIs ==
  ASSUME IInv, Roomy, Takes("include") \/ Takes("included")
  PROVE  Len(sources) < Capacity
<1>1. Len(sources) \in Nat \ {0} /\ Len(sources) <= Capacity /\ Capacity \in Nat
  BY LenSources, SizesAre
<1>2. Len(sources) # Capacity
  BY DEF Roomy
<1> QED  BY <1>1, <1>2

\* INCLUDED opens the file whose name is on the stack.
LEMMA IncludedKeeps ==
  ASSUME IInv, Roomy, Included
  PROVE  IInv' /\ Stays
<1>1. Takes("included") /\ UNCHANGED <<comment, typed>> /\ Reads
  BY DEF Included, Takes
<1>2. IF Len(stack) < 2 THEN Becomes(Taken) /\ Fails ELSE Opens(Taken)
  BY DEF Included, Expects
<1>3. CASE Len(stack) < 2
  BY <1>1, <1>2, <1>3, TooFew
<1>4. CASE ~(Len(stack) < 2)
  <2>1. Good(files, blocks, Taken) /\ Taken.stack = stack /\ Len(Taken.sources) = Len(sources)
    BY TakenHas
  <2>2. Len(sources) < Capacity
    BY <1>1, RoomIs
  <2>3. Opens(Taken) /\ ~(Len(Taken.stack) < 2)
    BY <1>2, <1>4, <2>1
  <2> QED  BY <1>1, <2>1, <2>2, <2>3, OpensKeeps
<1> QED  BY <1>3, <1>4

\* Two cells that are pushed are two cells, on a stack of at least two.
LEMMA TwoPushed ==
  ASSUME NEW q, StackOK(q), NEW v \in Cells, NEW w \in Cells
  PROVE  ~(Len(Grown(Grown(q, v), w)) < 2)
<1> DEFINE p == Grown(q, v)
           o == Grown(p, w)
<1>1. StackOK(p) /\ Len(p) = (IF Len(q) < Limit THEN Len(q) + 1 ELSE Len(q))
  BY GrownIs
<1>2. Len(q) \in Nat /\ Len(q) <= Limit /\ Limit \in Nat /\ Limit > 1
  BY SizesAre, LenProperties DEF StackOK
<1> HIDE DEF p
<1>3. Len(o) = IF Len(p) < Limit THEN Len(p) + 1 ELSE Len(p)
  BY <1>1, GrownIs
<1> HIDE DEF o
<1>4. ~(Len(o) < 2)
  BY <1>1, <1>2, <1>3
<1> QED  BY <1>4 DEF o, p

\* INCLUDE opens the file whose name is the next token.
LEMMA IncludeKeeps ==
  ASSUME IInv, Roomy, Include
  PROVE  IInv' /\ Stays
<1> DEFINE n == NextToken(Next1.source)
           name == IF n.token = << >> THEN << >> ELSE Append(n.token, " ")
           addr == Addr(name)
           b == SetTop(n.source, Now)
           u == Push(addr, b)
           m == Push(Length, u)
<1>1. Takes("include") /\ UNCHANGED <<comment, typed>> /\ Reads
  BY DEF Include, Takes
<1>2. Opens(m)
  <2>1. addr = Addr(IF n.token = << >> THEN << >> ELSE Append(n.token, " "))
    OBVIOUS
  <2>2. Addr(IF n.token = << >> THEN << >> ELSE Append(n.token, " ")) = addr
    BY <2>1
  <2> QED  BY Zenon DEF Include
<1>3. Len(sources) < Capacity
  BY <1>1, RoomIs
<1>4. Good(files, blocks, Now) /\ Now.sources = sources /\ Now.stack = stack
      /\ ReadOK(files, blocks)
  BY NowIs
<1>5. Took(files, blocks, Last(sources), Next1)
  BY TakenIs
<1>6. Took(files, blocks, Next1.source, n)
  <2>1. SourceOK(files, blocks, Next1.source)
    BY <1>5 DEF Took
  <2> QED  BY <1>4, <2>1, TokenIs
<1> HIDE DEF n
<1>7. addr \in Cells
  <2>1. n.token \in Texts
    BY <1>6 DEF Took
  <2>2. name \in Texts /\ EndsBlank(name)
    <3>1. CASE n.token = << >>
      BY <3>1, LinesAre
    <3>2. CASE n.token # << >>
      <4>1. " " \in Symbols /\ " " \in Blanks
        BY SourcesAssumption DEF Blanks
      <4>2. name = Append(n.token, " ")
        BY <3>2
      <4> DEFINE w == n.token
      <4>3. name = Append(w, " ") /\ w \in Seq(Symbols)
        BY <2>1, <4>2 DEF Texts
      <4> HIDE DEF w, name
      <4>4. name \in Seq(Symbols) /\ Len(name) = Len(w) + 1 /\ name[Len(w) + 1] = " "
        BY <4>1, <4>3, AppendProperties
      <4> QED  BY <4>1, <4>4 DEF EndsBlank, Last, Texts
    <3> QED  BY <3>1, <3>2
  <2> HIDE DEF name
  <2> QED  BY <2>2, CellsAre
<1> HIDE DEF addr
<1>8. TopSet(files, blocks, n.source, Now, b)
  <2>1. SourceOK(files, blocks, n.source) /\ SameKind(n.source, Now)
    BY <1>4, <1>5, <1>6 DEF Took, Like, SameKind, IsKeyboard
  <2> QED  BY <1>4, <2>1, SetTopIs
<1> HIDE DEF b
<1>9. Good(files, blocks, b) /\ Len(b.sources) = Len(sources) /\ b.stack = stack
  BY <1>4, <1>8 DEF TopSet
<1>10. Good(files, blocks, u) /\ u.sources = b.sources /\ u.stack = Grown(b.stack, addr)
  BY <1>7, <1>9, PushIs
<1> HIDE DEF u
<1>11. Good(files, blocks, m) /\ m.sources = u.sources /\ m.stack = Grown(u.stack, Length)
  BY <1>10, CellsAre, PushIs
<1> HIDE DEF m
<1>12. ~(Len(m.stack) < 2)
  <2>1. StackOK(b.stack)
    BY <1>9, StateParts
  <2>2. ~(Len(Grown(Grown(b.stack, addr), Length)) < 2)
    BY <1>7, <2>1, CellsAre, TwoPushed
  <2> QED  BY <1>10, <1>11, <2>2
<1>13. Len(m.sources) = Len(sources)
  BY <1>9, <1>10, <1>11
<1> QED  BY <1>1, <1>2, <1>3, <1>11, <1>12, <1>13, OpensKeeps

\* REFILL, called by a program.
LEMMA RefillWordKeeps ==
  ASSUME IInv, RefillWord
  PROVE  IInv' /\ (Tidy => Leaving) /\ UNCHANGED comment
<1>1. Takes("refill") /\ UNCHANGED comment /\ Reads /\ Next1.token # << >>
  <2>1. << "refill" >> # << >>
    OBVIOUS
  <2> QED  BY <2>1 DEF RefillWord, Takes
<1>2. /\ Good(files, blocks, Taken) /\ Len(Taken.sources) = Len(sources)
      /\ Last(Taken.sources) = Next1.source /\ Took(files, blocks, Last(sources), Next1)
  BY TakenIs
<1>3. Len(sources) \in Nat \ {0} /\ ReadOK(files, blocks)
  BY LenSources DEF IInv
<1>4. CASE Readable(Taken)
  <2>1. Refills(Taken, LAMBDA m : Becomes(m)) /\ Works
    BY <1>4 DEF RefillWord
  <2>2. /\ \E t : Becomes(t) /\ Refilled(Taken, t) /\ Good(files, blocks, t)
        /\ UNCHANGED typed \/ (typed < MaxLines /\ typed' = typed + 1)
    BY <1>2, <1>3, <1>4, <2>1, RefillsIs
  <2>3. PICK t : Becomes(t) /\ Refilled(Taken, t) /\ Good(files, blocks, t)
    BY <2>2
  <2>4. typed' \in 0 .. MaxLines
    BY <2>2, CountIs
  <2>5. IInv' /\ sources' = t.sources
    BY <1>1, <2>1, <2>3, <2>4, WordStep
  <2>6. \/ Len(t.sources) = Len(sources)
        \/ FileDone(Next1.source) /\ t.sources = Front(sources)
    <3>1. \/ Len(t.sources) = Len(Taken.sources)
          \/ FileDone(Next1.source) /\ t.sources = Front(Taken.sources)
      BY <1>2, <2>3 DEF Refilled
    <3> QED  BY <1>2, <3>1, TakenFront
  <2>7. CASE Len(t.sources) = Len(sources)
    <3>1. ~(Len(sources') < Len(sources))
      BY <1>3, <2>5, <2>7
    <3> QED  BY <1>1, <2>5, <3>1 DEF Leaving
  <2>8. CASE FileDone(Next1.source) /\ t.sources = Front(sources)
    <3> DEFINE u == Next1.source
    <3>1. /\ SourceOK(files, blocks, u) /\ u.id = 3 /\ FileLine(u.file, u.at).eof
          /\ FileLine(u.file, u.at).line = << >>
      BY <1>2, <2>8 DEF FileDone, Took
    <3> HIDE DEF u
    <3>2. Tokens(Left(files, u.file, u.at)) = << >>
      BY <1>3, <3>1, FileEndIs
    <3>3. Tidy => Last(sources).read \o Tokens(Rest(Last(sources))) = Tokens(Last(sources).text)
      BY <3>2, AtItsEnd DEF u
    <3> QED  BY <1>1, <2>5, <2>8, <3>3 DEF Leaving
  <2> QED  BY <2>6, <2>7, <2>8
<1>5. CASE ~Readable(Taken)
  <2>1. Becomes(Taken) /\ Dies /\ UNCHANGED <<comment, typed>>
    BY <1>5 DEF RefillWord
  <2>2. Len(sources) <= Len(Taken.sources)
    BY <1>2, <1>3
  <2>3. IInv' /\ Stays
    BY <1>1, <1>2, <2>1, <2>2, WordKeeps
  <2>4. ~(Len(sources') < Len(sources))
    BY <1>3, <2>3 DEF Stays
  <2> QED  BY <1>1, <2>3, <2>4 DEF Leaving
<1> QED  BY <1>4, <1>5

\* Only the keyboard is left.
LEMMA AloneKeeps ==
  ASSUME IInv, sources' = OnlyKeyboard, UNCHANGED texts, failed' \in BOOLEAN, alive' \in BOOLEAN,
         UNCHANGED <<comment, c00, typed>>, comment = 0, StackOK(stack)'
  PROVE  IInv' /\ Len(sources') = 1
<1>1. SourcesOK(files, blocks, sources) /\ ReadOK(files, blocks)
  BY LenSources DEF IInv
<1>2. SourcesOK(files, blocks, << Blanked(sources[1]) >>)
  BY <1>1, AloneIs
<1>3. sources' = << Blanked(sources[1]) >>
  BY DEF OnlyKeyboard, Blanked
<1> DEFINE k == Blanked(sources[1])
<1> HIDE DEF k
<1>4. SourcesOK(files, blocks, << k >>) /\ sources' = << k >>
  BY <1>2, <1>3 DEF k
<1>5. Len(sources') = 1
  BY <1>4
<1>6. ReadOK(files, blocks)' /\ Fine(files, blocks, sources, stack, c00)'
  BY <1>1, <1>4 DEF IInv, Fine, ReadOK, texts
<1> QED  BY <1>5, <1>6 DEF IInv

\* ABORT leaves the keyboard.
LEMMA AbortKeeps ==
  ASSUME IInv, Abort
  PROVE  IInv' /\ Len(sources') = 1 /\ comment' = 0 /\ sources' = OnlyKeyboard
<1>1. sources' = OnlyKeyboard /\ stack' = << >> /\ Works /\ UNCHANGED <<comment, c00, typed>>
      /\ comment = 0
  BY DEF Abort, Takes, Reads
<1>2. UNCHANGED texts /\ failed' \in BOOLEAN /\ alive' \in BOOLEAN
  BY <1>1, StepEnds
<1>3. StackOK(stack)'
  <2>1. << >> \in Seq(Cells) /\ Len(<< >>) = 0
    OBVIOUS
  <2>2. 0 <= Limit
    BY SizesAre
  <2> QED  BY <1>1, <2>1, <2>2 DEF StackOK
<1> QED  BY <1>1, <1>2, <1>3, AloneKeeps

\* The debugger aborts.
LEMMA DebuggerAbortKeeps ==
  ASSUME IInv, DebuggerAbort
  PROVE  IInv' /\ Len(sources') = 1 /\ comment' = 0 /\ sources' = OnlyKeyboard
<1>1. sources' = OnlyKeyboard /\ UNCHANGED <<texts, comment, stack, c00, alive, typed>>
      /\ failed' = FALSE /\ comment = 0
  BY DEF IInv, DebuggerAbort
<1>2. StackOK(stack)' /\ alive' \in BOOLEAN /\ failed' \in BOOLEAN
  BY <1>1 DEF IInv, Fine, StackOK
<1> QED  BY <1>1, <1>2, AloneKeeps

\* The debugger goes on.
LEMMA ContinueKeeps ==
  ASSUME IInv, Continue
  PROVE  IInv' /\ UNCHANGED <<sources, comment>>
<1>1. /\ failed' = FALSE /\ UNCHANGED <<files, blocks, sources, comment, stack, c00, alive, typed>>
  BY DEF Continue, texts
<1> QED  BY <1>1 DEF IInv, Fine, ReadOK

\* The machine begins at the keyboard.
LEMMA InitKeeps ==
  ASSUME Init
  PROVE  IInv /\ CommentInSource
<1>1. /\ ReadOK(files, blocks) /\ sources = << Keyboard(<< >>) >> /\ comment = 0 /\ stack = << >>
      /\ c00 = FORTH_FALSE /\ failed = FALSE /\ alive = TRUE /\ typed = 0
  BY DEF Init, ReadOK
<1> DEFINE k == Keyboard(<< >>)
<1>2. SourceOK(files, blocks, k) /\ IsKeyboard(k)
  BY <1>1, LinesAre, KeyboardIs
<1>3. sources = << k >>
  BY <1>1
<1> HIDE DEF k
<1>4. SourcesOK(files, blocks, << k >>)
  <2>1. k \in SourceSet /\ Capacity \in Nat \ {0}
    BY <1>2, SizesAre DEF SourceOK
  <2>2. << k >> \in Seq(SourceSet) /\ Len(<< k >>) = 1 /\ << k >>[1] = k /\ 1 \in 1 .. Capacity
    BY <2>1
  <2>3. \A i \in 1 .. Len(<< k >>) : i = 1
    BY <2>2
  <2> QED  BY <1>2, <2>2, <2>3 DEF SourcesOK
<1>5. StackOK(<< >>)
  <2>1. << >> \in Seq(Cells) /\ Len(<< >>) = 0
    OBVIOUS
  <2>2. 0 <= Limit
    BY SizesAre
  <2> QED  BY <2>1, <2>2 DEF StackOK
<1>6. Fine(files, blocks, sources, stack, c00)
  BY <1>1, <1>3, <1>4, <1>5, CellsAre DEF Fine
<1>7. 0 \in 0 .. Capacity /\ 0 \in 0 .. MaxLines
  BY SizesAre
<1> QED  BY <1>1, <1>6, <1>7 DEF IInv, CommentInSource

\* Nothing happens.
LEMMA StutterKeeps ==
  ASSUME IInv, UNCHANGED vars
  PROVE  IInv' /\ UNCHANGED <<sources, comment>>
  BY DEF IInv, Fine, ReadOK, vars, texts

\* Words that leave every source: all but REFILL and what aborts.
Word ==
  \/ Drop \/ Evaluate \/ Load \/ Include \/ Included \/ Plain \/ Unknown
  \/ \E n \in {"0", "1", "2"} : Number(n)
  \/ \E w \in DOMAIN Strings : String(w)

\* These words keep the invariant.
LEMMA WordsKeep ==
  ASSUME IInv, Roomy, Word
  PROVE  IInv' /\ Stays /\ comment' = 0
<1>1. IInv' /\ Stays
  <2>1. CASE Drop
    BY <2>1, DropKeeps
  <2>2. CASE Evaluate
    BY <2>2, EvaluateKeeps
  <2>3. CASE Load
    BY <2>3, LoadKeeps
  <2>4. CASE Include
    BY <2>4, IncludeKeeps
  <2>5. CASE Included
    BY <2>5, IncludedKeeps
  <2>6. CASE Plain
    BY <2>6, PlainKeeps
  <2>7. CASE Unknown
    BY <2>7, UnknownKeeps
  <2>8. CASE \E n \in {"0", "1", "2"} : Number(n)
    BY <2>8, NumberKeeps
  <2>9. CASE \E w \in DOMAIN Strings : String(w)
    BY <2>9, StringKeeps
  <2> QED  BY <2>1, <2>2, <2>3, <2>4, <2>5, <2>6, <2>7, <2>8, <2>9 DEF Word
<1>2. UNCHANGED comment /\ Reads
  BY DEF Word, Drop, Evaluate, Load, Include, Included, Plain, Unknown, Number, String, Takes
<1> QED  BY <1>1, <1>2 DEF Reads

\* Every step is one of these.
LEMMA NextIs ==
  ASSUME Next
  PROVE  \/ LineEnd \/ OpenComment \/ SkipComment \/ RefillComment \/ UnclosedInBlock \/ LineComment
         \/ RefillWord \/ Word \/ Abort \/ Continue \/ DebuggerAbort
  BY DEF Next, System, Word

-----------------------------------------------------------------------------
(* The invariant is kept.                                                  *)

\* Every step of a program for which there is room keeps the invariant.
LEMMA StepKeeps ==
  ASSUME IInv, Roomy, [Next]_vars
  PROVE  IInv'
<1>1. CASE LineEnd
  BY <1>1, LineEndKeeps
<1>2. CASE OpenComment
  BY <1>2, OpenCommentKeeps
<1>3. CASE SkipComment
  BY <1>3, SkipCommentKeeps
<1>4. CASE RefillComment
  BY <1>4, RefillCommentKeeps
<1>5. CASE UnclosedInBlock
  BY <1>5, UnclosedInBlockKeeps
<1>6. CASE LineComment
  BY <1>6, LineCommentKeeps
<1>7. CASE RefillWord
  BY <1>7, RefillWordKeeps
<1>8. CASE Word
  BY <1>8, WordsKeep
<1>9. CASE Abort
  BY <1>9, AbortKeeps
<1>10. CASE Continue
  BY <1>10, ContinueKeeps
<1>11. CASE DebuggerAbort
  BY <1>11, DebuggerAbortKeeps
<1>12. CASE UNCHANGED vars
  BY <1>12, StutterKeeps
<1> QED  BY <1>1, <1>2, <1>3, <1>4, <1>5, <1>6, <1>7, <1>8, <1>9, <1>10, <1>11, <1>12, NextIs

\* The invariant says that the types are right.
LEMMA TypesHold ==
  ASSUME IInv
  PROVE  TypeOK
<1>1. /\ SourcesOK(files, blocks, sources) /\ StackOK(stack) /\ Len(sources) \in 1 .. Capacity
      /\ comment \in 0 .. Capacity /\ failed \in BOOLEAN /\ alive \in BOOLEAN
         /\ typed \in 0 .. MaxLines
      /\ sources \in Seq(SourceSet) /\ stack \in Seq(Cells) /\ Len(stack) <= Limit
  BY DEF IInv, Fine, SourcesOK, StackOK
<1>2. \A i \in DOMAIN sources :
        LET s == sources[i]
        IN  /\ s.in \in 0 .. Len(s.base) /\ s.max \in 0 .. Len(s.base)
            /\ (s.id = 0 /\ s.blk = 0) = (i = 1)
  <2> SUFFICES ASSUME NEW i \in DOMAIN sources
               PROVE  /\ sources[i].in \in 0 .. Len(sources[i].base)
                      /\ sources[i].max \in 0 .. Len(sources[i].base)
                      /\ (sources[i].id = 0 /\ sources[i].blk = 0) = (i = 1)
    BY Zenon
  <2>1. i \in 1 .. Len(sources)
    BY <1>1
  <2>2. SourceOK(files, blocks, sources[i]) /\ (IsKeyboard(sources[i]) <=> i = 1)
    BY <1>1, <2>1 DEF SourcesOK
  <2>3. (sources[i].id = 0 /\ sources[i].blk = 0) <=> (i = 1)
    BY <2>2 DEF IsKeyboard
  <2> QED  BY <2>2, <2>3 DEF SourceOK
<1>3. \A i \in DOMAIN stack : stack[i][1] \in CellsOf
  <2> SUFFICES ASSUME NEW i \in DOMAIN stack PROVE stack[i][1] \in CellsOf
    OBVIOUS
  <2>1. stack[i] \in Cells
    BY <1>1
  <2> QED  BY <2>1, CellIs
<1> QED  BY <1>1, <1>2, <1>3 DEF TypeOK

\* The invariant says that no token is lost.
LEMMA NothingIsSkipped ==
  ASSUME IInv, Tidy
  PROVE  NothingSkipped
<1> SUFFICES ASSUME NEW i \in DOMAIN sources
             PROVE  LET s == sources[i]
                    IN  s.read \o Tokens(Rest(s)) \o Tokens(RestOfFile(s)) = Tokens(s.text)
  BY DEF NothingSkipped
<1>1. SourcesOK(files, blocks, sources) /\ sources \in Seq(SourceSet)
  BY DEF IInv, Fine, SourcesOK
<1>2. i \in 1 .. Len(sources)
  BY <1>1
<1> DEFINE s == sources[i]
<1>3. Right(files, s)
  BY <1>1, <1>2 DEF SourcesOK, SourceOK
<1> HIDE DEF s
<1>4. RestOfFile(s) = Left(files, s.file, s.at)
  BY DEF RestOfFile, Left
<1>5. s.read \o Tokens(Rest(s)) \o Tokens(RestOfFile(s)) = Tokens(s.text)
  BY <1>3, <1>4 DEF Right
<1> QED  BY <1>5 DEF s

\* Every step leaves a source at its end, if at all.
LEMMA StepLeaves ==
  ASSUME IInv, Roomy, Closed, Tidy, [Next]_vars
  PROVE  Leaving
<1>1. Len(sources) \in Nat \ {0}
  BY LenSources
<1>2. ASSUME Len(sources') = Len(sources) \/ Stays PROVE Leaving
  <2>1. ~(Len(sources') < Len(sources))
    BY <1>1, <1>2 DEF Stays
  <2> QED  BY <2>1 DEF Leaving
<1>3. CASE LineEnd
  BY <1>3, LineEndLeaves
<1>4. CASE OpenComment
  BY <1>2, <1>4, OpenCommentKeeps
<1>5. CASE SkipComment
  BY <1>2, <1>5, SkipCommentKeeps
<1>6. CASE RefillComment
  BY <1>2, <1>6, RefillCommentKeeps
<1>7. CASE UnclosedInBlock
  BY <1>2, <1>7, UnclosedInBlockKeeps
<1>8. CASE LineComment
  BY <1>2, <1>8, LineCommentKeeps
<1>9. CASE RefillWord
  BY <1>9, RefillWordKeeps
<1>10. CASE Word
  BY <1>2, <1>10, WordsKeep
<1>11. CASE Abort \/ DebuggerAbort
  <2>1. sources' = OnlyKeyboard
    BY <1>11, AbortKeeps, DebuggerAbortKeeps
  <2> QED  BY <2>1 DEF Leaving
<1>12. CASE Continue
  BY <1>2, <1>12, ContinueKeeps
<1>13. CASE UNCHANGED vars
  BY <1>2, <1>13, StutterKeeps
<1> QED  BY <1>3, <1>4, <1>5, <1>6, <1>7, <1>8, <1>9, <1>10, <1>11, <1>12, <1>13, NextIs

\* Every step keeps a comment in the current source.
LEMMA StepComments ==
  ASSUME IInv, Roomy, Closed, CommentInSource, [Next]_vars
  PROVE  CommentInSource'
<1>1. comment \in {0, Len(sources)}
  BY DEF CommentInSource
<1>2. ASSUME comment' = 0 \/ comment' = Len(sources')
             \/ (Len(sources') = Len(sources) /\ comment' \in {0, comment})
      PROVE  CommentInSource'
  BY <1>1, <1>2 DEF CommentInSource
<1>3. CASE LineEnd
  BY <1>2, <1>3 DEF LineEnd, AtEnd, Reads
<1>4. CASE OpenComment
  BY <1>2, <1>4, OpenCommentKeeps
<1>5. CASE SkipComment
  BY <1>2, <1>5, SkipCommentKeeps
<1>6. CASE RefillComment
  BY <1>2, <1>6, RefillCommentKeeps
<1>7. CASE UnclosedInBlock
  BY <1>2, <1>7, UnclosedInBlockKeeps
<1>8. CASE LineComment
  BY <1>2, <1>8, LineCommentKeeps
<1>9. CASE RefillWord
  BY <1>2, <1>9 DEF RefillWord, Takes, Reads
<1>10. CASE Word
  BY <1>2, <1>10, WordsKeep
<1>11. CASE Abort \/ DebuggerAbort
  BY <1>2, <1>11, AbortKeeps, DebuggerAbortKeeps
<1>12. CASE Continue
  BY <1>2, <1>12, ContinueKeeps
<1>13. CASE UNCHANGED vars
  BY <1>2, <1>13, StutterKeeps
<1> QED  BY <1>3, <1>4, <1>5, <1>6, <1>7, <1>8, <1>9, <1>10, <1>11, <1>12, <1>13, NextIs

-----------------------------------------------------------------------------
(* Theorems.                                                               *)

\* The invariant holds.
LEMMA InvariantHolds == Spec /\ []Roomy => []IInv
<1>1. Init => IInv
  BY InitKeeps
<1>2. IInv /\ Roomy /\ [Next]_vars => IInv'
  BY StepKeeps
<1> QED  BY <1>1, <1>2, PTL DEF Spec

\* The input stack is never empty nor over its capacity, only its bottom is the
\* keyboard, every source reads within its buffer and the data stack stays within
\* its limit, for all texts and sizes, unless a file is opened on a full input
\* stack (TypeOK: stack/input_stack.c:44-76, words/askforth_words.c:3256-3436).
THEOREM TypeCorrect == Spec /\ []Roomy => []TypeOK
<1>1. IInv => TypeOK
  BY TypesHold
<1> QED  BY <1>1, InvariantHolds, PTL

\* What was taken from every source and what is left of it, in its buffer and in
\* its file, are the tokens of its text in their order, for all texts with ended
\* lines that fit the buffer, however sources nest, fail and are refilled
\* (NothingSkipped: stack/input_stack.c:44-76, words/askforth_words.c:3256-3436).
THEOREM ReadWhole ==
  ASSUME Tidy
  PROVE  Spec /\ []Roomy => []NothingSkipped
<1>1. IInv => NothingSkipped
  BY NothingIsSkipped
<1> QED  BY <1>1, InvariantHolds, PTL

\* A source that is left has been read to its end, unless everything is aborted
\* (EndsAtEnd: vm/forth_vm.c:446-454, words/askforth_words.c:3415-3422).
THEOREM LeftAtEnd ==
  ASSUME Tidy
  PROVE  Spec /\ []Roomy /\ []Closed => EndsAtEnd
<1>1. IInv /\ Roomy /\ Closed /\ [Next]_vars => [Leaving]_vars
  BY StepLeaves
<1>2. Spec /\ []Roomy /\ []Closed => [][Leaving]_vars
  BY <1>1, InvariantHolds, PTL DEF Spec
<1>3. [Leaving]_vars <=>
      [Len(sources') < Len(sources) /\ sources' # OnlyKeyboard =>
         LET s == Last(sources)
         IN  /\ sources' = Front(sources)
             /\ s.read
                \o (IF Takes("refill") THEN Tokens(Rest(s)) ELSE << >>) = Tokens(s.text)]_vars
  BY DEF Leaving
<1> QED  BY <1>2, <1>3, PTL DEF EndsAtEnd

\* The end of a line of any source leaves the data stack to the program, as long
\* as it is not full: what REFILL pushes is what is taken off again
\* (LineEndKeepsStack: vm/forth_vm.c:446-454).
THEOREM StackKept ==
  ASSUME LinesEnd
  PROVE  Spec /\ []Roomy => LineEndKeepsStack
<1>1. IInv /\ [Next]_vars => [LineEnd /\ Len(stack) < Limit => stack' = stack /\ alive']_vars
  BY LineEndStack
<1> QED  BY <1>1, InvariantHolds, PTL DEF Spec, LineEndKeepsStack

\* An open comment reads the current source, however it was refilled
\* (CommentInSource: words/askforth_words.c:1483-1501).
THEOREM CommentsStay == Spec /\ []Roomy /\ []Closed => []CommentInSource
<1>1. Init => CommentInSource
  BY InitKeeps
<1>2. IInv /\ Roomy /\ Closed /\ CommentInSource /\ [Next]_vars => CommentInSource'
  BY StepComments
<1> QED  BY <1>1, <1>2, InvariantHolds, PTL DEF Spec
===============================================================================
