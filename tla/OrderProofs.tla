----------------------------- MODULE OrderProofs -----------------------------
(***************************************************************************)
(* Proofs that on ThreadedVM disciplined programs run in the order of      *)
(* their text.                                                             *)
(***************************************************************************)
EXTENDS Discipline, ThreadedVMProofs, FiniteSetTheorems

-----------------------------------------------------------------------------
(* The inductive invariant.                                                *)

\* The input sources up to n and, in front of them, the words of the frames fs.
Expect(n, fs) ==
  [i \in 1 .. n + Len(fs) |-> IF i <= n THEN InSource(i)
                              ELSE InWord(fs[i - n].word, fs[i - n].ip)]

\* Where activation x goes on.
Ctx(x) == InWord(x.word, IF x.at = "run" THEN x.ip ELSE x.ip + 1)

\* What waits behind the innermost activation: the frames and, below them, the
\* word that called EXECUTE.
Waiting == IF Len(execs) = 2 THEN << Resume(execs[1]) >> \o tframes ELSE tframes

AtEnd(f) == Code[f.word][f.ip].op = "endword"
AllAtEnd == \A i \in DOMAIN tframes : AtEnd(tframes[i])
AllSure  == \A i \in DOMAIN tframes : tframes[i].word \in Sure

\* A word that EXECUTEs lies below all others, a word that opens a source has
\* only finished words below it.
Ordered ==
  \A i \in DOMAIN tframes :
    /\ tframes[i].word \in First => i = 1
    /\ tframes[i].word \in Opening => \A j \in 1 .. i - 1 : AtEnd(tframes[j])

\* The top source was opened by a word.
BareTop == Len(istack) >= 2 /\ Top(istack).kind = "string" /\ Top(istack).text \in Bare

\* Between activations: every kept word was called from the top source; the top
\* source was opened by the kept words, which are all at their end; the top
\* source is at its end, and so are the kept words.
IdleLevel ==
  /\ cont = Expect(Len(istack), tframes)
  /\ HasToken => tframes = << >>
  /\ pc \in {"drain", "drained"} => ~HasToken
  /\ pc = "drained" => depth = Len(istack)

IdleOpened ==
  /\ BareTop /\ AllAtEnd
  /\ cont = Append(Expect(Len(istack) - 1, tframes), InSource(Len(istack)))
  /\ pc # "drain"
  /\ pc = "drained" => depth # Len(istack)

IdleEnding ==
  /\ Len(istack) >= 2 /\ Exhausted(Top(istack)) /\ AllAtEnd
  /\ cont = Expect(Len(istack) - 1, tframes)
  /\ pc \in {"drain", "drained"} /\ ~Failed
  /\ pc = "drained" => depth = Len(istack)

\* The same three with a live activation.
BusyLevel ==
  LET x == Last(execs)
  IN  /\ Len(execs) \in {1, 2}
      /\ cont = Append(Expect(Len(istack), Waiting), Ctx(x))
      /\ \A i \in DOMAIN execs : execs[i].src = Len(istack)
      /\ x.word \in First => tframes = << >> /\ Len(execs) = 1
      /\ x.word \in Opening => AllAtEnd
      /\ Len(execs) = 2 => x.word \in Sure /\ AllSure /\ ~Failed
      /\ HasToken => (\A i \in DOMAIN execs : execs[i].word \in Sure) /\ AllSure /\ ~Failed
      /\ pc = "drained" => depth = Len(istack) /\ ~HasToken

BusyOpened ==
  LET x == Last(execs)
  IN  /\ Len(execs) = 1 /\ x.at = "native" /\ BareTop /\ x.src # Len(istack)
      /\ AllAtEnd /\ Code[x.word][x.ip + 1].op = "endword"
      /\ x.word \in First => tframes = << >>
      /\ cont = Append(Append(Expect(Len(istack) - 1, tframes), Ctx(x)), InSource(Len(istack)))
      /\ ~Failed
      /\ pc = "drained" => depth # Len(istack)

BusyEnding ==
  LET x == Last(execs)
  IN  /\ Len(execs) = 1 /\ x.at = "run" /\ Op(x).op = "endword" /\ AllAtEnd
      /\ Len(istack) >= 2 /\ Exhausted(Top(istack))
      /\ cont = Append(Expect(Len(istack) - 1, tframes), Ctx(x))
      /\ pc = "drained" /\ depth = Len(istack) /\ ~Failed

Idle == IdleLevel \/ IdleOpened \/ IdleEnding
Busy == BusyLevel \/ BusyOpened \/ BusyEnding

DInv == Ordered /\ (IF execs = << >> THEN Idle ELSE Busy)
-----------------------------------------------------------------------------
(* Histories.                                                              *)

LEMMA Contexts2 ==
  /\ \A w \in Words, i \in Nat, d \in Nat : InWord(w, i) # InSource(d)
  /\ \A d, e \in Nat : InSource(d) = InSource(e) => d = e
  /\ \A w \in Words, i \in Nat : "word" \in DOMAIN InWord(w, i)
  /\ \A d \in Nat : "word" \notin DOMAIN InSource(d)
<1>1. /\ \A w \in Words, i \in Nat : "word" \in DOMAIN InWord(w, i)
      /\ \A d \in Nat : "word" \notin DOMAIN InSource(d)
  BY DEF InWord, InSource
<1>2. \A d, e \in Nat : InSource(d) = InSource(e) => d = e
  BY DEF InSource
<1>3. \A w \in Words, i \in Nat, d \in Nat : InWord(w, i) # InSource(d)
  BY <1>1
<1> QED  BY <1>1, <1>2, <1>3

LEMMA KeptContext ==
  ASSUME NEW f \in Kept
  PROVE  /\ f.word \in Words /\ f.ip \in Nat /\ f.ip \in DOMAIN Code[f.word]
         /\ InWord(f.word, f.ip) \in Contexts
BY NewContext DEF Kept, Frames

LEMMA Expected ==
  ASSUME NEW n \in Nat, NEW fs \in Seq(Kept)
  PROVE  /\ Expect(n, fs) \in Seq(Contexts)
         /\ Len(Expect(n, fs)) = n + Len(fs)
         /\ \A i \in 1 .. n : Expect(n, fs)[i] = InSource(i)
         /\ \A i \in 1 .. Len(fs) : Expect(n, fs)[n + i] = InWord(fs[i].word, fs[i].ip)
<1> DEFINE m == n + Len(fs)
           e(i) == IF i <= n THEN InSource(i) ELSE InWord(fs[i - n].word, fs[i - n].ip)
<1>1. Len(fs) \in Nat /\ m \in Nat /\ \A i \in 1 .. Len(fs) : fs[i] \in Kept
  BY LenProperties, ElementOfSeq
<1>2. \A i \in 1 .. m : e(i) \in Contexts
  <2> SUFFICES ASSUME NEW i \in 1 .. m PROVE e(i) \in Contexts
    OBVIOUS
  <2>1. CASE i <= n
    BY <1>1, <2>1, NewContext
  <2>2. CASE ~(i <= n)
    <3>1. i - n \in 1 .. Len(fs)
      BY <1>1, <2>2
    <3> QED  BY <1>1, <2>2, <3>1, KeptContext
  <2> QED  BY <2>1, <2>2
<1>3. Expect(n, fs) = [i \in 1 .. m |-> e(i)]
  BY DEF Expect
<1> HIDE DEF e
<1>4. Expect(n, fs) \in Seq(Contexts) /\ Len(Expect(n, fs)) = m
  BY <1>1, <1>2, <1>3
<1>5. \A i \in 1 .. n : Expect(n, fs)[i] = InSource(i)
  BY <1>1, <1>3 DEF e
<1>6. \A i \in 1 .. Len(fs) : Expect(n, fs)[n + i] = InWord(fs[i].word, fs[i].ip)
  <2> SUFFICES ASSUME NEW i \in 1 .. Len(fs)
               PROVE  Expect(n, fs)[n + i] = InWord(fs[i].word, fs[i].ip)
    OBVIOUS
  <2>1. n + i \in 1 .. m /\ ~(n + i <= n) /\ (n + i) - n = i
    BY <1>1
  <2> QED  BY <1>3, <2>1 DEF e
<1> QED  BY <1>4, <1>5, <1>6

\* One more frame.
LEMMA Grown ==
  ASSUME NEW S, NEW q \in Seq(S), NEW x \in S
  PROVE  /\ Append(q, x) \in Seq(S) /\ Append(q, x) # << >>
         /\ Len(Append(q, x)) = Len(q) + 1 /\ Append(q, x)[Len(q) + 1] = x
BY AppendProperties

LEMMA ExpectMore ==
  ASSUME NEW n \in Nat, NEW fs \in Seq(Kept), NEW f \in Kept
  PROVE  Expect(n, Append(fs, f)) = Append(Expect(n, fs), InWord(f.word, f.ip))
<1> DEFINE gs == Append(fs, f)
           l == Len(fs)
<1>1. /\ gs \in Seq(Kept) /\ Len(gs) = l + 1 /\ l \in Nat
      /\ \A i \in 1 .. l : gs[i] = fs[i]
      /\ gs[l + 1] = f
  BY AppendProperties, LenProperties
<1> HIDE DEF gs
<1> DEFINE a == Expect(n, gs)
           b == Expect(n, fs)
           c == Append(b, InWord(f.word, f.ip))
<1>2. /\ a \in Seq(Contexts) /\ Len(a) = n + (l + 1)
      /\ \A i \in 1 .. n : a[i] = InSource(i)
      /\ \A i \in 1 .. l + 1 : a[n + i] = InWord(gs[i].word, gs[i].ip)
  BY <1>1, Expected
<1>3. /\ b \in Seq(Contexts) /\ Len(b) = n + l
      /\ \A i \in 1 .. n : b[i] = InSource(i)
      /\ \A i \in 1 .. l : b[n + i] = InWord(fs[i].word, fs[i].ip)
  BY Expected
<1> HIDE DEF l
<1>4. InWord(f.word, f.ip) \in Contexts
  BY KeptContext
<1> HIDE DEF a, b
<1>5. /\ c \in Seq(Contexts) /\ Len(c) = n + l + 1
      /\ \A i \in 1 .. n + l : c[i] = b[i]
      /\ c[n + l + 1] = InWord(f.word, f.ip)
  BY <1>1, <1>3, <1>4, AppendProperties
<1> HIDE DEF c
<1>6. \A i \in 1 .. Len(a) : a[i] = c[i]
  <2> SUFFICES ASSUME NEW i \in 1 .. Len(a) PROVE a[i] = c[i]
    OBVIOUS
  <2>1. CASE i <= n
    BY <1>1, <1>2, <1>3, <1>5, <2>1
  <2>2. CASE ~(i <= n)
    <3>1. PICK j \in 1 .. l + 1 : i = n + j
      <4>1. i - n \in 1 .. l + 1 /\ i = n + (i - n)
        BY <1>1, <1>2, <2>2
      <4> QED  BY <4>1
    <3>2. CASE j = l + 1
      BY <1>1, <1>2, <1>5, <3>1, <3>2
    <3>3. CASE j # l + 1
      <4>1. j \in 1 .. l /\ n + j \in 1 .. n + l
        BY <1>1, <3>3
      <4>2. b[n + j] = InWord(gs[j].word, gs[j].ip)
        BY <1>1, <1>3, <4>1
      <4>3. a[n + j] = InWord(gs[j].word, gs[j].ip)
        BY <1>2
      <4> QED  BY <1>5, <3>1, <4>1, <4>2, <4>3
    <3> QED  BY <3>2, <3>3
  <2> QED  BY <2>1, <2>2
<1>7. Len(a) = Len(c)
  BY <1>1, <1>2, <1>5
<1>8. a = c
  BY <1>2, <1>5, <1>6, <1>7, SeqEqual
<1> QED  BY <1>8 DEF a, b, c, gs

LEMMA Parts ==
  ASSUME NEW S, NEW s \in Seq(S), s # << >>
  PROVE  s = Append(Front(s), Last(s))
<1> DEFINE t == Front(s)
           e == Last(s)
<1>1. /\ t \in Seq(S) /\ Len(t) = Len(s) - 1 /\ e \in S /\ e = s[Len(s)]
      /\ \A i \in 1 .. Len(s) - 1 : t[i] = s[i]
      /\ Len(s) \in Nat \ {0}
  BY Popped
<1> HIDE DEF t, e
<1>2. /\ Append(t, e) \in Seq(S) /\ Len(Append(t, e)) = Len(s)
      /\ \A i \in 1 .. Len(s) - 1 : Append(t, e)[i] = s[i]
      /\ Append(t, e)[Len(s)] = s[Len(s)]
  BY <1>1, AppendProperties
<1> DEFINE u == Append(t, e)
<1> HIDE DEF u
<1>3. u \in Seq(S) /\ Len(u) = Len(s) /\ \A i \in 1 .. Len(s) : u[i] = s[i]
  BY <1>1, <1>2 DEF u
<1>4. u = s
  BY <1>3, SeqEqual
<1> QED  BY <1>4 DEF u, t, e

LEMMA ExpectTop ==
  ASSUME NEW n \in Nat, NEW fs \in Seq(Kept), fs # << >>
  PROVE  /\ Front(fs) \in Seq(Kept) /\ Last(fs) \in Kept
         /\ Expect(n, fs) = Append(Expect(n, Front(fs)), InWord(Last(fs).word, Last(fs).ip))
<1> DEFINE t == Front(fs)
           e == Last(fs)
<1>1. t \in Seq(Kept) /\ e \in Kept
  BY Popped
<1>2. fs = Append(t, e)
  BY Parts
<1> HIDE DEF t, e
<1>3. Expect(n, Append(t, e)) = Append(Expect(n, t), InWord(e.word, e.ip))
  BY <1>1, ExpectMore
<1> QED  BY <1>1, <1>2, <1>3 DEF t, e

\* Without frames, one more source.
LEMMA ExpectSource ==
  ASSUME NEW n \in Nat, NEW fs, fs = << >>
  PROVE  Expect(n + 1, fs) = Append(Expect(n, fs), InSource(n + 1))
<1>1. fs \in Seq(Kept) /\ Len(fs) = 0
  BY EmptySeq
<1> DEFINE a == Expect(n + 1, fs)
           b == Expect(n, fs)
           c == Append(b, InSource(n + 1))
<1>2. ASSUME NEW m \in Nat
      PROVE  /\ Expect(m, fs) \in Seq(Contexts) /\ Len(Expect(m, fs)) = m
             /\ \A i \in 1 .. m : Expect(m, fs)[i] = InSource(i)
  <2>1. /\ Expect(m, fs) \in Seq(Contexts) /\ Len(Expect(m, fs)) = m + Len(fs)
        /\ \A i \in 1 .. m : Expect(m, fs)[i] = InSource(i)
    BY <1>1, Expected
  <2> QED  BY <1>1, <2>1
<1>3. /\ a \in Seq(Contexts) /\ Len(a) = n + 1 /\ \A i \in 1 .. n + 1 : a[i] = InSource(i)
  <2>1. n + 1 \in Nat
    OBVIOUS
  <2> QED  BY <1>2, <2>1
<1>4. /\ b \in Seq(Contexts) /\ Len(b) = n /\ \A i \in 1 .. n : b[i] = InSource(i)
  BY <1>2
<1>5. InSource(n + 1) \in Contexts
  BY NewContext
<1> HIDE DEF a, b
<1>6. /\ c \in Seq(Contexts) /\ Len(c) = n + 1
      /\ \A i \in 1 .. n : c[i] = b[i]
      /\ c[n + 1] = InSource(n + 1)
  BY <1>4, <1>5, AppendProperties
<1> HIDE DEF c
<1>7. a = c
  BY <1>3, <1>4, <1>6, SeqEqual
<1> QED  BY <1>7 DEF a, b, c

LEMMA OneMore ==
  ASSUME NEW S, NEW s \in Seq(S), NEW e \in S
  PROVE  s \o << e >> = Append(s, e)
<1> DEFINE o == << e >>
           a == s \o o
           b == Append(s, e)
<1>1. o \in Seq(S) /\ Len(o) = 1 /\ o[1] = e /\ Len(s) \in Nat
  BY LenProperties
<1> HIDE DEF o
<1>2. /\ a \in Seq(S) /\ Len(a) = Len(s) + Len(o)
      /\ \A i \in 1 .. Len(s) + Len(o) : a[i] = IF i <= Len(s) THEN s[i] ELSE o[i - Len(s)]
  BY <1>1, ConcatProperties
<1>3. /\ b \in Seq(S) /\ Len(b) = Len(s) + 1
      /\ \A i \in 1 .. Len(s) : b[i] = s[i]
      /\ b[Len(s) + 1] = e
  BY AppendProperties
<1> HIDE DEF a, b
<1>4. Len(a) = Len(b) /\ \A i \in 1 .. Len(a) : a[i] = b[i]
  BY <1>1, <1>2, <1>3
<1>5. a = b
  BY <1>2, <1>3, <1>4, SeqEqual
<1> QED  BY <1>5 DEF a, b, o

LEMMA TwoMore ==
  ASSUME NEW S, NEW s \in Seq(S), NEW y \in S, NEW z \in S
  PROVE  s \o << y, z >> = Append(Append(s, y), z)
<1> DEFINE p == << y, z >>
           a == s \o p
           b == Append(s, y)
           d == Append(b, z)
<1>1. p \in Seq(S) /\ Len(p) = 2 /\ p[1] = y /\ p[2] = z /\ Len(s) \in Nat
  BY LenProperties
<1> HIDE DEF p
<1>2. /\ a \in Seq(S) /\ Len(a) = Len(s) + Len(p)
      /\ \A i \in 1 .. Len(s) + Len(p) : a[i] = IF i <= Len(s) THEN s[i] ELSE p[i - Len(s)]
  BY <1>1, ConcatProperties
<1>3. /\ b \in Seq(S) /\ Len(b) = Len(s) + 1
      /\ \A i \in 1 .. Len(s) : b[i] = s[i]
      /\ b[Len(s) + 1] = y
  BY AppendProperties
<1> HIDE DEF b
<1>4. /\ d \in Seq(S) /\ Len(d) = Len(b) + 1
      /\ \A i \in 1 .. Len(b) : d[i] = b[i]
      /\ d[Len(b) + 1] = z
  BY <1>3, AppendProperties
<1> HIDE DEF a, d
<1>5. Len(a) = Len(s) + 2 /\ Len(d) = Len(s) + 2
  BY <1>1, <1>2, <1>3, <1>4
<1>6. \A i \in 1 .. Len(a) : a[i] = d[i]
  <2> SUFFICES ASSUME NEW i \in 1 .. Len(s) + 2 PROVE a[i] = d[i]
    BY <1>5
  <2>1. a[i] = IF i <= Len(s) THEN s[i] ELSE p[i - Len(s)]
    BY <1>1, <1>2
  <2>2. CASE i <= Len(s)
    BY <1>1, <1>3, <1>4, <2>1, <2>2
  <2>3. CASE i = Len(s) + 1
    BY <1>1, <1>3, <1>4, <2>1, <2>3
  <2>4. CASE i = Len(s) + 2
    BY <1>1, <1>3, <1>4, <2>1, <2>4
  <2> QED  BY <1>1, <2>2, <2>3, <2>4
<1>7. a = d
  BY <1>2, <1>4, <1>5, <1>6, SeqEqual
<1> QED  BY <1>7 DEF a, b, d, p

\* The history changes at its inner end.
LEMMA Inner ==
  ASSUME NEW c \in Seq(Contexts), NEW x \in Contexts
  PROVE  /\ Append(c, x) # << >> /\ Front(Append(c, x)) = c /\ Last(Append(c, x)) = x
         /\ \A y : Innermost(Append(c, x), y) <=> y = x
         /\ Move(Append(c, x), x, << >>) = c
         /\ \A y \in Contexts : Move(Append(c, x), x, << y >>) = Append(c, y)
         /\ \A y, z \in Contexts :
              Move(Append(c, x), x, << y, z >>) = Append(Append(c, y), z)
         /\ \A y : Open(Append(c, x), y) = Append(Append(c, x), y)
<1>1. Append(c, x) # << >> /\ Front(Append(c, x)) = c /\ Last(Append(c, x)) = x
  BY Pushed
<1>2. \A y : Innermost(Append(c, x), y) <=> y = x
  BY <1>1 DEF Innermost
<1>3. \A new : Move(Append(c, x), x, new) = c \o new
  BY <1>1, <1>2 DEF Move
<1>4. c \o << >> = c
  BY ConcatEmptySeq
<1>5. \A y \in Contexts : c \o << y >> = Append(c, y)
  BY OneMore
<1>6. \A y, z \in Contexts : c \o << y, z >> = Append(Append(c, y), z)
  BY TwoMore
<1>7. \A y : Open(Append(c, x), y) = Append(Append(c, x), y)
  BY <1>1 DEF Open
<1> QED  BY <1>1, <1>2, <1>3, <1>4, <1>5, <1>6, <1>7
-----------------------------------------------------------------------------
(* What the discipline says of an operation, an act and a token.           *)

LEMMA OpRules ==
  ASSUME Disciplined, NEW w \in Words, NEW i \in DOMAIN Code[w], NEW o, o = Code[w][i]
  PROVE  /\ w \in Sure => SureOp(o)
         /\ o.op = "0branch" => "empty" \notin o.may
         /\ o.op = "call" => /\ o.word \notin First
                             /\ o.word \in Opening => /\ w \in Opening
                                                      /\ Code[w][i + 1].op = "endword"
         /\ o.op = "native" => /\ o.act.do \notin {"include", "abort"}
                               /\ o.act.do = "execute" => w \in First /\ o.act.word \in Sure
                               /\ o.act.do = "source" => /\ w \in Opening
                                                         /\ Code[w][i + 1].op = "endword"
<1>1. CarefulOp(w, i)
  BY DEF Disciplined
<1>2. o.op = "native" /\ o.act.do = "execute" => w \in First
  BY DEF First
<1> QED  BY <1>1, <1>2 DEF CarefulOp

LEMMA Opens ==
  ASSUME NEW w \in Words, NEW i \in DOMAIN Code[w], NEW o, o = Code[w][i],
         o.op = "native", o.act.do = "source", o.act.text \in Texts
  PROVE  o.act.text \in Bare
BY DEF Bare

\* A word that never fails EXECUTEs nothing.
LEMMA SureNotFirst ==
  ASSUME Disciplined, NEW w \in Words, w \in Sure
  PROVE  w \notin First
<1> SUFFICES ASSUME w \in First PROVE FALSE
  OBVIOUS
<1>1. PICK i \in DOMAIN Code[w] : Code[w][i].op = "native" /\ Code[w][i].act.do = "execute"
  BY DEF First
<1>2. SureOp(Code[w][i])
  BY OpRules
<1> QED  BY <1>1, <1>2 DEF SureOp, SureAct

\* A sure native act does not fail, and opens nothing.
LEMMA SureActs ==
  ASSUME NEW a, SureAct(a), NEW c, NEW es, NEW ss, Native(a, c, es, ss)
  PROVE  /\ outer' \in {outer, "SHUTDOWN"} /\ cont' = c /\ execs' = es /\ istack' = ss
         /\ tframes' = tframes
BY DEF SureAct, Native, NativeFails, NativeWorks, NativeSetsState, NativeExecutes,
       NativeOpensText, NativeOpensFile, NativeAborts, NativeBye

LEMMA TokenRules ==
  ASSUME Disciplined, IInv, HasToken
  PROVE  /\ NextToken.tok = "word" => /\ Top(istack).text \notin Bare
                                      /\ \/ NextToken.word \in Sure
                                         \/ ~(Top(Fetched).in < Top(Fetched).max)
         /\ NextToken.tok = "native" =>
              /\ NextToken.act.do = "execute" => /\ Top(istack).text \notin Bare
                                                 /\ \/ NextToken.act.word \in Sure
                                                    \/ ~(Top(Fetched).in < Top(Fetched).max)
              /\ NextToken.act.do \in {"source", "include"} => Top(istack).text \notin Bare
         /\ Fetched \in Inputs /\ Len(Fetched) = Len(istack)
         /\ Top(Fetched).kind = Top(istack).kind /\ Top(Fetched).text = Top(istack).text
<1> DEFINE s == Top(istack)
           t == s.text
           i == s.in + 1
           r == [s EXCEPT !.in = @ + 1]
<1>0. istack \in Inputs
  BY DEF IInv, StackInv
<1>1. /\ s \in Readable /\ s.in \in Nat /\ s.max \in Nat /\ s.in < s.max /\ t \in Texts
      /\ Text[t] \in Seq(Tokens) /\ s.max <= Len(Text[t])
      /\ istack # << >> /\ istack \in Seq(Readable)
  BY <1>0, TopSource DEF HasToken
<1>2. i \in DOMAIN Text[t]
  BY <1>1, LenProperties
<1>3. CarefulToken(t, i) /\ NextToken = Text[t][i]
  BY <1>1, <1>2 DEF Disciplined, NextToken
<1>f. Fetched = SetTop(istack, r)
  BY DEF Fetched
<1> HIDE DEF s
<1>4. r \in Readable /\ r.in = i /\ r.max = s.max /\ r.text = t /\ r.kind = s.kind
  <2>1. s \in Sources /\ (s.kind = "file" => s.file \in Files)
    BY <1>1 DEF Readable
  <2>2. r \in Sources
    BY <1>1, <2>1 DEF Sources
  <2>3. r.in = i /\ r.max = s.max /\ r.text = t /\ r.kind = s.kind /\ r.file = s.file
    BY <2>1 DEF Sources
  <2> QED  BY <1>1, <2>1, <2>2, <2>3 DEF Readable
<1> HIDE DEF r
<1>6. Len(Fetched) = Len(istack) /\ Last(Fetched) = r
  BY <1>1, <1>4, <1>f, Replaced
<1>7. Top(Fetched) = r
  BY <1>6 DEF Top
<1>8. i = Len(Text[t]) => ~(r.in < r.max)
  BY <1>1, <1>4
<1>9. /\ Fetched \in Inputs /\ Len(Fetched) = Len(istack)
      /\ Top(Fetched).kind = Top(istack).kind /\ Top(Fetched).text = Top(istack).text
  BY <1>4, <1>6, <1>7, TokenTaken DEF s
<1>10. i = Len(Text[t]) => ~(Top(Fetched).in < Top(Fetched).max)
  BY <1>7, <1>8
<1>11. LET k == Text[t][i]
           MayRun(w) == t \notin Bare /\ (w \in Sure \/ i = Len(Text[t]))
       IN  /\ k.tok = "word" => MayRun(k.word)
           /\ k.tok = "native" => /\ k.act.do = "execute" => MayRun(k.act.word)
                                  /\ k.act.do \in {"source", "include"} => t \notin Bare
  BY <1>3 DEF CarefulToken
<1> QED  BY <1>3, <1>9, <1>10, <1>11 DEF s

-----------------------------------------------------------------------------
(* The order of the frames.                                                *)

LEMMA OrderedKept ==
  ASSUME UNCHANGED tframes
  PROVE  /\ Ordered => Ordered'
         /\ AllAtEnd => AllAtEnd'
         /\ AllSure => AllSure'
BY DEF Ordered, AllAtEnd, AllSure, AtEnd

LEMMA NoFrames ==
  ASSUME tframes' = << >>
  PROVE  Ordered' /\ AllAtEnd' /\ AllSure'
BY DEF Ordered, AllAtEnd, AllSure

LEMMA OrderedPopped ==
  ASSUME Ordered, tframes \in Seq(Kept), tframes # << >>, tframes' = Front(tframes)
  PROVE  /\ Ordered'
         /\ AllAtEnd => AllAtEnd' /\ AtEnd(Last(tframes))
         /\ AllSure => AllSure' /\ Last(tframes).word \in Sure
         /\ Last(tframes).word \in First => tframes' = << >>
         /\ Last(tframes).word \in Opening => AllAtEnd'
<1> DEFINE n == Len(tframes)
<1>1. /\ n \in Nat \ {0} /\ tframes' \in Seq(Kept) /\ Len(tframes') = n - 1
      /\ \A i \in 1 .. n - 1 : tframes'[i] = tframes[i]
      /\ Last(tframes) = tframes[n]
  BY Popped
<1>2. DOMAIN tframes = 1 .. n /\ DOMAIN tframes' = 1 .. n - 1
  BY <1>1, LenProperties
<1> HIDE DEF n
<1>3. Ordered'
  <2> SUFFICES ASSUME NEW i \in 1 .. n - 1
               PROVE  /\ tframes'[i].word \in First => i = 1
                      /\ tframes'[i].word \in Opening => \A j \in 1 .. i - 1 : AtEnd(tframes'[j])
    BY <1>2 DEF Ordered, AtEnd
  <2>1. /\ tframes[i].word \in First => i = 1
        /\ tframes[i].word \in Opening => \A j \in 1 .. i - 1 : AtEnd(tframes[j])
    BY <1>1, <1>2 DEF Ordered
  <2>2. \A j \in 1 .. i - 1 : tframes'[j] = tframes[j]
    BY <1>1
  <2> QED  BY <1>1, <2>1, <2>2
<1>4. AllAtEnd => AllAtEnd' /\ AtEnd(tframes[n])
  BY <1>1, <1>2 DEF AllAtEnd, AtEnd
<1>5. AllSure => AllSure' /\ tframes[n].word \in Sure
  BY <1>1, <1>2 DEF AllSure
<1>6. tframes[n].word \in First => tframes' = << >>
  BY <1>1, <1>2, EmptySeq DEF Ordered
<1>7. tframes[n].word \in Opening => AllAtEnd'
  BY <1>1, <1>2 DEF Ordered, AllAtEnd, AtEnd
<1> QED  BY <1>1, <1>3, <1>4, <1>5, <1>6, <1>7

LEMMA OrderedPushed ==
  ASSUME Ordered, tframes \in Seq(Kept), NEW f \in Kept, tframes' = Append(tframes, f),
         f.word \in First => tframes = << >>, f.word \in Opening => AllAtEnd
  PROVE  /\ Ordered'
         /\ AllAtEnd /\ AtEnd(f) => AllAtEnd'
         /\ AllSure /\ f.word \in Sure => AllSure'
<1> DEFINE n == Len(tframes)
<1>1. /\ n \in Nat /\ tframes' \in Seq(Kept) /\ Len(tframes') = n + 1
      /\ \A i \in 1 .. n : tframes'[i] = tframes[i]
      /\ tframes'[n + 1] = f
  BY AppendProperties, LenProperties
<1>2. DOMAIN tframes = 1 .. n /\ DOMAIN tframes' = 1 .. n + 1
  BY <1>1, LenProperties
<1>0. tframes = << >> => n = 0
  BY EmptySeq
<1> HIDE DEF n
<1>3. Ordered'
  <2> SUFFICES ASSUME NEW i \in 1 .. n + 1
               PROVE  /\ tframes'[i].word \in First => i = 1
                      /\ tframes'[i].word \in Opening => \A j \in 1 .. i - 1 : AtEnd(tframes'[j])
    BY <1>2 DEF Ordered, AtEnd
  <2>1. CASE i = n + 1
    BY <1>0, <1>1, <1>2, <2>1 DEF AllAtEnd
  <2>2. CASE i \in 1 .. n
    <3>1. /\ tframes[i].word \in First => i = 1
          /\ tframes[i].word \in Opening => \A j \in 1 .. i - 1 : AtEnd(tframes[j])
      BY <1>1, <1>2, <2>2 DEF Ordered
    <3>2. \A j \in 1 .. i - 1 : tframes'[j] = tframes[j]
      BY <1>1, <2>2
    <3> QED  BY <1>1, <2>2, <3>1, <3>2
  <2> QED  BY <1>1, <2>1, <2>2
<1>4. AllAtEnd /\ AtEnd(f) => AllAtEnd'
  BY <1>1, <1>2 DEF AllAtEnd, AtEnd
<1>5. AllSure /\ f.word \in Sure => AllSure'
  BY <1>1, <1>2 DEF AllSure
<1> QED  BY <1>3, <1>4, <1>5
-----------------------------------------------------------------------------
(* Live activations.                                                       *)

LEMMA Activity ==
  ASSUME IInv, execs # << >>, NEW x, x = Last(execs)
  PROVE  /\ Len(execs) \in Nat \ {0} /\ DOMAIN execs = 1 .. Len(execs)
         /\ x = execs[Len(execs)] /\ x \in Live /\ x.word \in Words /\ x.ip \in Nat
         /\ x.label \in Words \cup {Foreign} /\ x.ip \in DOMAIN Code[x.word]
         /\ \A i \in 1 .. Len(execs) - 1 : execs[i] \in Calling
         /\ Front(execs) \in Seq(Calling)
         /\ \A i \in 1 .. Len(execs) - 1 : Front(execs)[i] = execs[i]
         /\ Len(Front(execs)) = Len(execs) - 1
<1>1. execs \in Seq(Live) /\ Front(execs) \in Seq(Calling)
  BY DEF IInv, StackInv, CallInv
<1>2. /\ Len(execs) \in Nat \ {0} /\ Len(Front(execs)) = Len(execs) - 1
      /\ \A i \in 1 .. Len(execs) - 1 : Front(execs)[i] = execs[i]
      /\ x \in Live /\ x = execs[Len(execs)]
  BY <1>1, Popped
<1>3. \A i \in 1 .. Len(execs) - 1 : execs[i] \in Calling
  BY <1>1, <1>2, ElementOfSeq
<1>4. x \in Activations /\ x.ip \in DOMAIN Code[x.word]
  BY <1>2 DEF Live
<1>5. x.word \in Words /\ x.ip \in Nat /\ x.label \in Words \cup {Foreign}
  BY <1>4 DEF Activations
<1> QED  BY <1>1, <1>2, <1>3, <1>4, <1>5, LenProperties

\* What an activation inside a native call leaves to do.
LEMMA ResumeKept ==
  ASSUME NEW x \in Calling
  PROVE  /\ Resume(x) \in Kept
         /\ Resume(x).word = x.word /\ Resume(x).ip = x.ip + 1
         /\ x.word \in Words /\ x.ip \in Nat /\ x.ip \in DOMAIN Code[x.word]
         /\ x.at = "native" /\ Op(x).op = "native" /\ x.ip + 1 \in DOMAIN Code[x.word]
         /\ Ctx(x) = InWord(x.word, x.ip + 1)
<1>1. /\ x \in Activations /\ x.ip \in DOMAIN Code[x.word] /\ x.at = "native"
      /\ Op(x).op = "native"
  BY DEF Calling, Live
<1>2. x.word \in Words /\ x.ip \in Nat /\ x.label \in Words \cup {Foreign}
  BY <1>1 DEF Activations
<1>3. x.ip + 1 \in DOMAIN Code[x.word]
  BY <1>1, <1>2, CodeStep DEF Op
<1>4. Resume(x) \in Kept
  BY <1>2, <1>3, NewFrame DEF Resume
<1>5. Resume(x).word = x.word /\ Resume(x).ip = x.ip + 1
  BY DEF Resume, Frame
<1> QED  BY <1>1, <1>2, <1>3, <1>4, <1>5 DEF Ctx

LEMMA Waits ==
  ASSUME IInv, execs # << >>
  PROVE  Waiting \in Seq(Kept)
<1>1. tframes \in Seq(Kept)
  BY DEF IInv, StackInv
<1>2. CASE Len(execs) = 2
  <2>1. execs[1] \in Calling
    BY <1>2, Activity
  <2>2. << Resume(execs[1]) >> \in Seq(Kept)
    BY <2>1, ResumeKept
  <2> QED  BY <1>1, <1>2, <2>2, ConcatProperties DEF Waiting
<1> QED  BY <1>1, <1>2 DEF Waiting

LEMMA Longer ==
  ASSUME NEW S, NEW s \in Seq(S), NEW t \in Seq(S), NEW e \in S
  PROVE  s \o Append(t, e) = Append(s \o t, e)
<1>1. << e >> \in Seq(S) /\ Append(t, e) = t \o << e >>
  BY OneMore
<1>2. s \o (t \o << e >>) = (s \o t) \o << e >>
  BY <1>1, ConcatAssociative
<1> DEFINE u == s \o t
<1>3. u \in Seq(S)
  BY ConcatProperties
<1> HIDE DEF u
<1>4. u \o << e >> = Append(u, e)
  BY <1>3, OneMore
<1> QED  BY <1>1, <1>2, <1>4 DEF u

\* The innermost activation goes on as y.
LEMMA ActivityGoesOn ==
  ASSUME IInv, execs # << >>, NEW y \in Live, execs' = Append(Front(execs), y)
  PROVE  /\ Len(execs') = Len(execs) /\ DOMAIN execs' = 1 .. Len(execs)
         /\ Last(execs') = y /\ execs' # << >> /\ execs'[Len(execs)] = y
         /\ \A i \in 1 .. Len(execs) - 1 : execs'[i] = execs[i]
<1>1. Front(execs) \in Seq(Live)
  BY Popped DEF IInv, StackInv
<1>2. /\ Len(Front(execs)) = Len(execs) - 1 /\ Len(execs) \in Nat \ {0}
      /\ \A i \in 1 .. Len(execs) - 1 : Front(execs)[i] = execs[i]
  BY Activity
<1> DEFINE s == Front(execs)
           t == Append(s, y)
<1>3. /\ t \in Seq(Live) /\ t # << >> /\ Last(t) = y
      /\ Len(t) = Len(s) + 1 /\ t[Len(s) + 1] = y
      /\ \A i \in 1 .. Len(s) : t[i] = s[i]
  BY <1>1, Pushed, AppendProperties
<1> HIDE DEF s
<1>4. Len(s) = Len(execs) - 1 /\ \A i \in 1 .. Len(execs) - 1 : s[i] = execs[i]
  BY <1>2 DEF s
<1> HIDE DEF t
<1>5. Len(t) = Len(execs) /\ t[Len(execs)] = y /\ \A i \in 1 .. Len(execs) - 1 : t[i] = execs[i]
  BY <1>2, <1>3, <1>4
<1>6. DOMAIN t = 1 .. Len(t)
  BY <1>3, LenProperties
<1>7. execs' = t
  BY DEF t, s
<1> QED  BY <1>3, <1>5, <1>6, <1>7

\* What waits behind it changes with the frames alone.
LEMMA WaitingMoves ==
  ASSUME IInv, execs # << >>, NEW y \in Live, execs' = Append(Front(execs), y)
  PROVE  /\ tframes' = tframes => Waiting' = Waiting
         /\ \A f \in Kept : tframes' = Append(tframes, f) => Waiting' = Append(Waiting, f)
         /\ tframes # << >> /\ tframes' = Front(tframes) =>
              Waiting' \in Seq(Kept) /\ Waiting = Append(Waiting', Last(tframes))
<1>0. /\ Len(execs') = Len(execs) /\ tframes \in Seq(Kept)
      /\ Len(execs) = 2 => execs'[1] = execs[1]
  <2>1. /\ Len(execs') = Len(execs)
        /\ \A i \in 1 .. Len(execs) - 1 : execs'[i] = execs[i]
    BY ActivityGoesOn
  <2> QED  BY <2>1 DEF IInv, StackInv
<1> DEFINE r == << Resume(execs[1]) >>
<1>1. Waiting = IF Len(execs) = 2 THEN r \o tframes ELSE tframes
  BY DEF Waiting
<1>2. Waiting' = IF Len(execs) = 2 THEN r \o tframes' ELSE tframes'
  <2>1. CASE Len(execs) = 2
    BY <1>0, <2>1 DEF Waiting, Resume
  <2>2. CASE Len(execs) # 2
    BY <1>0, <2>2 DEF Waiting
  <2> QED  BY <2>1, <2>2
<1>3. Len(execs) = 2 => r \in Seq(Kept)
  <2>1. ASSUME Len(execs) = 2 PROVE Resume(execs[1]) \in Kept
    BY <2>1, Activity, ResumeKept
  <2> QED  BY <2>1
<1> HIDE DEF r
<1>4. tframes' = tframes => Waiting' = Waiting
  BY <1>1, <1>2
<1>5. ASSUME NEW f \in Kept, tframes' = Append(tframes, f)
      PROVE  Waiting' = Append(Waiting, f)
  <2>1. CASE Len(execs) = 2
    <3>1. r \o Append(tframes, f) = Append(r \o tframes, f)
      BY <1>0, <1>3, <2>1, Longer
    <3> QED  BY <1>1, <1>2, <1>5, <2>1, <3>1
  <2>2. CASE Len(execs) # 2
    BY <1>1, <1>2, <1>5, <2>2
  <2> QED  BY <2>1, <2>2
<1>6. ASSUME tframes # << >>, tframes' = Front(tframes)
      PROVE  Waiting' \in Seq(Kept) /\ Waiting = Append(Waiting', Last(tframes))
  <2> DEFINE t == Front(tframes)
             f == Last(tframes)
  <2>1. t \in Seq(Kept) /\ f \in Kept /\ tframes = Append(t, f)
    BY <1>0, <1>6, Popped, Parts
  <2> HIDE DEF t, f
  <2>2. Waiting' = IF Len(execs) = 2 THEN r \o t ELSE t
    BY <1>2, <1>6 DEF t
  <2>3. Waiting = IF Len(execs) = 2 THEN r \o Append(t, f) ELSE Append(t, f)
    BY <1>1, <2>1
  <2>4. CASE Len(execs) = 2
    <3>1. r \o t \in Seq(Kept) /\ r \o Append(t, f) = Append(r \o t, f)
      BY <1>3, <2>1, <2>4, Longer, ConcatProperties
    <3> QED  BY <2>2, <2>3, <2>4, <3>1 DEF f
  <2>5. CASE Len(execs) # 2
    BY <2>1, <2>2, <2>3, <2>5 DEF f
  <2> QED  BY <2>4, <2>5
<1> QED  BY <1>4, <1>5, <1>6

\* A level activation stays one.
LEMMA LevelStep ==
  ASSUME IInv, BusyLevel, execs # << >>, NEW y \in Live, execs' = Append(Front(execs), y),
         y.src = Last(execs).src, UNCHANGED <<istack, pc, depth>>,
         cont' = Append(Expect(Len(istack), Waiting'), Ctx(y)),
         y.word \in First => tframes' = << >> /\ Len(execs) = 1,
         y.word \in Opening => AllAtEnd',
         Last(execs).word \in Sure /\ AllSure /\ ~Failed =>
           y.word \in Sure /\ AllSure' /\ ~Failed'
  PROVE  BusyLevel'
<1> DEFINE x == Last(execs)
           n == Len(execs)
<1>1. /\ n \in Nat \ {0} /\ DOMAIN execs = 1 .. n /\ x = execs[n]
  BY Activity
<1>2. /\ Len(execs') = n /\ DOMAIN execs' = 1 .. n /\ execs'[n] = y /\ Last(execs') = y
      /\ \A i \in 1 .. n - 1 : execs'[i] = execs[i]
  BY ActivityGoesOn
<1>3. /\ n \in {1, 2}
      /\ \A i \in 1 .. n : execs[i].src = Len(istack)
      /\ n = 2 => x.word \in Sure /\ AllSure /\ ~Failed
      /\ HasToken => (\A i \in 1 .. n : execs[i].word \in Sure) /\ AllSure /\ ~Failed
      /\ pc = "drained" => depth = Len(istack) /\ ~HasToken
  BY <1>1 DEF BusyLevel
<1>4. HasToken' = HasToken
  BY DEF HasToken
<1> HIDE DEF n, x
<1>5. \A i \in 1 .. n : execs'[i].src = Len(istack)
  BY <1>1, <1>2, <1>3 DEF x
<1>6. n = 2 => y.word \in Sure /\ AllSure' /\ ~Failed'
  BY <1>3 DEF x
<1>7. HasToken' => (\A i \in 1 .. n : execs'[i].word \in Sure) /\ AllSure' /\ ~Failed'
  BY <1>1, <1>2, <1>3, <1>4 DEF x
<1>8. y.word \in First => tframes' = << >> /\ n = 1
  BY DEF n
<1> QED  BY <1>2, <1>3, <1>4, <1>5, <1>6, <1>7, <1>8 DEF BusyLevel, Ctx
-----------------------------------------------------------------------------
(* The executor.                                                           *)

\* A running activation that is not at its end is a level one, and the history
\* moves with it.
LEMMA LevelAtWork ==
  ASSUME IInv, Running, Busy, NEW x, x = Last(execs), Op(x).op # "endword" \/ BusyLevel
  PROVE  /\ BusyLevel
         /\ Expect(Len(istack), Waiting) \in Seq(Contexts)
         /\ \A i \in Nat : MovedTo(x, i) = Append(Expect(Len(istack), Waiting), InWord(x.word, i))
         /\ \A i \in Nat, w \in Words, j \in Nat :
              Move(cont, InWord(x.word, x.ip), << InWord(x.word, i), InWord(w, j) >>)
                = Append(Append(Expect(Len(istack), Waiting), InWord(x.word, i)), InWord(w, j))
         /\ Move(cont, InWord(x.word, x.ip), << >>) = Expect(Len(istack), Waiting)
<1> DEFINE e == Expect(Len(istack), Waiting)
<1>1. /\ execs # << >> /\ x.at = "run" /\ x.word \in Words /\ x.ip \in Nat
  BY AtWork
<1>2. BusyLevel
  BY <1>1 DEF Busy, BusyOpened, BusyEnding
<1>3. Len(istack) \in Nat /\ Waiting \in Seq(Kept)
  BY <1>1, Waits, TopSource DEF IInv, StackInv
<1>4. e \in Seq(Contexts)
  BY <1>3, Expected
<1>5. cont = Append(e, InWord(x.word, x.ip))
  BY <1>1, <1>2 DEF BusyLevel, Ctx
<1> HIDE DEF e
<1>6. InWord(x.word, x.ip) \in Contexts /\ \A w \in Words, i \in Nat : InWord(w, i) \in Contexts
  BY <1>1, NewContext
<1> DEFINE c == InWord(x.word, x.ip)
<1> HIDE DEF c
<1>7. /\ Move(Append(e, c), c, << >>) = e
      /\ \A y \in Contexts : Move(Append(e, c), c, << y >>) = Append(e, y)
      /\ \A y, z \in Contexts : Move(Append(e, c), c, << y, z >>) = Append(Append(e, y), z)
  BY <1>4, <1>6, Inner DEF c
<1>8. cont = Append(e, c)
  BY <1>5 DEF c
<1>9. \A i \in Nat : MovedTo(x, i) = Append(e, InWord(x.word, i))
  BY <1>1, <1>6, <1>7, <1>8 DEF MovedTo, c
<1>10. \A i \in Nat, w \in Words, j \in Nat :
         Move(cont, c, << InWord(x.word, i), InWord(w, j) >>)
           = Append(Append(e, InWord(x.word, i)), InWord(w, j))
  BY <1>1, <1>6, <1>7, <1>8
<1>11. Move(cont, c, << >>) = e
  BY <1>7, <1>8
<1> QED  BY <1>2, <1>4, <1>9, <1>10, <1>11 DEF e, c

\* An operation that goes on at i in its word.
LEMMA GotoOrder ==
  ASSUME IInv, Running, DInv, NEW x, x = Last(execs), Op(x).op # "endword",
         NEW i \in DOMAIN Code[x.word], Goto(i), cont' = MovedTo(x, i),
         UNCHANGED <<pc, depth, tframes, istack, outer>>
  PROVE  DInv'
<1> DEFINE y == [x EXCEPT !.ip = i, !.at = "run"]
<1>1. /\ execs # << >> /\ x \in Live /\ x.word \in Words
  BY AtWork
<1>2. Ordered /\ Busy
  BY <1>1 DEF DInv
<1>3. /\ BusyLevel /\ \A j \in Nat :
           MovedTo(x, j) = Append(Expect(Len(istack), Waiting), InWord(x.word, j))
  BY <1>2, LevelAtWork
<1>4. y \in Live
  BY MovesOn
<1>5. i \in Nat
  BY <1>1, CodeStep
<1>6. y.word = x.word /\ y.src = x.src /\ Ctx(y) = InWord(x.word, i)
  BY <1>1 DEF Live, Activations, Ctx
<1>7. execs' = Append(Front(execs), y)
  BY DEF Goto
<1> HIDE DEF y
<1>8. execs' # << >> /\ Waiting' = Waiting
  BY <1>1, <1>4, <1>7, ActivityGoesOn, WaitingMoves
<1>9. cont' = Append(Expect(Len(istack), Waiting'), Ctx(y))
  BY <1>3, <1>5, <1>6, <1>8
<1>10. Ordered' /\ (AllAtEnd => AllAtEnd') /\ (AllSure => AllSure')
  BY <1>2, OrderedKept
<1>11. /\ y.word \in First => tframes' = << >> /\ Len(execs) = 1
       /\ y.word \in Opening => AllAtEnd'
       /\ Last(execs).word \in Sure /\ AllSure /\ ~Failed =>
            y.word \in Sure /\ AllSure' /\ ~Failed'
  BY <1>3, <1>6, <1>10 DEF BusyLevel, Failed
<1>12. y.src = Last(execs).src /\ UNCHANGED <<istack, pc, depth>>
  BY <1>6
<1>13. BusyLevel'
  BY <1>1, <1>3, <1>4, <1>7, <1>9, <1>11, <1>12, LevelStep
<1> QED  BY <1>8, <1>10, <1>13 DEF DInv, Busy

\* A failed activation of askf_exec leaves its frame.
LEMMA FailureOrder ==
  ASSUME IInv, DInv, NotFull, execs # << >>, BusyLevel, NEW x, x = Last(execs),
         NEW f \in Kept, f.word = x.word,
         cont' = Append(Expect(Len(istack), Waiting), InWord(f.word, f.ip)),
         tframes' = PushFrame(tframes, f), Return, UNCHANGED <<pc, depth, istack>>,
         Failed \/ x.word \notin Sure
  PROVE  DInv'
<1>1. Ordered /\ tframes \in Seq(Kept) /\ Len(istack) \in Nat
  BY TopSource DEF DInv, IInv, StackInv
<1>2. tframes' = Append(tframes, f)
  BY DEF NotFull, PushFrame
<1>3. Len(execs) = 1 /\ ~HasToken /\ execs[1] = x
  <2>1. Len(execs) \in {1, 2} /\ x = execs[Len(execs)] /\ DOMAIN execs = 1 .. Len(execs)
    BY Activity DEF BusyLevel
  <2> QED  BY <2>1 DEF BusyLevel
<1>4. execs' = << >>
  <2>1. Len(Front(execs)) = 0 /\ Front(execs) \in Seq(Calling)
    BY <1>3, Activity
  <2> QED  BY <2>1, EmptySeq DEF Return
<1>5. Ordered'
  <2>1. f.word \in First => tframes = << >>
    BY DEF BusyLevel
  <2>2. f.word \in Opening => AllAtEnd
    BY DEF BusyLevel
  <2> QED  BY <1>1, <1>2, <2>1, <2>2, OrderedPushed
<1>6. cont' = Expect(Len(istack), tframes')
  <2>1. Waiting = tframes
    BY <1>3 DEF Waiting
  <2> QED  BY <1>1, <1>2, <2>1, ExpectMore
<1>7. IdleLevel'
  BY <1>3, <1>6 DEF IdleLevel, BusyLevel, HasToken
<1> QED  BY <1>4, <1>5, <1>7 DEF DInv, Idle
\* The call of a native word.
LEMMA NativeOrder ==
  ASSUME Disciplined, IInv, DInv, NotFull, OpNative
  PROVE  DInv'
<1> DEFINE x  == Last(execs)
           y  == [x EXCEPT !.at = "native"]
           es == Append(Front(execs), y)
           e  == Expect(Len(istack), Waiting)
           c  == MovedTo(x, x.ip + 1)
           a  == Op(x).act
           n  == Len(istack)
<1>1. /\ Running /\ Op(x).op = "native" /\ Native(a, c, es, istack) /\ UNCHANGED <<pc, depth>>
  BY DEF OpNative, AtOp
<1>2. /\ execs # << >> /\ x \in Live /\ x.word \in Words /\ x.ip \in DOMAIN Code[x.word]
      /\ x.ip \in Nat /\ Op(x) = Code[x.word][x.ip] /\ a \in Acts /\ ~Failed
  BY <1>1, AtWork, OpFields
<1>3. Ordered /\ Busy /\ istack \in Inputs /\ n \in Nat /\ tframes \in Seq(Kept)
  BY <1>2, TopSource DEF DInv, IInv, StackInv
<1>4. /\ BusyLevel /\ e \in Seq(Contexts) /\ x.ip + 1 \in Nat
      /\ c = Append(e, InWord(x.word, x.ip + 1))
  BY <1>1, <1>2, <1>3, LevelAtWork
<1>5. y \in Calling /\ y.word = x.word /\ y.src = x.src /\ Ctx(y) = InWord(x.word, x.ip + 1)
  <2>1. x \in Activations /\ Op(y) = Op(x)
    BY <1>2 DEF Live, Op, Activations
  <2>2. y \in Calling
    BY <1>1, <1>2, <2>1 DEF Calling, Live, Activations
  <2> QED  BY <1>2, <2>1, <2>2 DEF Activations, Ctx
<1>6. /\ x.word \in Sure => SureOp(Op(x))
      /\ a.do \notin {"include", "abort"}
      /\ a.do = "execute" => x.word \in First /\ a.word \in Sure
      /\ a.do = "source" => x.word \in Opening /\ Code[x.word][x.ip + 1].op = "endword"
  BY <1>1, <1>2, OpRules
<1>7. /\ Len(execs) \in {1, 2} /\ x = execs[Len(execs)]
      /\ \A i \in 1 .. Len(execs) : execs[i].src = n
      /\ Len(execs) = 2 => x.word \in Sure
      /\ HasToken => x.word \in Sure
      /\ x.word \in First => tframes = << >> /\ Len(execs) = 1
      /\ x.word \in Opening => AllAtEnd
      /\ pc = "drained" => depth = n /\ ~HasToken
  <2>1. Len(execs) \in Nat \ {0} /\ DOMAIN execs = 1 .. Len(execs) /\ x = execs[Len(execs)]
    BY <1>2, Activity
  <2> QED  BY <1>4, <2>1 DEF BusyLevel
<1> HIDE DEF x, y, c, e, a, n
<1>8. CASE /\ execs' = es /\ cont' = c /\ istack' = istack /\ tframes' = tframes
           /\ x.word \in Sure => ~Failed'
  <2>1. Ordered' /\ (AllAtEnd => AllAtEnd') /\ (AllSure => AllSure')
    BY <1>3, <1>8, OrderedKept
  <2>2. y \in Live
    BY <1>5 DEF Calling
  <2>3. Waiting' = Waiting /\ execs' # << >>
    BY <1>2, <1>8, <2>2, WaitingMoves, ActivityGoesOn
  <2>4. cont' = Append(Expect(Len(istack), Waiting'), Ctx(y))
    BY <1>4, <1>5, <1>8, <2>3 DEF e
  <2>5. /\ y.word \in First => tframes' = << >> /\ Len(execs) = 1
        /\ y.word \in Opening => AllAtEnd'
        /\ Last(execs).word \in Sure /\ AllSure /\ ~Failed =>
             y.word \in Sure /\ AllSure' /\ ~Failed'
        /\ y.src = Last(execs).src
        /\ UNCHANGED <<istack, pc, depth>>
        /\ execs' = Append(Front(execs), y)
    BY <1>1, <1>5, <1>7, <1>8, <2>1 DEF x
  <2>6. BusyLevel'
    BY <1>2, <1>4, <2>2, <2>4, <2>5, LevelStep
  <2> QED  BY <2>1, <2>3, <2>6 DEF DInv, Busy
<1>9. CASE NativeExecutes(a, c, es, istack)
  <2> DEFINE w  == a.word
             g  == Frame(w, w, 1)
             z  == Activation(g, "run")
             r  == Resume(y)
  <2>1. /\ a.do = "execute" /\ Enter(es, PushFrame(tframes, g))
        /\ cont' = Open(c, InWord(w, 1)) /\ istack' = istack /\ outer' = outer
    BY <1>9 DEF NativeExecutes
  <2>2. /\ x.word \in First /\ w \in Sure /\ w \in Words /\ tframes = << >>
        /\ Len(execs) = 1 /\ ~HasToken /\ w \notin First
    BY <1>2, <1>6, <1>7, <2>1, ActFields, SureNotFirst
  <2>3. g \in Kept
    BY <2>2, NewFrame, CodeStep, CodeAssumption, LenProperties DEF WellFormed
  <2>4. PushFrame(tframes, g) = Append(tframes, g)
    BY DEF NotFull, PushFrame
  <2>5. Last(Append(tframes, g)) = g /\ Front(Append(tframes, g)) = tframes
    BY <1>3, <2>3, Pushed
  <2>6. execs' = Append(es, z) /\ tframes' = tframes
    BY <2>1, <2>4, <2>5 DEF Enter
  <2>7. z \in Live /\ z.word = w /\ z.src = n /\ Ctx(z) = InWord(w, 1)
    <3>1. /\ z = [label |-> w, word |-> w, ip |-> 1, src |-> n, at |-> "run"]
          /\ w \in Words /\ 1 \in DOMAIN Code[w]
      BY <2>2, <2>3 DEF Activation, Frame, n, Kept
    <3> QED  BY <1>3, <3>1 DEF Live, Activations, Ctx
  <2>8. Len(es) = 1 /\ es[1] = y /\ es \in Seq(Live)
    <3>1. Front(execs) \in Seq(Live) /\ Len(Front(execs)) = 0
      BY <1>2, <2>2, Activity, AllCalling
    <3>2. y \in Live
      BY <1>5 DEF Calling
    <3> QED  BY <3>1, <3>2, AppendProperties
  <2> HIDE DEF es, z
  <2>9. /\ Len(execs') = 2 /\ execs'[1] = y /\ execs'[2] = z /\ Last(execs') = z
        /\ DOMAIN execs' = 1 .. 2 /\ execs' # << >>
    <3>1. /\ execs' \in Seq(Live) /\ execs' # << >> /\ Len(execs') = 2
          /\ execs'[1] = y /\ execs'[2] = z /\ Last(execs') = z
      <4> DEFINE t == Append(es, z)
      <4>1. /\ t \in Seq(Live) /\ t # << >> /\ Last(t) = z /\ Len(t) = Len(es) + 1
            /\ \A i \in 1 .. Len(es) : t[i] = es[i]
            /\ t[Len(es) + 1] = z
        <5>1. z \in Live /\ es \in Seq(Live)
          BY <2>7, <2>8
        <5>2. /\ t \in Seq(Live) /\ t # << >> /\ Last(t) = z /\ Len(t) = Len(es) + 1
              /\ \A i \in 1 .. Len(es) : t[i] = es[i]
          BY <5>1, Pushed
        <5>3. t[Len(es) + 1] = z
          BY <5>1, AppendProperties
        <5> QED  BY <5>2, <5>3
      <4> HIDE DEF t
      <4>2. t[1] = y /\ t[2] = z /\ Len(t) = 2
        BY <2>8, <4>1
      <4> QED  BY <2>6, <4>1, <4>2 DEF t
    <3> QED  BY <3>1, LenProperties
  <2>10. r \in Kept /\ r.word = x.word /\ r.ip = x.ip + 1
    BY <1>5, ResumeKept, <1>2 DEF y, Resume, Frame, Live, Activations
  <2>11. Waiting' = Append(tframes, r)
    <3>1. Waiting' = << r >> \o tframes'
      BY <2>9 DEF Waiting, Resume
    <3>2. << r >> \in Seq(Kept)
      BY <2>10
    <3>3. << r >> \o << >> = << r >> /\ << >> \o << r >> = << r >>
      BY <3>2, ConcatEmptySeq
    <3>4. tframes \o << r >> = Append(tframes, r)
      BY <1>3, <2>10, OneMore
    <3> QED  BY <2>2, <2>6, <3>1, <3>3, <3>4
  <2>12. Expect(n, Waiting') = c
    <3>1. Waiting = tframes
      BY <2>2 DEF Waiting
    <3>2. Expect(n, Append(tframes, r)) = Append(Expect(n, tframes), InWord(r.word, r.ip))
      BY <1>3, <2>10, ExpectMore
    <3> QED  BY <1>4, <2>10, <2>11, <3>1, <3>2 DEF e, n
  <2>13. cont' = Append(Expect(n, Waiting'), Ctx(z))
    <3>1. InWord(x.word, x.ip + 1) \in Contexts
      BY <1>2, <1>4, NewContext
    <3>2. c # << >>
      BY <1>4, <3>1, Inner
    <3> QED  BY <2>1, <2>7, <2>12, <3>2 DEF Open
  <2>14. Ordered' /\ AllAtEnd' /\ AllSure'
    BY <2>2, <2>6, NoFrames
  <2>15. BusyLevel'
    <3>1. Len(istack') = n /\ HasToken' = HasToken /\ pc' = pc /\ depth' = depth
      BY <1>1, <2>1 DEF n, HasToken
    <3>2. ~Failed' /\ y.src = n
      BY <1>2, <1>5, <1>7, <2>1, <2>2 DEF Failed
    <3>3. \A i \in 1 .. 2 : execs'[i].src = n
      BY <2>7, <2>9, <3>2
    <3> QED  BY <1>7, <2>2, <2>7, <2>9, <2>13, <2>14, <3>1, <3>2, <3>3 DEF BusyLevel
  <2> QED  BY <2>9, <2>14, <2>15 DEF DInv, Busy
<1>10. CASE NativeOpensText(a, c, es, istack)
  <2> DEFINE s == Source("string", a.text, NoFile)
  <2>1. /\ a.do = "source" /\ istack' = PushSource(istack, s) /\ execs' = es
        /\ cont' = Open(c, InSource(n + 1)) /\ tframes' = tframes /\ outer' = outer
    BY <1>10 DEF NativeOpensText, n
  <2>2. /\ x.word \in Opening /\ Code[x.word][x.ip + 1].op = "endword" /\ AllAtEnd
        /\ Len(execs) = 1
    BY <1>1, <1>6, <1>7, <2>1 DEF SureOp, SureAct, a
  <2>3. a.text \in Texts /\ a.text \in Bare
    BY <1>1, <1>2, <2>1, ActFields, Opens DEF a
  <2>4. s \in Readable /\ s.kind = "string" /\ s.text = a.text
    BY <2>3, NewSource DEF Source
  <2> HIDE DEF s
  <2>5. Len(istack') = n + 1 /\ Top(istack') = s
    <3>1. istack' = Append(istack, s)
      BY <2>1 DEF NotFull, PushSource
    <3>2. istack \in Seq(Readable)
      BY <1>3, TopSource
    <3> QED  BY <2>4, <3>1, <3>2, Pushed DEF Top, n
  <2>6. y \in Live /\ execs' = Append(Front(execs), y)
    BY <1>5, <2>1 DEF Calling
  <2>7. Len(execs') = 1 /\ Last(execs') = y /\ execs' # << >>
    BY <1>2, <2>2, <2>6, ActivityGoesOn
  <2>8. n \in Nat \ {0}
    BY <1>3 DEF Inputs, n
  <2>9. y.src = n
    BY <1>5, <1>7, <2>2
  <2>10. cont' = Append(Append(Expect(n, tframes'), Ctx(y)), InSource(n + 1))
    <3>1. Waiting = tframes
      BY <2>2 DEF Waiting
    <3>2. c = Append(Expect(n, tframes), Ctx(y))
      BY <1>4, <1>5, <3>1 DEF e, n
    <3>3. InWord(x.word, x.ip + 1) \in Contexts
      BY <1>2, <1>4, NewContext
    <3>4. c # << >>
      BY <1>4, <3>3, Inner
    <3> QED  BY <2>1, <3>2, <3>4 DEF Open
  <2>11. Ordered' /\ AllAtEnd'
    BY <1>3, <2>1, <2>2, OrderedKept
  <2>12. ~Failed'
    BY <1>2, <2>1 DEF Failed
  <2>13. y.at = "native" /\ y.word = x.word /\ y.ip = x.ip
    BY <1>2, <1>5, ResumeKept DEF y, Live, Activations
  <2>14. y.word \in First => tframes' = << >>
    BY <1>7, <2>1, <2>13
  <2>15. BareTop'
    BY <2>3, <2>4, <2>5, <2>8 DEF BareTop
  <2>16. BusyOpened'
    <3>1. (n + 1) - 1 = n /\ n # n + 1
      BY <2>8
    <3>2. pc' = "drained" => depth' # Len(istack')
      BY <1>1, <1>7, <2>5, <3>1
    <3> QED  BY <2>2, <2>5, <2>7, <2>9, <2>10, <2>11, <2>12, <2>13, <2>14, <2>15, <3>1, <3>2
             DEF BusyOpened, Ctx
  <2> QED  BY <2>7, <2>11, <2>16 DEF DInv, Busy
<1>11. CASE \/ NativeFails(a, c, es, istack) \/ NativeWorks(a, c, es, istack)
            \/ NativeSetsState(a, c, es, istack) \/ NativeBye(a, c, es, istack)
  <2>1. execs' = es /\ cont' = c /\ istack' = istack /\ tframes' = tframes
    BY <1>11 DEF NativeFails, NativeWorks, NativeSetsState, NativeBye
  <2>2. x.word \in Sure => SureAct(a)
    BY <1>1, <1>6 DEF SureOp, a
  <2>3. SureAct(a) => outer' \in {outer, "SHUTDOWN"}
    BY <1>1, SureActs
  <2> QED  BY <1>2, <1>8, <2>1, <2>2, <2>3 DEF Failed
<1>12. ~NativeOpensFile(a, c, es, istack) /\ ~NativeAborts(a, c, es, istack)
  BY <1>6 DEF NativeOpensFile, NativeAborts
<1> QED  BY <1>1, <1>9, <1>10, <1>11, <1>12 DEF Native
\* The call of a threaded word.
LEMMA CallOrder ==
  ASSUME Disciplined, IInv, DInv, NotFull, OpThreadedWord
  PROVE  DInv'
<1> DEFINE x == Last(execs)
           w == Op(x).word
           y == [x EXCEPT !.label = w, !.word = w, !.ip = 1]
           r == Resume(x)
           e == Expect(Len(istack), Waiting)
<1>1. /\ Running /\ Op(x).op = "call" /\ UNCHANGED <<pc, depth, istack, outer>>
      /\ tframes' = PushFrame(tframes, r) /\ execs' = Append(Front(execs), y)
      /\ cont' = Move(cont, InWord(x.word, x.ip), << InWord(x.word, x.ip + 1), InWord(w, 1) >>)
  BY DEF OpThreadedWord, AtOp
<1>2. /\ execs # << >> /\ x \in Live /\ x.word \in Words /\ x.ip \in DOMAIN Code[x.word]
      /\ x.ip \in Nat /\ Op(x) = Code[x.word][x.ip] /\ w \in Words /\ x.at = "run"
      /\ x.label \in Words \cup {Foreign} /\ x.ip + 1 \in DOMAIN Code[x.word]
  BY <1>1, AtWork, OpFields, CodeStep
<1>3. Ordered /\ Busy /\ Len(istack) \in Nat /\ tframes \in Seq(Kept) /\ Waiting \in Seq(Kept)
  BY <1>2, TopSource, Waits DEF DInv, IInv, StackInv
<1>4. BusyLevel /\ cont' = Append(Append(e, InWord(x.word, x.ip + 1)), InWord(w, 1))
  <2>1. /\ BusyLevel
        /\ \A i \in Nat, v \in Words, j \in Nat :
             Move(cont, InWord(x.word, x.ip), << InWord(x.word, i), InWord(v, j) >>)
               = Append(Append(e, InWord(x.word, i)), InWord(v, j))
    <3> HIDE DEF w
    <3>1. Running /\ Busy /\ Op(x).op # "endword"
      BY <1>1, <1>3
    <3> HIDE DEF x
    <3>2. x = Last(execs)
      BY DEF x
    <3> QED  BY <3>1, <3>2, LevelAtWork
  <2> HIDE DEF x, w, e
  <2>2. x.ip + 1 \in Nat /\ 1 \in Nat
    BY <1>2
  <2> QED  BY <1>1, <1>2, <2>1, <2>2
<1>5. /\ x.word \in Sure => SureOp(Op(x))
      /\ w \notin First
      /\ w \in Opening => x.word \in Opening /\ Code[x.word][x.ip + 1].op = "endword"
  BY <1>1, <1>2, OpRules
<1>6. 1 \in DOMAIN Code[w] /\ 1 \in Nat
  BY <1>2, CodeAssumption, LenProperties DEF WellFormed
<1>7. y \in Live /\ y.word = w /\ y.src = x.src /\ Ctx(y) = InWord(w, 1)
  BY <1>2, <1>6 DEF Live, Activations, Ctx
<1>8. r \in Kept /\ r.word = x.word /\ r.ip = x.ip + 1
  BY <1>2, NewFrame DEF Resume, Frame
<1>9. tframes' = Append(tframes, r)
  BY <1>1 DEF NotFull, PushFrame
<1> HIDE DEF x, y, r, w, e
<1>10. Waiting' = Append(Waiting, r) /\ execs' # << >>
  BY <1>1, <1>2, <1>7, <1>8, <1>9, WaitingMoves, ActivityGoesOn
<1>11. cont' = Append(Expect(Len(istack), Waiting'), Ctx(y))
  BY <1>3, <1>4, <1>7, <1>8, <1>10, ExpectMore DEF e
<1>12. /\ x.word \in First => tframes = << >>
       /\ x.word \in Opening => AllAtEnd
  BY <1>4 DEF BusyLevel, x
<1>13. /\ Ordered'
       /\ AllAtEnd /\ AtEnd(r) => AllAtEnd'
       /\ AllSure /\ r.word \in Sure => AllSure'
  BY <1>3, <1>8, <1>9, <1>12, OrderedPushed
<1>14. /\ y.word \in First => tframes' = << >> /\ Len(execs) = 1
       /\ y.word \in Opening => AllAtEnd'
       /\ Last(execs).word \in Sure /\ AllSure /\ ~Failed =>
            y.word \in Sure /\ AllSure' /\ ~Failed'
       /\ y.src = Last(execs).src /\ UNCHANGED <<istack, pc, depth>>
  <2>1. y.word \in Opening => AllAtEnd'
    BY <1>5, <1>7, <1>8, <1>12, <1>13 DEF AtEnd
  <2>2. x.word \in Sure => w \in Sure
    BY <1>1, <1>5 DEF SureOp, w
  <2> QED  BY <1>1, <1>5, <1>7, <1>8, <1>13, <2>1, <2>2 DEF x, Failed
<1>15. BusyLevel'
  BY <1>1, <1>2, <1>4, <1>7, <1>11, <1>14, LevelStep
<1> QED  BY <1>10, <1>13, <1>15 DEF DInv, Busy

\* The end of a word.
LEMMA EndOrder ==
  ASSUME Disciplined, IInv, DInv, OpEndWord
  PROVE  DInv'
<1> DEFINE x == Last(execs)
           n == Len(istack)
<1>1. /\ Running /\ Op(x).op = "endword" /\ UNCHANGED <<pc, depth, istack, outer>>
      /\ cont' = Move(cont, InWord(x.word, x.ip), << >>)
  BY DEF OpEndWord, AtOp
<1>2. /\ execs # << >> /\ x \in Live /\ x.word \in Words /\ x.ip \in Nat /\ x.at = "run"
      /\ ~Failed /\ x.label \in Words \cup {Foreign} /\ pc \in {"interpreted", "drained"}
  BY <1>1, AtWork
<1>3. Ordered /\ Busy /\ n \in Nat \ {0} /\ tframes \in Seq(Kept) /\ Waiting \in Seq(Kept)
  BY <1>2, TopSource, Waits DEF DInv, IInv, StackInv, Inputs
<1>4. /\ tframes = << >> => Return /\ UNCHANGED tframes
      /\ tframes # << >> =>
           /\ execs' = Append(Front(execs), [x EXCEPT !.label = Last(tframes).label,
                                               !.word = Last(tframes).word,
                                               !.ip = Last(tframes).ip])
           /\ tframes' = Front(tframes)
  BY <1>2 DEF OpEndWord
<1>5. HasToken' = HasToken /\ Failed' = Failed /\ n' = n
  BY <1>1 DEF HasToken, Failed
<1>6. /\ Len(execs) \in Nat \ {0} /\ DOMAIN execs = 1 .. Len(execs) /\ x = execs[Len(execs)]
      /\ Len(Front(execs)) = Len(execs) - 1
      /\ \A i \in 1 .. Len(execs) - 1 : execs[i] \in Calling /\ Front(execs)[i] = execs[i]
      /\ Front(execs) \in Seq(Calling)
  BY <1>2, Activity
<1> HIDE DEF x, n
<1>7. CASE BusyEnding
  <2>1. /\ Len(execs) = 1 /\ AllAtEnd /\ n >= 2 /\ Exhausted(Top(istack))
        /\ cont = Append(Expect(n - 1, tframes), InWord(x.word, x.ip))
        /\ pc = "drained" /\ depth = n
    BY <1>2, <1>7 DEF BusyEnding, Ctx, x, n
  <2>2. cont' = Expect(n - 1, tframes)
    <3>1. n - 1 \in Nat
      BY <1>3, <2>1
    <3>2. Expect(n - 1, tframes) \in Seq(Contexts)
      BY <1>3, <3>1, Expected
    <3>3. InWord(x.word, x.ip) \in Contexts
      BY <1>2, NewContext
    <3> QED  BY <1>1, <2>1, <3>2, <3>3, Inner
  <2>3. Exhausted(Top(istack))'
    BY <1>1, <2>1 DEF Exhausted
  <2>4. CASE tframes = << >>
    <3>1. execs' = << >>
      BY <1>4, <1>6, <2>1, <2>4, EmptySeq DEF Return
    <3>2. Ordered' /\ AllAtEnd' /\ tframes' = tframes
      BY <1>4, <2>4, NoFrames
    <3>3. IdleEnding'
      BY <1>1, <1>2, <1>5, <2>1, <2>2, <2>3, <3>2 DEF IdleEnding, n
    <3> QED  BY <3>1, <3>2, <3>3 DEF DInv, Idle
  <2>5. CASE tframes # << >>
    <3> DEFINE f == Last(tframes)
               y == [x EXCEPT !.label = f.label, !.word = f.word, !.ip = f.ip]
    <3>1. execs' = Append(Front(execs), y) /\ tframes' = Front(tframes)
      BY <1>4, <2>5
    <3>2. /\ f \in Kept
          /\ Expect(n - 1, tframes) = Append(Expect(n - 1, tframes'), InWord(f.word, f.ip))
      <4>1. n - 1 \in Nat
        BY <1>3, <2>1
      <4> QED  BY <1>3, <2>5, <3>1, <4>1, ExpectTop
    <3>3. Ordered' /\ AllAtEnd' /\ AtEnd(f)
      BY <1>3, <2>1, <2>5, <3>1, OrderedPopped
    <3>4. /\ y \in Live /\ y.word = f.word /\ y.ip = f.ip /\ y.at = "run"
          /\ Ctx(y) = InWord(f.word, f.ip)
      BY <1>2, <3>2 DEF Kept, Frames, Live, Activations, Ctx
    <3> HIDE DEF f, y
    <3>5. Len(execs') = 1 /\ Last(execs') = y /\ execs' # << >>
      BY <1>2, <2>1, <3>1, <3>4, ActivityGoesOn
    <3>6. Op(y).op = "endword"
      BY <3>3, <3>4 DEF AtEnd, Op
    <3>7. cont' = Append(Expect(n' - 1, tframes'), Ctx(y))
      BY <1>5, <2>2, <3>2, <3>4
    <3>8. BusyEnding'
      BY <1>1, <1>2, <1>5, <2>1, <2>3, <3>3, <3>4, <3>5, <3>6, <3>7 DEF BusyEnding, Op, Ctx, n
    <3> QED  BY <3>3, <3>5, <3>8 DEF DInv, Busy
  <2> QED  BY <2>4, <2>5
<1>8. CASE BusyLevel
  <2>1. cont' = Expect(n, Waiting)
    BY <1>1, <1>3, <1>8, LevelAtWork DEF x, n
  <2>2. /\ Len(execs) \in {1, 2} /\ \A i \in 1 .. Len(execs) : execs[i].src = n
        /\ Len(execs) = 2 => x.word \in Sure /\ AllSure
        /\ HasToken => (\A i \in 1 .. Len(execs) : execs[i].word \in Sure) /\ AllSure
        /\ pc = "drained" => depth = n /\ ~HasToken
    BY <1>6, <1>8 DEF BusyLevel, x, n
  <2>3. CASE tframes = << >>
    <3>1. execs' = Front(execs) /\ tframes' = tframes
      BY <1>4, <2>3 DEF Return
    <3>2. Ordered' /\ AllAtEnd' /\ AllSure'
      BY <2>3, <3>1, NoFrames
    <3>3. CASE Len(execs) = 1
      <4>1. execs' = << >>
        BY <1>6, <3>1, <3>3, EmptySeq
      <4>2. cont' = Expect(n, tframes')
        BY <2>1, <3>1, <3>3 DEF Waiting
      <4>3. IdleLevel'
        BY <1>1, <1>2, <1>5, <2>2, <2>3, <3>1, <4>2 DEF IdleLevel, n
      <4> QED  BY <3>2, <4>1, <4>3 DEF DInv, Idle
    <3>4. CASE Len(execs) = 2
      <4> DEFINE y == execs[1]
                 r == Resume(y)
      <4>1. y \in Calling /\ Front(execs)[1] = y /\ Len(Front(execs)) = 1
        BY <1>6, <3>4
      <4>2. /\ Len(execs') = 1 /\ execs'[1] = y /\ Last(execs') = y /\ execs' # << >>
            /\ DOMAIN execs' = 1 .. 1
        <5>1. execs' \in Seq(Calling) /\ Len(execs') = 1 /\ execs'[1] = y
          BY <1>6, <3>1, <4>1
        <5> HIDE DEF y
        <5>2. execs' # << >> /\ DOMAIN execs' = 1 .. 1
          BY <5>1, LenProperties, EmptySeq
        <5> QED  BY <5>1, <5>2 DEF Last
      <4>3. r \in Kept /\ Ctx(y) = InWord(r.word, r.ip)
        BY <4>1, ResumeKept
      <4>4. cont' = Append(Expect(n, tframes), Ctx(y))
        <5>1. Waiting = << r >> \o tframes
          BY <3>4 DEF Waiting
        <5>2. << r >> \in Seq(Kept)
          BY <4>3
        <5>3. << r >> \o << >> = << r >> /\ << >> \o << r >> = << r >>
          BY <5>2, ConcatEmptySeq
        <5>4. tframes \o << r >> = Append(tframes, r)
          BY <1>3, <4>3, OneMore
        <5>5. Waiting = Append(tframes, r)
          BY <2>3, <5>1, <5>3, <5>4
        <5>6. Expect(n, Append(tframes, r)) = Append(Expect(n, tframes), InWord(r.word, r.ip))
          BY <1>3, <4>3, ExpectMore
        <5> QED  BY <2>1, <4>3, <5>5, <5>6
      <4>5. Waiting' = tframes'
        BY <4>2 DEF Waiting
      <4>6. y.src = n
        BY <2>2, <3>4
      <4>7. HasToken => y.word \in Sure
        BY <2>2, <3>4
      <4> HIDE DEF y, r
      <4>8. BusyLevel'
        BY <1>1, <1>2, <1>5, <2>2, <2>3, <3>1, <3>2, <4>2, <4>4, <4>5, <4>6, <4>7
        DEF BusyLevel, Ctx, n
      <4> QED  BY <3>2, <4>2, <4>8 DEF DInv, Busy
    <3> QED  BY <2>2, <3>3, <3>4
  <2>4. CASE tframes # << >>
    <3> DEFINE f == Last(tframes)
               y == [x EXCEPT !.label = f.label, !.word = f.word, !.ip = f.ip]
    <3>1. execs' = Append(Front(execs), y) /\ tframes' = Front(tframes)
      BY <1>4, <2>4
    <3>2. f \in Kept
      BY <1>3, <2>4, Popped
    <3>3. /\ Ordered'
          /\ AllSure => AllSure' /\ f.word \in Sure
          /\ f.word \in First => tframes' = << >>
          /\ f.word \in Opening => AllAtEnd'
      BY <1>3, <2>4, <3>1, OrderedPopped
    <3>4. /\ y \in Live /\ y.word = f.word /\ y.src = x.src /\ f.word \in Words
          /\ Ctx(y) = InWord(f.word, f.ip)
      BY <1>2, <3>2 DEF Kept, Frames, Live, Activations, Ctx
    <3> HIDE DEF y
    <3>5. /\ Waiting' \in Seq(Kept) /\ Waiting = Append(Waiting', f) /\ execs' # << >>
      BY <1>2, <2>4, <3>1, <3>4, WaitingMoves, ActivityGoesOn
    <3> HIDE DEF f
    <3>6. cont' = Append(Expect(Len(istack), Waiting'), Ctx(y))
      <4>1. Expect(n, Append(Waiting', f)) = Append(Expect(n, Waiting'), InWord(f.word, f.ip))
        BY <1>3, <3>2, <3>5, ExpectMore
      <4>2. cont' = Expect(n, Waiting)
        BY <2>1
      <4> HIDE DEF n
      <4>3. cont' = Append(Expect(n, Waiting'), Ctx(y))
        BY <3>4, <3>5, <4>1, <4>2
      <4> QED  BY <4>3 DEF n
    <3>7. f.word \in First => Len(execs) = 1
      BY <2>2, <3>3, <3>4, SureNotFirst
    <3>8. /\ y.word \in First => tframes' = << >> /\ Len(execs) = 1
          /\ y.word \in Opening => AllAtEnd'
          /\ Last(execs).word \in Sure /\ AllSure /\ ~Failed =>
               y.word \in Sure /\ AllSure' /\ ~Failed'
          /\ y.src = Last(execs).src /\ UNCHANGED <<istack, pc, depth>>
      BY <1>1, <1>5, <3>3, <3>4, <3>7 DEF x
    <3>9. BusyLevel'
      BY <1>2, <1>8, <3>1, <3>4, <3>6, <3>8, LevelStep
    <3> QED  BY <3>3, <3>5, <3>9 DEF DInv, Busy
  <2> QED  BY <2>3, <2>4
<1>9. ~BusyOpened
  BY <1>2 DEF BusyOpened, x
<1> QED  BY <1>3, <1>7, <1>8, <1>9 DEF Busy
\* The return from a native word.
LEMMA AfterNativeOrder ==
  ASSUME Disciplined, IInv, DInv, NotFull, AfterNative
  PROVE  DInv'
<1> DEFINE x == Last(execs)
           r == Resume(x)
           n == Len(istack)
<1>1. execs # << >> /\ x.at = "native" /\ UNCHANGED <<pc, depth, istack, outer, cont>>
  BY DEF AfterNative
<1>2. x \in Calling /\ x \in Live
  BY <1>1, Activity DEF Calling
<1>3. /\ r \in Kept /\ r.word = x.word /\ r.ip = x.ip + 1 /\ x.word \in Words
      /\ x.ip + 1 \in DOMAIN Code[x.word] /\ Ctx(x) = InWord(r.word, r.ip)
  BY <1>2, ResumeKept
<1>4. Ordered /\ Busy /\ n \in Nat \ {0} /\ tframes \in Seq(Kept) /\ Waiting \in Seq(Kept)
  BY <1>1, TopSource, Waits DEF DInv, IInv, StackInv, Inputs
<1>5. /\ Len(execs) \in Nat \ {0} /\ DOMAIN execs = 1 .. Len(execs) /\ x = execs[Len(execs)]
      /\ Len(Front(execs)) = Len(execs) - 1 /\ Front(execs) \in Seq(Calling)
  BY <1>1, Activity
<1>6. HasToken' = HasToken /\ Failed' = Failed /\ n' = n
  BY <1>1 DEF HasToken, Failed
<1> HIDE DEF r, n
<1>7. CASE BusyLevel
  <2>1. cont = Append(Expect(Len(istack), Waiting), InWord(r.word, r.ip)) /\ x.src = n
    BY <1>3, <1>5, <1>7 DEF BusyLevel, n
  <2>2. CASE Interrupted(x)
    <3>1. Failed
      BY <2>1, <2>2 DEF Interrupted, n
    <3>2. tframes' = PushFrame(tframes, r) /\ Return
      BY <2>2 DEF AfterNative, r
    <3> HIDE DEF x
    <3>3. x = Last(execs)
      BY DEF x
    <3>4. /\ cont' = Append(Expect(Len(istack), Waiting), InWord(r.word, r.ip))
          /\ UNCHANGED <<pc, depth, istack>>
      BY <1>1, <2>1
    <3> QED  BY <1>1, <1>3, <1>7, <3>1, <3>2, <3>3, <3>4, FailureOrder
  <2>3. CASE ~Interrupted(x)
    <3> DEFINE y == [x EXCEPT !.ip = x.ip + 1, !.at = "run"]
    <3>1. execs' = Append(Front(execs), y) /\ tframes' = tframes
      BY <2>3 DEF AfterNative, Goto
    <3>2. y \in Live /\ y.word = x.word /\ y.src = x.src /\ Ctx(y) = InWord(r.word, r.ip)
      <4>1. x \in Activations /\ x.ip + 1 \in Nat
        BY <1>2, <1>3, CodeStep DEF Live
      <4> QED  BY <1>3, <4>1 DEF Live, Activations, Ctx
    <3> HIDE DEF y
    <3>3. Waiting' = Waiting /\ execs' # << >>
      BY <1>1, <3>1, <3>2, WaitingMoves, ActivityGoesOn
    <3>4. cont' = Append(Expect(Len(istack), Waiting'), Ctx(y))
      BY <1>1, <2>1, <3>2, <3>3
    <3>5. Ordered' /\ (AllAtEnd => AllAtEnd') /\ (AllSure => AllSure')
      BY <1>4, <3>1, OrderedKept
    <3>6. /\ y.word \in First => tframes' = << >> /\ Len(execs) = 1
          /\ y.word \in Opening => AllAtEnd'
          /\ Last(execs).word \in Sure /\ AllSure /\ ~Failed =>
               y.word \in Sure /\ AllSure' /\ ~Failed'
          /\ y.src = Last(execs).src /\ UNCHANGED <<istack, pc, depth>>
      BY <1>1, <1>6, <1>7, <3>1, <3>2, <3>5 DEF BusyLevel, x
    <3>7. BusyLevel'
      BY <1>1, <1>7, <3>1, <3>2, <3>4, <3>6, LevelStep
    <3> QED  BY <3>3, <3>5, <3>7 DEF DInv, Busy
  <2> QED  BY <2>2, <2>3
<1>8. CASE BusyOpened
  <2>1. /\ Len(execs) = 1 /\ BareTop /\ x.src # n /\ AllAtEnd /\ ~Failed
        /\ Code[x.word][x.ip + 1].op = "endword"
        /\ x.word \in First => tframes = << >>
        /\ cont = Append(Append(Expect(n - 1, tframes), InWord(r.word, r.ip)), InSource(n))
        /\ pc = "drained" => depth # n
    BY <1>3, <1>8 DEF BusyOpened, n
  <2>2. Interrupted(x)
    BY <2>1 DEF Interrupted, n
  <2>3. tframes' = PushFrame(tframes, r) /\ Return
    BY <2>2 DEF AfterNative, r
  <2>4. tframes' = Append(tframes, r)
    BY <2>3 DEF NotFull, PushFrame
  <2>5. execs' = << >>
    BY <1>5, <2>1, <2>3, EmptySeq DEF Return
  <2>6. Ordered' /\ AllAtEnd'
    BY <1>3, <1>4, <2>1, <2>4, OrderedPushed DEF AtEnd
  <2>7. cont' = Append(Expect(n' - 1, tframes'), InSource(n'))
    <3>1. n - 1 \in Nat
      BY <1>4
    <3>2. Expect(n - 1, Append(tframes, r)) = Append(Expect(n - 1, tframes), InWord(r.word, r.ip))
      BY <1>3, <1>4, <3>1, ExpectMore
    <3> QED  BY <1>1, <1>6, <2>1, <2>4, <3>2
  <2>8. BareTop' /\ pc \in {"interpreted", "drained"}
    BY <1>1, <2>1 DEF BareTop, IInv, CallInv
  <2>9. IdleOpened'
    BY <1>1, <1>6, <2>1, <2>6, <2>7, <2>8 DEF IdleOpened, n
  <2> QED  BY <2>5, <2>6, <2>9 DEF DInv, Idle
<1>9. ~BusyEnding
  BY <1>1 DEF BusyEnding
<1> QED  BY <1>4, <1>7, <1>8, <1>9 DEF Busy

LEMMA ExecutorOrder ==
  ASSUME Disciplined, IInv, DInv, NotFull, Executor
  PROVE  DInv'
<1> DEFINE x == Last(execs)
<1>r. ASSUME Running, Op(x).op # "endword"
      PROVE  /\ execs # << >> /\ x.word \in Words /\ x.ip \in DOMAIN Code[x.word]
             /\ x.label \in Words \cup {Foreign}
             /\ Op(x) = Code[x.word][x.ip] /\ x.ip + 1 \in DOMAIN Code[x.word] /\ x.ip + 1 \in Nat
             /\ x.word \in Sure => SureOp(Op(x))
             /\ Op(x).op = "0branch" => "empty" \notin Op(x).may
             /\ BusyLevel
             /\ MovedTo(x, x.ip + 1)
                  = Append(Expect(Len(istack), Waiting), InWord(x.word, x.ip + 1))
  <2>1. /\ execs # << >> /\ x.word \in Words /\ x.ip \in DOMAIN Code[x.word]
        /\ x.label \in Words \cup {Foreign} /\ Op(x) = Code[x.word][x.ip]
    BY <1>r, AtWork
  <2>2. x.ip + 1 \in DOMAIN Code[x.word] /\ x.ip + 1 \in Nat
    BY <1>r, <2>1, CodeStep
  <2>3. Busy
    BY <2>1 DEF DInv
  <2>4. /\ x.word \in Sure => SureOp(Op(x))
        /\ Op(x).op = "0branch" => "empty" \notin Op(x).may
    BY <2>1, OpRules
  <2>5. /\ BusyLevel
        /\ \A i \in Nat : MovedTo(x, i) = Append(Expect(Len(istack), Waiting), InWord(x.word, i))
    <3> HIDE DEF x
    <3>1. x = Last(execs)
      BY DEF x
    <3> QED  BY <1>r, <2>3, <3>1, LevelAtWork
  <2> QED  BY <2>1, <2>2, <2>4, <2>5
<1>f. ASSUME Running, Op(x).op # "endword", ~SureOp(Op(x)),
             NEW l \in Words \cup {Foreign},
             tframes' = PushFrame(tframes, Frame(l, x.word, x.ip + 1)),
             cont' = MovedTo(x, x.ip + 1), Return, UNCHANGED <<pc, depth, istack>>
      PROVE  DInv'
  <2> DEFINE f == Frame(l, x.word, x.ip + 1)
  <2>1. f \in Kept /\ f.word = x.word /\ f.ip = x.ip + 1
    BY <1>f, <1>r, NewFrame DEF Frame
  <2>2. /\ execs # << >> /\ BusyLevel /\ x.word \notin Sure
        /\ cont' = Append(Expect(Len(istack), Waiting), InWord(f.word, f.ip))
        /\ tframes' = PushFrame(tframes, f)
    BY <1>f, <1>r, <2>1
  <2> HIDE DEF x, f
  <2>3. x = Last(execs)
    BY DEF x
  <2> QED  BY <1>f, <2>1, <2>2, <2>3, FailureOrder
<1>g. ASSUME Running, Op(x).op # "endword", NEW i \in DOMAIN Code[x.word],
             Goto(i), cont' = MovedTo(x, i), UNCHANGED <<pc, depth, tframes, istack, outer>>
      PROVE  DInv'
  <2> HIDE DEF x
  <2>1. x = Last(execs)
    BY DEF x
  <2> QED  BY <1>g, <2>1, GotoOrder
<1>1. CASE OpPlain
  <2>1. Running /\ Op(x).op = "plain"
    BY <1>1 DEF OpPlain, AtOp
  <2> QED  BY <1>1, <1>r, <1>g, <2>1 DEF OpPlain
<1>2. CASE OpThreadedWord
  BY <1>2, CallOrder
<1>3. CASE OpBranch
  <2>1. Running /\ Op(x).op = "branch"
    BY <1>3 DEF OpBranch, AtOp
  <2>2. Op(x).to \in DOMAIN Code[x.word]
    BY <1>r, <2>1, CodeStep
  <2> QED  BY <1>3, <1>g, <2>1, <2>2 DEF OpBranch
<1>4. CASE Op0Branch
  <2>1. Running /\ Op(x).op = "0branch"
    BY <1>4 DEF Op0Branch, AtOp
  <2>2. Op(x).to \in DOMAIN Code[x.word] /\ "empty" \notin Op(x).may
    BY <1>r, <2>1, CodeStep
  <2>3. UNCHANGED <<pc, depth, tframes, istack>>
    BY <1>4 DEF Op0Branch
  <2>4. \/ Goto(Op(x).to) /\ cont' = MovedTo(x, Op(x).to) /\ UNCHANGED outer
        \/ Goto(x.ip + 1) /\ cont' = MovedTo(x, x.ip + 1) /\ UNCHANGED outer
    BY <1>4, <2>2 DEF Op0Branch
  <2> QED  BY <1>r, <1>g, <2>1, <2>2, <2>3, <2>4
<1>5. CASE OpNative
  BY <1>5, NativeOrder
<1>6. CASE AfterNative
  BY <1>6, AfterNativeOrder
<1>7. CASE OpForeign
  <2>1. Running /\ Op(x).op = "foreign"
    BY <1>7 DEF OpForeign, AtOp
  <2>2. cont' = MovedTo(x, x.ip + 1) /\ UNCHANGED <<pc, depth, istack>>
    BY <1>7 DEF OpForeign
  <2>3. CASE Goto(x.ip + 1) /\ UNCHANGED <<outer, tframes>>
    BY <1>r, <1>g, <2>1, <2>2, <2>3
  <2>4. CASE /\ "fail" \in Op(x).may /\ Return
             /\ tframes' = PushFrame(tframes, Frame(Foreign, x.word, x.ip + 1))
    <3>1. ~SureOp(Op(x))
      BY <2>1, <2>4 DEF SureOp
    <3> QED  BY <1>f, <2>1, <2>2, <2>4, <3>1
  <2> QED  BY <1>7, <2>3, <2>4 DEF OpForeign
<1>8. CASE OpDispatchError
  <2>1. Running /\ Op(x).op = "error"
    BY <1>8 DEF OpDispatchError, AtOp
  <2>2. /\ cont' = MovedTo(x, x.ip + 1) /\ UNCHANGED <<pc, depth, istack>> /\ Return
        /\ tframes' = PushFrame(tframes, Frame(x.label, x.word, x.ip + 1))
    BY <1>8 DEF OpDispatchError, Resume
  <2>3. ~SureOp(Op(x))
    BY <2>1 DEF SureOp
  <2> QED  BY <1>f, <1>r, <2>1, <2>2, <2>3
<1>9. CASE OpEndWord
  BY <1>9, EndOrder
<1> QED  BY <1>1, <1>2, <1>3, <1>4, <1>5, <1>6, <1>7, <1>8, <1>9 DEF Executor
-----------------------------------------------------------------------------
(* The outer interpreter.                                                  *)

LEMMA Depths ==
  ASSUME IInv
  PROVE  /\ istack \in Inputs /\ istack \in Seq(Readable) /\ istack # << >>
         /\ Len(istack) \in Nat \ {0} /\ Len(istack) - 1 \in Nat /\ tframes \in Seq(Kept)
         /\ cont \in Seq(Contexts)
         /\ Top(istack).kind # "user" => Len(istack) >= 2
         /\ Here = InSource(Len(istack)) /\ Here \in Contexts
         /\ Top(istack).in \in Nat /\ Top(istack).max \in Nat
<1>1. /\ istack \in Inputs /\ tframes \in Seq(Kept) /\ cont \in Seq(Contexts)
  BY DEF IInv, StackInv
<1>2. /\ istack \in Seq(Readable) /\ istack # << >> /\ Len(istack) \in Nat \ {0}
      /\ Top(istack).in \in Nat /\ Top(istack).max \in Nat
  BY <1>1, TopSource DEF Inputs
<1>3. Top(istack).kind # "user" => Len(istack) >= 2
  BY <1>1, <1>2 DEF Inputs, Top, Last
<1> QED  BY <1>1, <1>2, <1>3, NewContext DEF Here

\* Without frames the history ends with the top source.
LEMMA LevelHere ==
  ASSUME IInv, tframes = << >>
  PROVE  Expect(Len(istack), tframes) = Append(Expect(Len(istack) - 1, tframes), Here)
<1> DEFINE n == Len(istack) - 1
<1>1. n \in Nat /\ n + 1 = Len(istack) /\ Here = InSource(n + 1)
  BY Depths
<1> HIDE DEF n
<1>2. Expect(n + 1, tframes) = Append(Expect(n, tframes), InSource(n + 1))
  BY <1>1, ExpectSource
<1> QED  BY <1>1, <1>2 DEF n

\* Where a token is taken.
LEMMA AtTokenOrder ==
  ASSUME IInv, DInv, pc = "tokens", HasToken
  PROVE  /\ execs = << >> /\ ~Failed /\ Ordered
         /\ \/ IdleLevel /\ tframes = << >>
            \/ IdleOpened
         /\ cont = Append(Expect(Len(istack) - 1, tframes), Here)
         /\ Expect(Len(istack) - 1, tframes) \in Seq(Contexts)
         /\ AtSource = cont /\ cont # << >>
<1>1. execs = << >> /\ ~Failed
  BY DEF IInv, CallInv, FailureStops
<1>2. Ordered /\ Idle /\ ~IdleEnding
  BY <1>1 DEF DInv, IdleEnding
<1>3. (IdleLevel /\ tframes = << >>) \/ IdleOpened
  BY <1>2 DEF Idle, IdleLevel
<1> DEFINE e == Expect(Len(istack) - 1, tframes)
<1>4. cont = Append(e, Here)
  <2>1. CASE IdleLevel /\ tframes = << >>
    BY <2>1, LevelHere DEF IdleLevel
  <2>2. CASE IdleOpened
    BY <2>2 DEF IdleOpened, Here
  <2> QED  BY <1>3, <2>1, <2>2
<1>5. e \in Seq(Contexts) /\ Here \in Contexts
  BY Depths, Expected
<1> HIDE DEF e
<1>6. Move(Append(e, Here), Here, << Here >>) = Append(e, Here) /\ Append(e, Here) # << >>
  BY <1>5, Inner
<1> QED  BY <1>1, <1>2, <1>3, <1>4, <1>5, <1>6 DEF AtSource, e

\* A token that changes nothing but its source.
LEMMA QuietToken ==
  ASSUME Disciplined, IInv, DInv, pc = "tokens", HasToken,
         execs' = << >>, tframes' = tframes, istack' = Fetched, cont' = AtSource,
         pc' \in {"tokens", "main", "interpreted"}
  PROVE  DInv'
<1>1. /\ Ordered /\ AtSource = cont
      /\ \/ IdleLevel /\ tframes = << >>
         \/ IdleOpened
  BY AtTokenOrder
<1>2. /\ Len(istack') = Len(istack) /\ Top(istack').kind = Top(istack).kind
      /\ Top(istack').text = Top(istack).text
  BY TokenRules
<1>3. Ordered' /\ (AllAtEnd => AllAtEnd')
  BY <1>1, OrderedKept
<1>4. CASE IdleLevel /\ tframes = << >>
  <2>1. IdleLevel'
    BY <1>1, <1>2, <1>4 DEF IdleLevel
  <2> QED  BY <1>3, <2>1 DEF DInv, Idle
<1>5. CASE IdleOpened
  <2>1. BareTop'
    BY <1>2, <1>5 DEF IdleOpened, BareTop
  <2>2. IdleOpened'
    BY <1>1, <1>2, <1>3, <1>5, <2>1 DEF IdleOpened
  <2> QED  BY <1>3, <2>2 DEF DInv, Idle
<1> QED  BY <1>1, <1>4, <1>5

\* An abort leaves the keyboard alone.
LEMMA AbortOrder ==
  ASSUME NEW ss \in Inputs, istack' = Keyboard(ss), execs' = << >>, tframes' = << >>,
         cont' = << InSource(1) >>, pc' \notin {"drain", "drained"}
  PROVE  DInv'
<1>1. Ordered'
  BY NoFrames
<1>2. Len(istack') = 1
  BY DEF Keyboard
<1>3. cont' = Expect(1, tframes')
  <2>1. tframes' \in Seq(Kept) /\ Len(tframes') = 0 /\ 1 \in Nat
    BY EmptySeq
  <2> DEFINE e == Expect(1, tframes')
             c == << InSource(1) >>
  <2>2. e \in Seq(Contexts) /\ Len(e) = 1 /\ e[1] = InSource(1)
    <3>1. /\ e \in Seq(Contexts) /\ Len(e) = 1 + Len(tframes')
          /\ \A i \in 1 .. 1 : e[i] = InSource(i)
      BY <2>1, Expected
    <3> QED  BY <2>1, <3>1
  <2>3. c \in Seq(Contexts) /\ Len(c) = 1 /\ c[1] = InSource(1)
    BY NewContext
  <2> HIDE DEF e, c
  <2>4. e = c
    <3>1. Len(e) = Len(c) /\ \A i \in 1 .. Len(e) : e[i] = c[i]
      BY <2>2, <2>3
    <3> QED  BY <2>2, <2>3, <3>1, SeqEqual
  <2> QED  BY <2>4 DEF e, c
<1>4. IdleLevel'
  BY <1>2, <1>3 DEF IdleLevel
<1> QED  BY <1>1, <1>4 DEF DInv, Idle

\* A threaded word runs from a source.
LEMMA EnterOrder ==
  ASSUME Disciplined, IInv, DInv, NotFull, pc = "tokens", HasToken,
         NEW w \in Words, Top(istack).text \notin Bare,
         w \in Sure \/ ~(Top(Fetched).in < Top(Fetched).max),
         Enter(execs, PushFrame(tframes, Frame(w, w, 1))),
         cont' = Open(AtSource, InWord(w, 1)), istack' = Fetched, pc' = "interpreted",
         UNCHANGED outer
  PROVE  DInv'
<1> DEFINE g == Frame(w, w, 1)
           z == Activation(g, "run")
           n == Len(istack)
<1>1. /\ execs = << >> /\ ~Failed /\ AtSource = cont /\ cont # << >>
      /\ \/ IdleLevel /\ tframes = << >>
         \/ IdleOpened
  BY AtTokenOrder
<1>2. IdleLevel /\ tframes = << >>
  BY <1>1 DEF IdleOpened, BareTop
<1>3. tframes \in Seq(Kept) /\ n \in Nat
  BY Depths
<1>4. g \in Kept /\ 1 \in DOMAIN Code[w]
  BY NewFrame, CodeStep, CodeAssumption, LenProperties DEF WellFormed
<1>5. PushFrame(tframes, g) = Append(tframes, g)
  BY DEF NotFull, PushFrame
<1>6. Last(Append(tframes, g)) = g /\ Front(Append(tframes, g)) = tframes
  BY <1>3, <1>4, Pushed
<1>7. execs' = Append(execs, z) /\ tframes' = tframes
  BY <1>5, <1>6 DEF Enter
<1>8. z \in Live /\ z.word = w /\ z.src = n /\ Ctx(z) = InWord(w, 1)
  <2>1. z = [label |-> w, word |-> w, ip |-> 1, src |-> n, at |-> "run"]
    BY DEF Activation, Frame, n
  <2> QED  BY <1>3, <1>4, <2>1 DEF Live, Activations, Ctx
<1> HIDE DEF z, n, g
<1>9. Len(execs') = 1 /\ execs'[1] = z /\ Last(execs') = z /\ DOMAIN execs' = 1 .. 1
      /\ execs' # << >>
  <2>1. /\ execs \in Seq(Live) /\ Len(execs) = 0
    BY <1>1, EmptySeq
  <2>2. /\ Append(execs, z) \in Seq(Live) /\ Append(execs, z) # << >>
        /\ Len(Append(execs, z)) = Len(execs) + 1 /\ Last(Append(execs, z)) = z
        /\ Append(execs, z)[Len(execs) + 1] = z
    <3>1. z \in Live
      BY <1>8
    <3>2. /\ Append(execs, z) \in Seq(Live) /\ Append(execs, z) # << >>
          /\ Len(Append(execs, z)) = Len(execs) + 1 /\ Append(execs, z)[Len(execs) + 1] = z
      BY <2>1, <3>1, Grown
    <3>3. Last(Append(execs, z)) = z
      BY <2>1, <3>1, Pushed
    <3> QED  BY <3>2, <3>3
  <2> QED  BY <1>7, <2>1, <2>2, LenProperties
<1>10. Len(Fetched) = n
  BY TokenRules DEF n
<1>11. Waiting' = tframes'
  BY <1>9 DEF Waiting
<1>12. cont' = Append(Expect(n, tframes'), Ctx(z))
  BY <1>1, <1>2, <1>7, <1>8 DEF Open, IdleLevel, n
<1>13. Ordered' /\ AllAtEnd' /\ AllSure'
  BY <1>2, <1>7, NoFrames
<1>14. ~Failed' /\ (HasToken' => w \in Sure)
  BY <1>1 DEF Failed, HasToken
<1>15. BusyLevel'
  BY <1>2, <1>7, <1>8, <1>9, <1>10, <1>11, <1>12, <1>13, <1>14 DEF BusyLevel
<1> QED  BY <1>9, <1>13, <1>15 DEF DInv, Busy

\* A source is opened from a source.
LEMMA OpenOrder ==
  ASSUME Disciplined, IInv, DInv, pc = "tokens", HasToken,
         Top(istack).text \notin Bare, execs' = execs, tframes' = tframes,
         NEW s \in Readable, istack' = Append(Fetched, s),
         cont' = Open(AtSource, InSource(Len(Fetched) + 1)), pc' = "interpreted"
  PROVE  DInv'
<1> DEFINE n == Len(istack)
<1>1. /\ execs = << >> /\ AtSource = cont /\ cont # << >>
      /\ \/ IdleLevel /\ tframes = << >>
         \/ IdleOpened
  BY AtTokenOrder
<1>2. IdleLevel /\ tframes = << >>
  BY <1>1 DEF IdleOpened, BareTop
<1>3. n \in Nat /\ Len(Fetched) = n /\ Fetched \in Inputs
  BY Depths, TokenRules
<1> HIDE DEF n
<1>4. Len(istack') = n + 1
  <2>1. Fetched \in Seq(Readable)
    BY <1>3, TopSource
  <2> QED  BY <1>3, <2>1, Pushed
<1>5. cont' = Expect(n + 1, tframes')
  <2>1. Expect(n + 1, tframes) = Append(Expect(n, tframes), InSource(n + 1))
    BY <1>2, <1>3, ExpectSource
  <2> QED  BY <1>1, <1>2, <1>3, <2>1 DEF Open, IdleLevel, n
<1>6. IdleLevel'
  BY <1>2, <1>4, <1>5 DEF IdleLevel
<1>7. Ordered'
  BY <1>2, NoFrames
<1> QED  BY <1>1, <1>6, <1>7 DEF DInv, Idle

LEMMA TokenOrder ==
  ASSUME Disciplined, IInv, DInv, NotFull,
         \/ TokenNumber \/ TokenUnknown \/ TokenCompiled \/ TokenNative \/ TokenForeign
         \/ TokenThreaded
  PROVE  DInv'
<1>0. pc = "tokens" /\ HasToken
  BY DEF AtToken, TokenNumber, TokenUnknown, TokenCompiled, TokenNative, TokenForeign,
         TokenThreaded
<1>1. execs = << >> /\ NextToken \in Tokens
  BY <1>0, AtTokenOrder, TokenTaken
<1>2. CASE TokenNumber \/ TokenUnknown \/ TokenCompiled \/ TokenForeign
  <2>1. /\ execs' = << >> /\ tframes' = tframes /\ istack' = Fetched /\ cont' = AtSource
        /\ pc' \in {"tokens", "main", "interpreted"}
    BY <1>0, <1>1, <1>2 DEF TokenNumber, TokenUnknown, TokenCompiled, TokenForeign
  <2> QED  BY <1>0, <2>1, QuietToken
<1>3. CASE TokenThreaded
  <2> DEFINE w == NextToken.word
  <2>1. /\ NextToken.tok = "word" /\ Enter(execs, PushFrame(tframes, Frame(w, w, 1)))
        /\ cont' = Open(AtSource, InWord(w, 1)) /\ istack' = Fetched
        /\ pc' = "interpreted" /\ UNCHANGED outer
    BY <1>3 DEF TokenThreaded, AtToken
  <2>2. /\ w \in Words /\ Top(istack).text \notin Bare
        /\ w \in Sure \/ ~(Top(Fetched).in < Top(Fetched).max)
    BY <1>0, <1>1, <2>1, TokenFields, TokenRules
  <2> HIDE DEF w
  <2> QED  BY <1>0, <2>1, <2>2, EnterOrder
<1>4. CASE TokenNative
  <2> DEFINE a == NextToken.act
  <2>1. NextToken.tok = "native" /\ Native(a, AtSource, execs, Fetched) /\ pc' = "interpreted"
    BY <1>4 DEF TokenNative, AtToken
  <2>2. /\ a \in Acts /\ Fetched \in Inputs /\ Len(Fetched) = Len(istack)
        /\ a.do = "execute" => /\ Top(istack).text \notin Bare
                               /\ a.word \in Sure \/ ~(Top(Fetched).in < Top(Fetched).max)
        /\ a.do \in {"source", "include"} => Top(istack).text \notin Bare
    BY <1>0, <1>1, <2>1, TokenFields, TokenRules
  <2> HIDE DEF a
  <2>3. CASE \/ NativeFails(a, AtSource, execs, Fetched) \/ NativeWorks(a, AtSource, execs, Fetched)
             \/ NativeSetsState(a, AtSource, execs, Fetched)
             \/ NativeBye(a, AtSource, execs, Fetched)
    <3>1. execs' = << >> /\ tframes' = tframes /\ istack' = Fetched /\ cont' = AtSource
      BY <1>1, <2>3 DEF NativeFails, NativeWorks, NativeSetsState, NativeBye
    <3> QED  BY <1>0, <2>1, <3>1, QuietToken
  <2>4. CASE NativeExecutes(a, AtSource, execs, Fetched)
    <3> DEFINE w == a.word
    <3>1. /\ a.do = "execute" /\ Enter(execs, PushFrame(tframes, Frame(w, w, 1)))
          /\ cont' = Open(AtSource, InWord(w, 1)) /\ istack' = Fetched /\ UNCHANGED outer
      BY <2>4 DEF NativeExecutes
    <3>2. /\ w \in Words /\ Top(istack).text \notin Bare
          /\ w \in Sure \/ ~(Top(Fetched).in < Top(Fetched).max)
      BY <2>2, <3>1, ActFields
    <3> HIDE DEF w
    <3> QED  BY <1>0, <2>1, <3>1, <3>2, EnterOrder
  <2>5. CASE NativeOpensText(a, AtSource, execs, Fetched)
    <3> DEFINE s == Source("string", a.text, NoFile)
    <3>1. /\ a.do = "source" /\ istack' = PushSource(Fetched, s) /\ execs' = execs
          /\ tframes' = tframes /\ cont' = Open(AtSource, InSource(Len(Fetched) + 1))
      BY <2>5 DEF NativeOpensText
    <3>2. s \in Readable /\ Top(istack).text \notin Bare
      BY <2>2, <3>1, ActFields, NewSource
    <3>3. istack' = Append(Fetched, s)
      BY <2>2, <3>1 DEF NotFull, PushSource
    <3> HIDE DEF s
    <3> QED  BY <1>0, <2>1, <3>1, <3>2, <3>3, OpenOrder
  <2>6. CASE NativeOpensFile(a, AtSource, execs, Fetched)
    <3> DEFINE s == Source("file", FirstLine(a.file), a.file)
    <3>1. /\ a.do = "include" /\ execs' = execs /\ istack' = Append(Fetched, s)
          /\ tframes' = tframes /\ cont' = Open(AtSource, InSource(Len(Fetched) + 1))
      BY <2>2, <2>6 DEF NativeOpensFile, NotFull
    <3>2. s \in Readable /\ Top(istack).text \notin Bare
      <4>1. a.file \in Files
        BY <2>2, <3>1, ActFields
      <4>2. FirstLine(a.file) \in Texts
        BY <4>1, InputAssumption, EmptySeq, ElementOfSeq DEF FirstLine
      <4> QED  BY <2>2, <3>1, <4>1, <4>2, NewSource
    <3> HIDE DEF s
    <3> QED  BY <1>0, <2>1, <3>1, <3>2, OpenOrder
  <2>7. CASE NativeAborts(a, AtSource, execs, Fetched)
    <3>1. istack' = Keyboard(Fetched) /\ execs' = << >> /\ tframes' = << >>
          /\ cont' = << InSource(1) >>
      BY <1>1, <2>7 DEF NativeAborts
    <3>2. pc' \notin {"drain", "drained"}
      BY <2>1
    <3> QED  BY <2>2, <3>1, <3>2, AbortOrder
  <2> QED  BY <2>1, <2>3, <2>4, <2>5, <2>6, <2>7 DEF Native
<1> QED  BY <1>2, <1>3, <1>4
\* The end of the history at the end of a source.
LEMMA ClosedOrder ==
  ASSUME IInv
  PROVE  /\ (/\ cont = Expect(Len(istack), tframes) /\ tframes # << >>)
              => Closed = cont
         /\ (/\ cont = Expect(Len(istack), tframes) /\ tframes = << >>
             /\ Exhausted(Top(istack)))
              => Closed = Expect(Len(istack) - 1, tframes)
         /\ (cont = Append(Expect(Len(istack) - 1, tframes), Here) /\ Exhausted(Top(istack)))
              => Closed = Expect(Len(istack) - 1, tframes)
         /\ ~Exhausted(Top(istack)) => Closed = cont
         /\ (/\ cont = Expect(Len(istack) - 1, tframes) /\ Len(istack) >= 2)
              => Closed = cont
<1> DEFINE n == Len(istack)
           m == n - 1
<1>1. /\ n \in Nat /\ m \in Nat /\ tframes \in Seq(Kept) /\ Here = InSource(n)
      /\ Here \in Contexts
  BY Depths
<1> HIDE DEF n
<1>2. ASSUME NEW k \in Nat, tframes # << >>
      PROVE  ~Innermost(Expect(k, tframes), Here)
  <2> DEFINE t == Front(tframes)
             f == Last(tframes)
             e == Expect(k, t)
  <2>1. /\ t \in Seq(Kept) /\ f \in Kept
        /\ Expect(k, tframes) = Append(e, InWord(f.word, f.ip))
    BY <1>1, <1>2, ExpectTop
  <2>2. f.word \in Words /\ f.ip \in Nat /\ InWord(f.word, f.ip) \in Contexts
    BY <2>1, KeptContext
  <2>3. e \in Seq(Contexts)
    BY <1>2, <2>1, Expected
  <2>4. InWord(f.word, f.ip) # Here
    BY <1>1, <2>2, Contexts2
  <2> HIDE DEF e, f
  <2> QED  BY <2>1, <2>2, <2>3, <2>4, Inner
<1>3. Expect(m, tframes) \in Seq(Contexts)
  BY <1>1, Expected
<1>4. /\ Innermost(Append(Expect(m, tframes), Here), Here)
      /\ Front(Append(Expect(m, tframes), Here)) = Expect(m, tframes)
  BY <1>1, <1>3, Inner
<1>5. tframes = << >> => Expect(n, tframes) = Append(Expect(m, tframes), Here)
  BY LevelHere DEF n
<1>6. ASSUME tframes = << >>, n >= 2
      PROVE  ~Innermost(Expect(m, tframes), Here)
  <2> DEFINE l == m - 1
  <2>1. l \in Nat /\ l + 1 = m /\ m # n
    BY <1>1, <1>6
  <2> HIDE DEF l, m
  <2>2. Expect(l + 1, tframes) = Append(Expect(l, tframes), InSource(l + 1))
    BY <1>6, <2>1, ExpectSource
  <2>3. Expect(l, tframes) \in Seq(Contexts) /\ InSource(m) \in Contexts /\ InSource(m) # Here
    BY <1>1, <2>1, Expected, NewContext, Contexts2
  <2>4. ~Innermost(Append(Expect(l, tframes), InSource(m)), Here)
    BY <2>3, Inner
  <2> QED  BY <2>1, <2>2, <2>4
<1>7. /\ tframes # << >> => ~Innermost(Expect(n, tframes), Here)
      /\ tframes # << >> => ~Innermost(Expect(m, tframes), Here)
  BY <1>1, <1>2
<1>8. Closed = IF Exhausted(Top(istack)) /\ Innermost(cont, Here) THEN Front(cont) ELSE cont
  BY DEF Closed
<1> HIDE DEF m
<1>9. m = Len(istack) - 1 /\ n = Len(istack)
  BY DEF m, n
<1> QED  BY <1>4, <1>5, <1>6, <1>7, <1>8, <1>9

\* The end of a line.
LEMMA LineEndOrder ==
  ASSUME Disciplined, IInv, DInv, EndString \/ RefillFile \/ RefillKeyboard
  PROVE  DInv'
<1> DEFINE n == Len(istack)
<1>1. /\ pc = "drain" /\ tframes = << >> /\ pc' = "main" /\ UNCHANGED <<execs, tframes>>
  BY DEF EndString, RefillFile, RefillKeyboard, AtLineEnd
<1>2. execs = << >> /\ ~Failed
  BY <1>1 DEF IInv, CallInv, FailureStops
<1>3. /\ Idle /\ ~IdleOpened
  BY <1>1, <1>2 DEF DInv, IdleOpened
<1>4. /\ n \in Nat \ {0} /\ n - 1 \in Nat /\ istack \in Seq(Readable) /\ istack # << >>
      /\ Len(Front(istack)) = n - 1 /\ \A s \in Readable : Len(SetTop(istack, s)) = n
      /\ istack \in Inputs
  BY Depths, Popped, Replaced
<1>5. Ordered'
  BY <1>1, NoFrames
<1>6. ASSUME cont' = Expect(Len(istack'), tframes') PROVE DInv'
  <2>1. IdleLevel'
    BY <1>1, <1>6 DEF IdleLevel
  <2> QED  BY <1>1, <1>2, <1>5, <2>1 DEF DInv, Idle
<1>7. ~HasToken
  <2>1. CASE IdleLevel
    BY <1>1, <2>1 DEF IdleLevel
  <2>2. CASE IdleEnding
    <3>1. Top(istack).in >= Top(istack).max
      BY <2>2 DEF IdleEnding, Exhausted
    <3>2. Top(istack).in \in Nat /\ Top(istack).max \in Nat
      BY Depths
    <3> QED  BY <3>1, <3>2 DEF HasToken
  <2> QED  BY <1>3, <2>1, <2>2 DEF Idle
<1>8. ASSUME istack' = Front(istack), Exhausted(Top(istack)), cont' = Closed
      PROVE  DInv'
  <2>1. CASE IdleLevel
    <3>1. cont' = Expect(n - 1, tframes)
      BY <1>1, <1>8, <2>1, ClosedOrder DEF IdleLevel
    <3> QED  BY <1>1, <1>4, <1>6, <1>8, <3>1
  <2>2. CASE IdleEnding
    <3>1. cont' = Expect(n - 1, tframes)
      BY <1>8, <2>2, ClosedOrder DEF IdleEnding
    <3> QED  BY <1>1, <1>4, <1>6, <1>8, <3>1
  <2> QED  BY <1>3, <2>1, <2>2 DEF Idle
<1>9. ASSUME ~Exhausted(Top(istack)), NEW s \in Readable, istack' = SetTop(istack, s),
             cont' = cont
      PROVE  DInv'
  <2>1. IdleLevel
    BY <1>3, <1>9 DEF Idle, IdleEnding
  <2> QED  BY <1>1, <1>4, <1>6, <1>9, <2>1 DEF IdleLevel
<1>10. CASE EndString
  <2>1. Top(istack).kind = "string" /\ istack' = Front(istack) /\ cont' = Closed
    BY <1>10 DEF EndString
  <2>2. Exhausted(Top(istack))
    BY <1>7, <2>1, Depths DEF Exhausted, HasToken
  <2> QED  BY <1>8, <2>1, <2>2
<1>11. CASE RefillFile
  <2> DEFINE s == Top(istack)
  <2>1. s.kind = "file" /\ cont' = Closed /\ s \in Readable /\ s.file \in Files /\ s.line \in Nat
        /\ s.in \in Nat /\ s.max \in Nat
    BY <1>4, <1>11, TopSource DEF RefillFile
  <2>2. File[s.file] \in Seq(Texts) /\ Len(File[s.file]) \in Nat
    BY <2>1, InputAssumption, LenProperties
  <2>3. CASE s.line < Len(File[s.file])
    <3> DEFINE t == File[s.file][s.line + 1]
               r == [Source("file", t, s.file) EXCEPT !.line = s.line + 1]
    <3>1. istack' = SetTop(istack, r) /\ ~Exhausted(s)
      BY <1>11, <2>1, <2>2, <2>3 DEF RefillFile, Exhausted
    <3>2. r \in Readable
      <4> DEFINE q == Source("file", t, s.file)
      <4>1. t \in Texts
        BY <2>1, <2>2, <2>3, ElementOfSeq
      <4>2. q \in Readable /\ q.kind = "file"
        BY <2>1, <4>1, NewSource DEF Source
      <4> HIDE DEF q, s
      <4>3. [q EXCEPT !.line = s.line + 1] \in Readable
        BY <2>1, <4>2 DEF Readable, Sources
      <4> QED  BY <4>3 DEF q
    <3>3. cont' = cont
      BY <2>1, <3>1, ClosedOrder
    <3> HIDE DEF r
    <3> QED  BY <1>9, <3>1, <3>2, <3>3
  <2>4. CASE ~(s.line < Len(File[s.file]))
    <3>1. istack' = Front(istack)
      BY <1>11, <2>4 DEF RefillFile
    <3>2. Exhausted(s)
      BY <1>7, <2>1, <2>2, <2>4 DEF Exhausted, HasToken
    <3> QED  BY <1>8, <2>1, <3>1, <3>2
  <2> QED  BY <2>3, <2>4
<1>12. CASE RefillKeyboard
  <2>1. Top(istack).kind = "user" /\ cont' = cont
    BY <1>12 DEF RefillKeyboard
  <2>2. PICK t \in KeyLines : istack' = SetTop(istack, Source("user", t, NoFile))
    BY <1>12 DEF RefillKeyboard
  <2>3. Source("user", t, NoFile) \in Readable
    BY InputAssumption, NewSource
  <2>4. ~Exhausted(Top(istack))
    BY <2>1 DEF Exhausted
  <2> QED  BY <1>9, <2>1, <2>2, <2>3, <2>4
<1> QED  BY <1>10, <1>11, <1>12

\* The frames that were kept are run.
LEMMA DrainOrder ==
  ASSUME Disciplined, IInv, DInv, DrainFrame
  PROVE  DInv'
<1> DEFINE f == Last(tframes)
           z == Activation(f, "run")
           n == Len(istack)
<1>1. /\ pc = "drain" /\ tframes # << >> /\ depth' = n /\ pc' = "drained"
      /\ execs' = Append(execs, z) /\ tframes' = Front(tframes)
      /\ UNCHANGED <<istack, outer, cont>>
  BY DEF DrainFrame, Enter
<1>2. execs = << >> /\ ~Failed
  BY <1>1 DEF IInv, CallInv, FailureStops
<1>3. Idle /\ Ordered /\ ~IdleOpened
  BY <1>1, <1>2 DEF DInv, IdleOpened
<1>4. n \in Nat \ {0} /\ n - 1 \in Nat /\ tframes \in Seq(Kept)
  BY Depths
<1>5. /\ f \in Kept /\ f.word \in Words /\ f.ip \in Nat /\ f.ip \in DOMAIN Code[f.word]
      /\ f.label \in Words \cup {Foreign}
  <2>1. f \in Kept
    BY <1>1, <1>4, Popped
  <2> QED  BY <2>1 DEF Kept, Frames
<1>6. /\ z \in Live /\ z.word = f.word /\ z.ip = f.ip /\ z.src = n /\ z.at = "run"
      /\ Ctx(z) = InWord(f.word, f.ip)
  <2>1. z = [label |-> f.label, word |-> f.word, ip |-> f.ip, src |-> n, at |-> "run"]
    BY DEF Activation
  <2> QED  BY <1>4, <1>5, <2>1 DEF Live, Activations, Ctx
<1>7. /\ Ordered'
      /\ AllAtEnd => AllAtEnd' /\ AtEnd(f)
      /\ AllSure => AllSure'
      /\ f.word \in First => tframes' = << >>
      /\ f.word \in Opening => AllAtEnd'
  BY <1>1, <1>3, <1>4, OrderedPopped
<1>8. /\ \A k \in Nat : Expect(k, tframes) = Append(Expect(k, tframes'), InWord(f.word, f.ip))
  BY <1>1, <1>4, ExpectTop
<1> HIDE DEF z, f, n
<1>9. Len(execs') = 1 /\ execs'[1] = z /\ Last(execs') = z /\ DOMAIN execs' = 1 .. 1
      /\ execs' # << >>
  <2>1. /\ execs \in Seq(Live) /\ Len(execs) = 0
    BY <1>2, EmptySeq
  <2>2. /\ Append(execs, z) \in Seq(Live) /\ Append(execs, z) # << >>
        /\ Len(Append(execs, z)) = Len(execs) + 1 /\ Last(Append(execs, z)) = z
        /\ Append(execs, z)[Len(execs) + 1] = z
    <3>1. z \in Live
      BY <1>6
    <3>2. /\ Append(execs, z) \in Seq(Live) /\ Append(execs, z) # << >>
          /\ Len(Append(execs, z)) = Len(execs) + 1 /\ Append(execs, z)[Len(execs) + 1] = z
      BY <2>1, <3>1, Grown
    <3>3. Last(Append(execs, z)) = z
      BY <2>1, <3>1, Pushed
    <3> QED  BY <3>2, <3>3
  <2> QED  BY <1>1, <2>1, <2>2, LenProperties
<1>10. HasToken' = HasToken /\ Failed' = Failed /\ Len(istack') = n
  BY <1>1 DEF HasToken, Failed, n
<1>11. CASE IdleLevel
  <2>1. cont' = Append(Expect(n, tframes'), Ctx(z)) /\ ~HasToken
    BY <1>1, <1>4, <1>6, <1>8, <1>11 DEF IdleLevel, n
  <2>2. Waiting' = tframes'
    BY <1>9 DEF Waiting
  <2>3. BusyLevel'
    BY <1>1, <1>2, <1>6, <1>7, <1>9, <1>10, <2>1, <2>2 DEF BusyLevel
  <2> QED  BY <1>7, <1>9, <2>3 DEF DInv, Busy
<1>12. CASE IdleEnding
  <2>1. /\ cont' = Append(Expect(n - 1, tframes'), Ctx(z)) /\ AllAtEnd /\ n >= 2
        /\ Exhausted(Top(istack))
    BY <1>1, <1>4, <1>6, <1>8, <1>12 DEF IdleEnding, n
  <2>2. Exhausted(Top(istack))'
    BY <1>1, <2>1 DEF Exhausted
  <2>3. Op(z).op = "endword"
    BY <1>6, <1>7, <2>1 DEF Op, AtEnd
  <2>4. BusyEnding'
    BY <1>1, <1>2, <1>6, <1>7, <1>9, <1>10, <2>1, <2>2, <2>3 DEF BusyEnding, Op, Ctx
  <2> QED  BY <1>7, <1>9, <2>4 DEF DInv, Busy
<1> QED  BY <1>3, <1>11, <1>12 DEF Idle

\* A step of askf_exec or of the main loop between two activations.
LEMMA BetweenOrder ==
  ASSUME Disciplined, IInv, DInv,
         TokenDone \/ NoMoreTokens \/ FrameDrained \/ MainDispatch \/ DebuggerRead
  PROVE  DInv'
<1>1. UNCHANGED <<depth, execs, tframes, istack, outer>>
  BY DEF TokenDone, NoMoreTokens, FrameDrained, MainDispatch, DebuggerRead
<1>2. execs = << >>
  BY DEF TokenDone, NoMoreTokens, FrameDrained, MainDispatch, DebuggerRead, IInv, CallInv
<1>3. Ordered' /\ (AllAtEnd => AllAtEnd') /\ Idle
  BY <1>1, <1>2, OrderedKept DEF DInv
<1>4. /\ HasToken' = HasToken /\ Failed' = Failed /\ BareTop' = BareTop
      /\ Exhausted(Top(istack))' = Exhausted(Top(istack))
  BY <1>1 DEF HasToken, Failed, BareTop, Exhausted
<1>5. SUFFICES Idle'
  BY <1>1, <1>2, <1>3 DEF DInv
<1>6. CASE TokenDone \/ MainDispatch \/ DebuggerRead
  <2>1. /\ cont' = cont /\ pc \in {"interpreted", "main", "debugger"}
        /\ pc' \notin {"drain", "drained"}
    BY <1>6 DEF TokenDone, MainDispatch, DebuggerRead
  <2>2. IdleLevel \/ IdleOpened
    BY <1>3, <2>1 DEF Idle, IdleEnding
  <2>3. IdleLevel => IdleLevel'
    BY <1>1, <1>4, <2>1 DEF IdleLevel
  <2>4. IdleOpened => IdleOpened'
    BY <1>1, <1>3, <1>4, <2>1 DEF IdleOpened
  <2> QED  BY <2>2, <2>3, <2>4 DEF Idle
<1>7. CASE FrameDrained
  <2>1. /\ cont' = cont /\ pc = "drained"
        /\ pc' = CASE Failed -> "main"
                   [] ~Failed /\ Len(istack) # depth -> "tokens"
                   [] OTHER -> "drain"
    BY <1>7 DEF FrameDrained
  <2>2. IdleLevel => IdleLevel'
    BY <1>1, <1>4, <2>1 DEF IdleLevel
  <2>3. IdleOpened => IdleOpened'
    BY <1>1, <1>3, <1>4, <2>1 DEF IdleOpened
  <2>4. IdleEnding => IdleEnding'
    BY <1>1, <1>3, <1>4, <2>1 DEF IdleEnding
  <2> QED  BY <1>3, <2>2, <2>3, <2>4 DEF Idle
<1>8. CASE NoMoreTokens
  <2>1. pc = "tokens" /\ ~HasToken /\ pc' = "drain" /\ cont' = Closed
    BY <1>8 DEF NoMoreTokens
  <2>0. ~Failed
    BY <2>1 DEF IInv, FailureStops
  <2>2. CASE IdleLevel
    <3>1. cont = Expect(Len(istack), tframes)
      BY <2>2 DEF IdleLevel
    <3>2. CASE tframes # << >> \/ ~Exhausted(Top(istack))
      <4>1. cont' = cont
        BY <2>1, <3>1, <3>2, ClosedOrder
      <4>2. IdleLevel'
        BY <1>1, <1>4, <2>1, <3>1, <4>1 DEF IdleLevel
      <4> QED  BY <4>2 DEF Idle
    <3>3. CASE tframes = << >> /\ Exhausted(Top(istack))
      <4>1. cont' = Expect(Len(istack) - 1, tframes)
        BY <2>1, <3>1, <3>3, ClosedOrder
      <4>2. Len(istack) >= 2
        BY <3>3, Depths DEF Exhausted
      <4>3. AllAtEnd'
        BY <1>1, <3>3, NoFrames
      <4>4. IdleEnding'
        BY <1>1, <1>4, <2>0, <2>1, <3>3, <4>1, <4>2, <4>3 DEF IdleEnding
      <4> QED  BY <4>4 DEF Idle
    <3> QED  BY <3>2, <3>3
  <2>3. CASE IdleOpened
    <3>1. Exhausted(Top(istack))
      BY <2>1, <2>3, Depths DEF IdleOpened, BareTop, Exhausted, HasToken
    <3>2. cont' = Expect(Len(istack) - 1, tframes)
      BY <2>1, <2>3, <3>1, ClosedOrder DEF IdleOpened, Here
    <3>3. IdleEnding'
      BY <1>1, <1>3, <1>4, <2>0, <2>1, <2>3, <3>1, <3>2 DEF IdleEnding, IdleOpened, BareTop
    <3> QED  BY <3>3 DEF Idle
  <2>4. ~IdleEnding
    BY <2>1 DEF IdleEnding
  <2> QED  BY <1>3, <2>2, <2>3, <2>4 DEF Idle
<1> QED  BY <1>6, <1>7, <1>8

LEMMA DebuggerOrder ==
  ASSUME Disciplined, IInv, DInv, DebuggerCommand
  PROVE  DInv'
<1>1. /\ pc = "debugger" /\ pc' \in {"debugger", "main"} /\ UNCHANGED <<depth, execs>>
      /\ execs = << >>
  BY DEF DebuggerCommand, IInv, CallInv
<1>2. CASE UNCHANGED <<tframes, istack, cont>>
  <2>1. Ordered' /\ (AllAtEnd => AllAtEnd') /\ Idle
    BY <1>1, <1>2, OrderedKept DEF DInv
  <2>2. HasToken' = HasToken /\ BareTop' = BareTop
    BY <1>2 DEF HasToken, BareTop
  <2>3. IdleLevel \/ IdleOpened
    BY <1>1, <2>1 DEF Idle, IdleEnding
  <2>4. IdleLevel => IdleLevel'
    BY <1>1, <1>2, <2>2 DEF IdleLevel
  <2>5. IdleOpened => IdleOpened'
    BY <1>1, <1>2, <2>1, <2>2 DEF IdleOpened
  <2> QED  BY <1>1, <2>1, <2>3, <2>4, <2>5 DEF DInv, Idle
<1>3. CASE istack' = Keyboard(istack) /\ tframes' = << >> /\ cont' = << InSource(1) >>
  <2>1. istack \in Inputs /\ execs' = << >> /\ pc' \notin {"drain", "drained"}
    BY <1>1, Depths
  <2> QED  BY <1>3, <2>1, AbortOrder
<1> QED  BY <1>2, <1>3 DEF DebuggerCommand

LEMMA OrderStep ==
  ASSUME Disciplined, IInv, DInv, NotFull, [Next]_vars
  PROVE  DInv'
<1>1. CASE UNCHANGED vars
  <2>1. UNCHANGED <<pc, depth, execs, tframes, istack, outer, cont>>
    BY <1>1 DEF vars
  <2>2. /\ HasToken' <=> HasToken
        /\ BareTop' <=> BareTop
        /\ AllAtEnd' <=> AllAtEnd
        /\ AllSure' <=> AllSure
        /\ Failed' <=> Failed
        /\ Waiting' = Waiting
        /\ Ordered' <=> Ordered
    BY <2>1 DEF HasToken, BareTop, AllAtEnd, AllSure, AtEnd, Failed, Waiting, Ordered, Resume,
       Exhausted
  <2>3. (IdleLevel' <=> IdleLevel) /\ (IdleOpened' <=> IdleOpened)
    BY <2>1, <2>2 DEF IdleLevel, IdleOpened
  <2>4. (IdleEnding' <=> IdleEnding) /\ (BusyLevel' <=> BusyLevel)
    BY <2>1, <2>2 DEF IdleEnding, BusyLevel, Exhausted
  <2>5. (BusyOpened' <=> BusyOpened) /\ (BusyEnding' <=> BusyEnding)
    BY <2>1, <2>2 DEF BusyOpened, BusyEnding, Exhausted
  <2> QED  BY <2>1, <2>2, <2>3, <2>4, <2>5 DEF DInv, Idle, Busy
<1>2. CASE Executor
  BY <1>2, ExecutorOrder
<1>3. CASE Interpreter \/ MainDispatch \/ DebuggerCommand \/ User
  BY <1>3, TokenOrder, LineEndOrder, DrainOrder, BetweenOrder, DebuggerOrder
  DEF Interpreter, User
<1> QED  BY <1>1, <1>2, <1>3 DEF Next, Machine

-----------------------------------------------------------------------------
(* The invariant holds while neither stack is full.                        *)

LEMMA InitOrder ==
  ASSUME Init
  PROVE  DInv
<1>1. Ordered
  <2>1. tframes = << >> /\ Len(tframes) = 0
    BY DEF Init
  <2> QED  BY <2>1 DEF Ordered
<1>2. cont = Expect(1, tframes)
  <2>1. tframes \in Seq(Kept) /\ Len(tframes) = 0 /\ 1 \in Nat
    BY EmptySeq DEF Init
  <2> DEFINE e == Expect(1, tframes)
             c == << InSource(1) >>
  <2>2. e \in Seq(Contexts) /\ Len(e) = 1 /\ e[1] = InSource(1)
    <3>1. /\ e \in Seq(Contexts) /\ Len(e) = 1 + Len(tframes)
          /\ \A i \in 1 .. 1 : e[i] = InSource(i)
      BY <2>1, Expected
    <3> QED  BY <2>1, <3>1
  <2>3. c \in Seq(Contexts) /\ Len(c) = 1 /\ c[1] = InSource(1)
    BY NewContext
  <2>4. cont = c
    BY DEF Init
  <2> HIDE DEF e, c
  <2>5. Len(e) = Len(c) /\ \A i \in 1 .. Len(e) : e[i] = c[i]
    BY <2>2, <2>3
  <2>6. e = c
    BY <2>2, <2>3, <2>5, SeqEqual
  <2> QED  BY <2>4, <2>6 DEF e, c
<1>3. Len(istack) = 1 /\ execs = << >> /\ tframes = << >> /\ pc = "main"
  BY DEF Init
<1>4. IdleLevel
  BY <1>2, <1>3 DEF IdleLevel
<1> QED  BY <1>1, <1>3, <1>4 DEF DInv, Idle

LEMMA OrderInvariance ==
  ASSUME Disciplined
  PROVE  Spec /\ []NotFull => [](IInv /\ DInv)
<1>1. Init => IInv /\ DInv
  BY InitInv, InitOrder
<1>2. IInv /\ DInv /\ NotFull /\ [Next]_vars => (IInv /\ DInv)'
  BY NextInv, OrderStep
<1> QED  BY <1>1, <1>2, PTL DEF Spec

-----------------------------------------------------------------------------
(* The words left in the history and the kept frames.                      *)

\* The words of an expected history are those of its frames.
LEMMA ExpectedWords ==
  ASSUME NEW n \in Nat, NEW fs \in Seq(Kept), NEW p \in DOMAIN Expect(n, fs)
  PROVE  "word" \in DOMAIN Expect(n, fs)[p] <=> p > n
<1> DEFINE e == Expect(n, fs)
<1>1. /\ e \in Seq(Contexts) /\ Len(e) = n + Len(fs) /\ Len(fs) \in Nat
      /\ \A i \in 1 .. n : e[i] = InSource(i)
      /\ \A i \in 1 .. Len(fs) : e[n + i] = InWord(fs[i].word, fs[i].ip)
  BY Expected, LenProperties
<1>2. p \in 1 .. n + Len(fs)
  BY <1>1, LenProperties
<1>3. CASE p <= n
  BY <1>1, <1>2, <1>3, Contexts2
<1>4. CASE p > n
  <2> DEFINE i == p - n
  <2>1. i \in 1 .. Len(fs) /\ n + i = p
    BY <1>1, <1>2, <1>4
  <2> HIDE DEF i
  <2>2. e[p] = InWord(fs[i].word, fs[i].ip)
    BY <1>1, <2>1
  <2>3. fs[i].word \in Words /\ fs[i].ip \in Nat
    BY <2>1, KeptContext, ElementOfSeq
  <2> QED  BY <1>4, <2>2, <2>3, Contexts2
<1> QED  BY <1>1, <1>2, <1>3, <1>4

\* The members of W up to p.
UpTo(W, p) == {q \in W : q <= p}

\* The m places behind the first n.
Behind(n, m) == (n + 1) .. (n + m)

\* The k-th of the places behind the first n is n + k.
LEMMA Counted ==
  ASSUME NEW n \in Nat, NEW m \in Nat, NEW W, W = Behind(n, m)
  PROVE  /\ Cardinality(W) = m
         /\ \A p \in W : Cardinality(UpTo(W, p)) = p - n /\ p - n \in 1 .. m
<1>0. W = (n + 1) .. (n + m)
  BY DEF Behind
<1>1. Cardinality(W) = m
  <2>1. Cardinality((n + 1) .. (n + m))
          = IF n + 1 > n + m THEN 0 ELSE (n + m) - (n + 1) + 1
    BY FS_Interval
  <2> QED  BY <1>0, <2>1
<1>2. ASSUME NEW p \in W
      PROVE  Cardinality(UpTo(W, p)) = p - n /\ p - n \in 1 .. m
  <2>1. UpTo(W, p) = (n + 1) .. p
    BY <1>0 DEF UpTo
  <2>2. p \in Int /\ p >= n + 1 /\ p <= n + m
    BY <1>0
  <2>3. Cardinality((n + 1) .. p) = IF n + 1 > p THEN 0 ELSE p - (n + 1) + 1
    BY <2>2, FS_Interval
  <2> QED  BY <2>1, <2>2, <2>3
<1> QED  BY <1>1, <1>2

\* The frames are the words left in an expected history.
LEMMA FramesAreWordsLeft ==
  ASSUME NEW n \in Nat, tframes \in Seq(Kept), cont \in Seq(Contexts),
         NEW l \in Nat, l >= n + Len(tframes), Len(cont) = l,
         \A p \in 1 .. n + Len(tframes) : cont[p] = Expect(n, tframes)[p],
         \A p \in 1 .. l : p > n + Len(tframes) => "word" \notin DOMAIN cont[p]
  PROVE  /\ Len(tframes) = Cardinality(WordsLeft)
         /\ \A p \in WordsLeft :
              LET f == tframes[Cardinality({q \in WordsLeft : q <= p})]
              IN  cont[p] = InWord(f.word, f.ip)
<1> DEFINE e == Expect(n, tframes)
           m == Len(tframes)
<1>1. /\ m \in Nat /\ e \in Seq(Contexts) /\ Len(e) = n + m
      /\ \A i \in 1 .. m : e[n + i] = InWord(tframes[i].word, tframes[i].ip)
  BY Expected, LenProperties
<1>2. DOMAIN e = 1 .. n + m /\ DOMAIN cont = 1 .. l
  BY <1>1, LenProperties
<1>3. \A p \in 1 .. n + m : "word" \in DOMAIN e[p] <=> p > n
  BY <1>2, ExpectedWords
<1>4. \A p \in 1 .. n + m : cont[p] = e[p]
  OBVIOUS
<1> HIDE DEF e, m
<1>5. m = Len(tframes)
  BY DEF m
<1>6. WordsLeft = (n + 1) .. (n + m)
  <2>1. ASSUME NEW p \in WordsLeft PROVE p \in (n + 1) .. (n + m)
    <3>1. p \in 1 .. l /\ "word" \in DOMAIN cont[p]
      BY <1>2 DEF WordsLeft
    <3>2. p \in 1 .. n + m
      BY <1>1, <1>5, <3>1
    <3> QED  BY <1>1, <1>3, <1>4, <3>1, <3>2
  <2>2. ASSUME NEW p \in (n + 1) .. (n + m) PROVE p \in WordsLeft
    <3>1. p \in 1 .. n + m /\ p > n /\ p \in 1 .. l
      BY <1>1, <1>5
    <3> QED  BY <1>2, <1>3, <1>4, <3>1 DEF WordsLeft
  <2> QED  BY <2>1, <2>2
<1>7. /\ Cardinality(WordsLeft) = m
      /\ \A p \in WordsLeft : Cardinality(UpTo(WordsLeft, p)) = p - n /\ p - n \in 1 .. m
  <2>1. WordsLeft = Behind(n, m) /\ m \in Nat
    BY <1>1, <1>6 DEF Behind
  <2> QED  BY <2>1, Counted
<1>8. ASSUME NEW p \in WordsLeft, NEW f,
             f = tframes[Cardinality(UpTo(WordsLeft, p))]
      PROVE  cont[p] = InWord(f.word, f.ip)
  <2>1. Cardinality(UpTo(WordsLeft, p)) = p - n /\ p - n \in 1 .. m
    BY <1>7
  <2>2. p \in 1 .. n + m /\ n + (p - n) = p
    BY <1>1, <1>6
  <2>3. e[p] = InWord(tframes[p - n].word, tframes[p - n].ip)
    BY <1>1, <2>1, <2>2
  <2> QED  BY <1>4, <1>8, <2>1, <2>2, <2>3
<1> QED  BY <1>5, <1>7, <1>8 DEF UpTo

-----------------------------------------------------------------------------
(* The theorems.                                                           *)

\* In a disciplined program, while neither stack is full, what runs is always
\* the innermost thing in progress: threaded code runs in the order of its text
\* through nested calls, EXECUTE, opened sources, failures and CONTINUE
\* (README.md:111; _askf_execute_threaded_frames and askf_exec).
THEOREM RunsInOrder == ASSUME Disciplined PROVE Spec /\ []NotFull => []InOrder
<1>1. IInv /\ DInv => InOrder
  <2> SUFFICES ASSUME IInv, DInv PROVE InOrder
    OBVIOUS
  <2>1. ASSUME Running, NEW x, x = Last(execs)
        PROVE  Innermost(cont, InWord(x.word, x.ip))
    <3>1. /\ execs # << >> /\ x.at = "run" /\ x.word \in Words /\ x.ip \in Nat
      BY <2>1, AtWork
    <3>2. BusyLevel \/ BusyEnding
      BY <2>1, <3>1 DEF DInv, Busy, BusyOpened
    <3>3. Ctx(x) = InWord(x.word, x.ip) /\ Ctx(x) \in Contexts
      BY <3>1, NewContext DEF Ctx
    <3> DEFINE e == Expect(Len(istack), Waiting)
               d == Expect(Len(istack) - 1, tframes)
    <3>4. e \in Seq(Contexts) /\ d \in Seq(Contexts)
      BY <3>1, Depths, Waits, Expected
    <3>5. cont = Append(e, Ctx(x)) \/ cont = Append(d, Ctx(x))
      BY <2>1, <3>2 DEF BusyLevel, BusyEnding
    <3> DEFINE c == Ctx(x)
    <3> HIDE DEF e, d, c
    <3>6. c \in Contexts /\ c = InWord(x.word, x.ip)
      BY <3>3 DEF c
    <3>7. Innermost(Append(e, c), c) /\ Innermost(Append(d, c), c)
      BY <3>4, <3>6, Inner
    <3>8. cont = Append(e, c) \/ cont = Append(d, c)
      BY <3>5 DEF c
    <3> QED  BY <3>6, <3>7, <3>8
  <2>2. ASSUME pc = "tokens", HasToken PROVE Innermost(cont, Here)
    <3> DEFINE d == Expect(Len(istack) - 1, tframes)
    <3>1. cont = Append(d, Here) /\ d \in Seq(Contexts)
      BY <2>2, AtTokenOrder
    <3>2. Here \in Contexts
      BY Depths
    <3> HIDE DEF d
    <3> QED  BY <3>1, <3>2, Inner
  <2> QED  BY <2>1, <2>2 DEF InOrder
<1> QED  BY <1>1, OrderInvariance, PTL

\* In a disciplined program, while neither stack is full, a word reads from the
\* source it was called from (GUIDE/06-input-and-blocks.md:20; the sources are
\* taken from the top of the input stack by askf_get_word).
THEOREM ReadsFromOwnSource == ASSUME Disciplined PROVE Spec /\ []NotFull => []ReadsOwnSource
<1>1. IInv /\ DInv => ReadsOwnSource
  <2> SUFFICES ASSUME IInv, DInv, Running, NEW x, x = Last(execs), Op(x).op # "endword"
               PROVE  Here \in ToSet(cont) /\ InSource(Len(istack) + 1) \notin ToSet(cont)
    BY DEF ReadsOwnSource
  <2> DEFINE n == Len(istack)
             e == Expect(n, Waiting)
             c == InWord(x.word, x.ip)
  <2>1. /\ execs # << >> /\ x.at = "run" /\ x.word \in Words /\ x.ip \in Nat
    BY AtWork
  <2>2. BusyLevel
    BY <2>1 DEF DInv, Busy, BusyOpened, BusyEnding
  <2>3. Ctx(x) = c /\ c \in Contexts
    BY <2>1, NewContext DEF Ctx
  <2>4. n \in Nat \ {0} /\ Waiting \in Seq(Kept) /\ Here = InSource(n)
    BY <2>1, Depths, Waits
  <2>5. /\ e \in Seq(Contexts) /\ Len(e) = n + Len(Waiting) /\ Len(Waiting) \in Nat
        /\ \A i \in 1 .. n : e[i] = InSource(i)
        /\ \A i \in 1 .. Len(Waiting) : e[n + i] = InWord(Waiting[i].word, Waiting[i].ip)
    BY <2>4, Expected, LenProperties
  <2>6. cont = Append(e, c)
    BY <2>2, <2>3 DEF BusyLevel
  <2> HIDE DEF e
  <2>7. /\ Len(cont) = Len(e) + 1 /\ DOMAIN cont = 1 .. Len(e) + 1
        /\ \A i \in 1 .. Len(e) : cont[i] = e[i]
        /\ cont[Len(e) + 1] = c
    BY <2>3, <2>5, <2>6, AppendProperties, LenProperties
  <2>8. Here \in ToSet(cont)
    <3>1. n \in DOMAIN cont /\ cont[n] = Here
      BY <2>4, <2>5, <2>7
    <3> QED  BY <3>1 DEF ToSet
  <2>9. ASSUME NEW i \in DOMAIN cont PROVE cont[i] # InSource(n + 1)
    <3>1. CASE i \in 1 .. n
      <4>1. cont[i] = InSource(i) /\ i # n + 1 /\ i \in Nat /\ n + 1 \in Nat
        BY <2>4, <2>5, <2>7, <3>1
      <4> QED  BY <4>1, Contexts2
    <3>2. CASE i \in n + 1 .. Len(e)
      <4> DEFINE j == i - n
      <4>1. j \in 1 .. Len(Waiting) /\ n + j = i /\ i \in 1 .. Len(e)
        BY <2>4, <2>5, <3>2
      <4> HIDE DEF j
      <4>2. cont[i] = InWord(Waiting[j].word, Waiting[j].ip)
        BY <2>5, <2>7, <4>1
      <4>3. Waiting[j].word \in Words /\ Waiting[j].ip \in Nat
        BY <2>4, <4>1, KeptContext, ElementOfSeq
      <4> QED  BY <2>4, <4>2, <4>3, Contexts2
    <3>3. CASE i = Len(e) + 1
      BY <2>1, <2>4, <2>7, <3>3, Contexts2
    <3>4. i \in 1 .. n \/ i \in n + 1 .. Len(e) \/ i = Len(e) + 1
      <4>1. Len(e) \in Nat /\ i \in 1 .. Len(e) + 1
        BY <2>4, <2>5, <2>7
      <4> QED  BY <2>4, <4>1
    <3> QED  BY <3>1, <3>2, <3>3, <3>4
  <2> QED  BY <2>8, <2>9 DEF ToSet
<1> QED  BY <1>1, OrderInvariance, PTL

\* In a disciplined program, while neither stack is full, the frames preserved
\* for the debugger are exactly the words left to run, each at the operation
\* where it goes on (README.md:113; askf_fallback_loop, and the frames pushed by
\* _askf_execute_threaded_frames on its error paths).
THEOREM PreservesContext == ASSUME Disciplined PROVE Spec /\ []NotFull => []ContextPreserved
<1>1. IInv /\ DInv => ContextPreserved
  <2> SUFFICES ASSUME IInv, DInv, pc = "debugger"
               PROVE  /\ Len(tframes) = Cardinality(WordsLeft)
                      /\ \A p \in WordsLeft :
                           LET f == tframes[Cardinality({q \in WordsLeft : q <= p})]
                           IN  cont[p] = InWord(f.word, f.ip)
    BY DEF ContextPreserved
  <2> DEFINE n == Len(istack)
             m == Len(tframes)
  <2>1. execs = << >>
    BY DEF IInv, CallInv
  <2>2. IdleLevel \/ IdleOpened
    BY <2>1 DEF DInv, Idle, IdleEnding
  <2>3. n \in Nat \ {0} /\ n - 1 \in Nat /\ tframes \in Seq(Kept) /\ cont \in Seq(Contexts)
        /\ m \in Nat
    BY Depths, LenProperties
  <2>4. CASE IdleLevel
    <3>1. cont = Expect(n, tframes) /\ Len(cont) = n + m
      BY <2>3, <2>4, Expected DEF IdleLevel
    <3>2. n + m \in Nat /\ \A p \in 1 .. n + m : ~(p > n + m)
      BY <2>3
    <3> HIDE DEF n, m
    <3>3. m = Len(tframes) /\ n + m >= n + m
      BY <3>2 DEF m
    <3> QED  BY <2>3, <3>1, <3>2, <3>3, FramesAreWordsLeft
  <2>5. CASE IdleOpened
    <3> DEFINE k == n - 1
               e == Expect(k, tframes)
    <3>1. cont = Append(e, InSource(n))
      BY <2>5 DEF IdleOpened
    <3>2. e \in Seq(Contexts) /\ Len(e) = k + m /\ k \in Nat /\ InSource(n) \in Contexts
      BY <2>3, Expected, NewContext
    <3> HIDE DEF e
    <3>3. /\ Len(cont) = k + m + 1 /\ cont[k + m + 1] = InSource(n)
          /\ \A p \in 1 .. k + m : cont[p] = e[p]
      BY <2>3, <3>1, <3>2, AppendProperties
    <3>4. ASSUME NEW p \in 1 .. k + m + 1, p > k + m PROVE "word" \notin DOMAIN cont[p]
      <4>1. p = k + m + 1
        BY <2>3, <3>2, <3>4
      <4> QED  BY <2>3, <3>3, <4>1, Contexts2
    <3>5. k + m + 1 \in Nat /\ k + m + 1 >= k + m
      BY <2>3, <3>2
    <3> HIDE DEF n, m, k
    <3>6. m = Len(tframes)
      BY DEF m
    <3>7. \A p \in 1 .. k + m : cont[p] = Expect(k, tframes)[p]
      BY <3>3 DEF e
    <3> QED  BY <2>3, <3>2, <3>3, <3>4, <3>5, <3>6, <3>7, FramesAreWordsLeft
  <2> QED  BY <2>2, <2>4, <2>5
<1> QED  BY <1>1, OrderInvariance, PTL
=============================================================================
