-------------------------- MODULE ThreadedVMProofs --------------------------
(***************************************************************************)
(* Proofs about ThreadedVM, for every program, every input, every user and *)
(* every capacity of the two stacks.                                       *)
(***************************************************************************)
EXTENDS ThreadedVM, SequenceTheorems, TLAPS

-----------------------------------------------------------------------------
(* The inductive invariant.  It says of each stack which elements it may   *)
(* hold, and when the executor runs.                                       *)

\* Frames and activations stand at an operation of their word; an activation
\* inside a native call stands at the operation that made the call.
Kept    == {f \in Frames : f.ip \in DOMAIN Code[f.word]}
Live    == {x \in Activations : /\ x.ip \in DOMAIN Code[x.word]
                                /\ x.at = "native" => Op(x).op = "native"}
Calling == {x \in Live : x.at = "native"}

\* A source never claims more tokens than its text has, and a file source
\* reads a file.
Readable == {s \in Sources : /\ s.max <= Len(Text[s.text])
                             /\ s.kind = "file" => s.file \in Files}

\* The keyboard is the source at the bottom of the input stack.
Inputs == {ss \in Seq(Readable) : Len(ss) \in 1 .. SourceCap /\ ss[1].kind = "user"}

StackInv ==
  /\ execs \in Seq(Live)
  /\ tframes \in Seq(Kept) /\ Len(tframes) <= FrameCap
  /\ istack \in Inputs
  /\ cont \in Seq(Contexts)

ModeInv ==
  /\ pc \in {"main", "tokens", "interpreted", "drain", "drained", "debugger", "end"}
  /\ depth \in Nat
  /\ outer \in {"EXECUTE", "FAILED", "INNER_FAILED", "SHUTDOWN"}
  /\ interp \in {"INTERPRET", "COMPILE"}
  /\ cmds \in Seq(Commands)

\* Only the innermost activation runs, the others wait inside a native call;
\* and there are activations only while askf_exec waits for one.
CallInv ==
  execs # << >> => Front(execs) \in Seq(Calling) /\ pc \in {"interpreted", "drained"}

IInv == StackInv /\ ModeInv /\ CallInv /\ FailureStops

-----------------------------------------------------------------------------
(* Sequences used as stacks.                                               *)

\* Popping a stack and reading its top.
LEMMA Popped ==
  ASSUME NEW S, NEW s \in Seq(S), s # << >>
  PROVE  /\ Len(s) \in Nat \ {0}
         /\ Front(s) \in Seq(S) /\ Len(Front(s)) = Len(s) - 1
         /\ \A i \in 1 .. Len(s) - 1 : Front(s)[i] = s[i]
         /\ Last(s) \in S /\ Last(s) = s[Len(s)]
<1> DEFINE n == Len(s) - 1
<1>1. /\ n \in Nat /\ n = Len(s) - 1 /\ Len(s) = n + 1
      /\ \A i \in 1 .. Len(s) : s[i] \in S
  BY EmptySeq, ElementOfSeq
<1>2. Front(s) = SubSeq(s, 1, n)
  BY DEF Front
<1> HIDE DEF n
<1>3. \A i \in 1 .. n : s[i] \in S
  BY <1>1
<1>4. /\ SubSeq(s, 1, n) \in Seq(S)
      /\ Len(SubSeq(s, 1, n)) = n
      /\ \A i \in 1 .. n : SubSeq(s, 1, n)[i] = s[i]
  <2>1. SubSeq(s, 1, n) \in Seq(S)
    BY <1>1, <1>3
  <2>2. Len(SubSeq(s, 1, n)) = n
    BY <1>1, <1>3
  <2>3. \A i \in 1 .. n : SubSeq(s, 1, n)[i] = s[i]
    BY <1>1, <1>3
  <2> QED  BY <2>1, <2>2, <2>3
<1>5. Last(s) \in S /\ Last(s) = s[Len(s)]
  BY <1>1 DEF Last
<1> QED  BY <1>1, <1>2, <1>4, <1>5

\* Pushing on a stack.
LEMMA Pushed ==
  ASSUME NEW S, NEW s \in Seq(S), NEW e \in S
  PROVE  /\ Append(s, e) \in Seq(S) /\ Append(s, e) # << >>
         /\ Len(Append(s, e)) = Len(s) + 1
         /\ \A i \in 1 .. Len(s) : Append(s, e)[i] = s[i]
         /\ Last(Append(s, e)) = e
         /\ Front(Append(s, e)) = s
<1>1. /\ Append(s, e) \in Seq(S) /\ Append(s, e) # << >>
      /\ Len(Append(s, e)) = Len(s) + 1 /\ Len(s) \in Nat
      /\ \A i \in 1 .. Len(s) : Append(s, e)[i] = s[i]
      /\ Append(s, e)[Len(s) + 1] = e
  BY AppendProperties, LenProperties
<1> DEFINE t == Append(s, e)
<1>2. /\ t \in Seq(S) /\ t # << >> /\ Len(t) - 1 = Len(s)
      /\ \A i \in 1 .. Len(s) : t[i] = s[i]
  BY <1>1
<1> HIDE DEF t
<1>3. /\ Front(t) \in Seq(S) /\ Len(Front(t)) = Len(s)
      /\ \A i \in 1 .. Len(s) : Front(t)[i] = s[i]
  BY <1>2, Popped
<1>4. Front(Append(s, e)) = s
  BY <1>3, SeqEqual DEF t
<1> QED  BY <1>1, <1>4 DEF Last

\* Replacing the top of a stack.
LEMMA Replaced ==
  ASSUME NEW S, NEW s \in Seq(S), s # << >>, NEW e \in S
  PROVE  /\ SetTop(s, e) \in Seq(S) /\ SetTop(s, e) # << >>
         /\ Len(SetTop(s, e)) = Len(s)
         /\ Last(SetTop(s, e)) = e
         /\ Front(SetTop(s, e)) = Front(s)
<1>1. Front(s) \in Seq(S) /\ Len(Front(s)) = Len(s) - 1 /\ Len(s) \in Nat
  BY Popped
<1> QED  BY <1>1, Pushed DEF SetTop

\* A stack of elements of a smaller set.
LEMMA Widened ==
  ASSUME NEW S, NEW T, S \subseteq T, NEW s \in Seq(S)
  PROVE  s \in Seq(T)
BY SeqMonotonic

-----------------------------------------------------------------------------
(* What operations, acts and tokens carry.                                 *)

LEMMA OpFields ==
  ASSUME NEW o \in Ops
  PROVE  /\ o.op = "call" => o.word \in Words
         /\ o.op = "native" => o.act \in Acts
BY DEF Ops

LEMMA ActFields ==
  ASSUME NEW a \in Acts
  PROVE  /\ a.do = "execute" => a.word \in Words
         /\ a.do = "source" => a.text \in Texts
         /\ a.do = "include" => a.file \in Files
BY DEF Acts

LEMMA TokenFields ==
  ASSUME NEW t \in Tokens
  PROVE  /\ t.tok = "word" => t.word \in Words
         /\ t.tok = "native" => t.act \in Acts
BY DEF Tokens

\* Where a word's code may go on from one of its operations.
LEMMA CodeStep ==
  ASSUME NEW w \in Words, NEW i \in DOMAIN Code[w]
  PROVE  /\ i \in Nat /\ 1 \in DOMAIN Code[w]
         /\ Code[w][i] \in Ops
         /\ Code[w][i].op # "endword" => i + 1 \in DOMAIN Code[w]
         /\ Code[w][i].op \in {"branch", "0branch"} => Code[w][i].to \in DOMAIN Code[w]
<1>1. Code[w] \in Seq(Ops) /\ WellFormed(Code[w])
  BY CodeAssumption
<1>2. DOMAIN Code[w] = 1 .. Len(Code[w]) /\ Len(Code[w]) \in Nat
  BY <1>1, LenProperties
<1>3. Code[w][i] \in Ops
  BY <1>1, <1>2, ElementOfSeq
<1> QED  BY <1>1, <1>2, <1>3 DEF WellFormed

-----------------------------------------------------------------------------
(* Frames and activations.                                                 *)

LEMMA NewFrame ==
  ASSUME NEW l \in Words \cup {Foreign}, NEW w \in Words, NEW i \in DOMAIN Code[w]
  PROVE  Frame(l, w, i) \in Kept
BY CodeStep DEF Frame, Kept, Frames

\* A full frame stack drops the new frame and keeps the others.
LEMMA FramePushed ==
  ASSUME NEW fs \in Seq(Kept), Len(fs) <= FrameCap, NEW f \in Kept
  PROVE  /\ PushFrame(fs, f) \in Seq(Kept) /\ PushFrame(fs, f) # << >>
         /\ Len(PushFrame(fs, f)) <= FrameCap
         /\ \A i \in DOMAIN fs : i \in DOMAIN PushFrame(fs, f) /\ PushFrame(fs, f)[i] = fs[i]
<1>1. Len(fs) \in Nat /\ DOMAIN fs = 1 .. Len(fs)
  BY LenProperties
<1>2. CASE Len(fs) < FrameCap
  <2>1. /\ Append(fs, f) \in Seq(Kept) /\ Append(fs, f) # << >>
        /\ Len(Append(fs, f)) = Len(fs) + 1
        /\ \A i \in 1 .. Len(fs) : Append(fs, f)[i] = fs[i]
    BY Pushed
  <2>2. DOMAIN Append(fs, f) = 1 .. Len(Append(fs, f))
    BY <2>1, LenProperties
  <2> QED  BY <1>1, <1>2, <2>1, <2>2, CapAssumption DEF PushFrame
<1>3. CASE ~(Len(fs) < FrameCap)
  <2>1. fs # << >>
    BY <1>1, <1>3, CapAssumption, EmptySeq
  <2> QED  BY <1>1, <1>3, <2>1 DEF PushFrame
<1> QED  BY <1>2, <1>3

\* The state of a running activation.
LEMMA AtWork ==
  ASSUME IInv, Running, NEW x, x = Last(execs)
  PROVE  /\ execs # << >> /\ x \in Live /\ x.at = "run"
         /\ x.word \in Words /\ x.label \in Words \cup {Foreign}
         /\ x.ip \in DOMAIN Code[x.word] /\ x.ip \in Nat
         /\ Op(x) = Code[x.word][x.ip] /\ Op(x) \in Ops
         /\ Front(execs) \in Seq(Calling) /\ ~Failed /\ pc \in {"interpreted", "drained"}
<1>1. execs # << >> /\ x \in Live
  BY Popped DEF IInv, StackInv, Running
<1>2. x \in Activations /\ x.ip \in DOMAIN Code[x.word]
  BY <1>1 DEF Live
<1>3. x.word \in Words /\ x.label \in Words \cup {Foreign}
  BY <1>2 DEF Activations
<1> QED  BY <1>1, <1>2, <1>3, CodeStep DEF IInv, CallInv, FailureStops, Running, Op

\* The innermost activation goes on as y.
LEMMA GoesOn ==
  ASSUME IInv, execs # << >>, NEW y \in Live, execs' = Append(Front(execs), y)
  PROVE  /\ execs' \in Seq(Live) /\ execs' # << >>
         /\ Front(execs') \in Seq(Calling) /\ Last(execs') = y
<1>1. Front(execs) \in Seq(Live)
  BY Popped DEF IInv, StackInv
<1>2. Front(execs) \in Seq(Calling)
  BY DEF IInv, CallInv
<1> QED  BY <1>1, <1>2, Pushed

\* The innermost activation returns: its caller is inside a native call.
LEMMA Returns ==
  ASSUME IInv, execs # << >>, Return
  PROVE  /\ execs' \in Seq(Live) /\ ~(Running')
         /\ execs' # << >> => Front(execs') \in Seq(Calling)
<1>1. execs' = Front(execs) /\ Front(execs) \in Seq(Live) /\ Front(execs) \in Seq(Calling)
  BY Popped DEF IInv, StackInv, CallInv, Return
<1>2. ASSUME execs' # << >>
      PROVE  Front(execs') \in Seq(Calling) /\ Last(execs') \in Calling
  BY <1>1, <1>2, Popped
<1> QED  BY <1>1, <1>2 DEF Running, Calling

\* An activation is entered from the calls es.
LEMMA Enters ==
  ASSUME IInv, NEW es \in Seq(Calling),
         NEW fs \in Seq(Kept), fs # << >>, Len(fs) <= FrameCap, Enter(es, fs)
  PROVE  /\ execs' \in Seq(Live) /\ execs' # << >> /\ Front(execs') = es
         /\ tframes' \in Seq(Kept) /\ Len(tframes') <= FrameCap
<1>1. /\ Last(fs) \in Kept /\ Front(fs) \in Seq(Kept)
      /\ Len(Front(fs)) = Len(fs) - 1 /\ Len(fs) \in Nat
  BY Popped
<1>2. Activation(Last(fs), "run") \in Live
  BY <1>1 DEF Kept, Frames, Live, Activations, Activation, IInv, StackInv
<1>3. es \in Seq(Live)
  BY Widened DEF Calling
<1>4. FrameCap \in Nat
  BY CapAssumption
<1> QED  BY <1>1, <1>2, <1>3, <1>4, Pushed DEF Enter

-----------------------------------------------------------------------------
(* The history keeps its type.                                             *)

LEMMA NewContext ==
  /\ \A w \in Words, i \in Nat : InWord(w, i) \in Contexts
  /\ \A d \in Nat : InSource(d) \in Contexts
BY DEF InWord, InSource, Contexts

LEMMA Moved ==
  ASSUME NEW c \in Seq(Contexts), NEW x, NEW new \in Seq(Contexts)
  PROVE  Move(c, x, new) \in Seq(Contexts)
<1>1. CASE Innermost(c, x)
  <2>1. Front(c) \in Seq(Contexts)
    BY <1>1, Popped DEF Innermost
  <2> QED  BY <1>1, <2>1, ConcatProperties DEF Move
<1>2. CASE ~Innermost(c, x)
  BY <1>2, EmptySeq DEF Move
<1> QED  BY <1>1, <1>2

LEMMA Opened ==
  ASSUME NEW c \in Seq(Contexts), NEW x \in Contexts
  PROVE  Open(c, x) \in Seq(Contexts)
BY AppendProperties DEF Open

-----------------------------------------------------------------------------
(* The input stack.                                                        *)

LEMMA NewSource ==
  ASSUME NEW k \in {"user", "string", "file"}, NEW t \in Texts,
         NEW f \in Files \cup {NoFile}, k = "file" => f \in Files
  PROVE  Source(k, t, f) \in Readable
<1>1. Len(Text[t]) \in Nat
  BY InputAssumption, LenProperties
<1> QED  BY <1>1 DEF Source, Readable, Sources

LEMMA TopSource ==
  ASSUME NEW ss \in Inputs
  PROVE  /\ ss \in Seq(Readable) /\ ss # << >> /\ Len(ss) \in Nat
         /\ Top(ss) \in Readable
         /\ Top(ss).in \in Nat /\ Top(ss).max \in Nat /\ Top(ss).line \in Nat
         /\ Top(ss).text \in Texts
         /\ Text[Top(ss).text] \in Seq(Tokens)
         /\ Top(ss).max <= Len(Text[Top(ss).text])
         /\ Top(ss).kind = "file" => Top(ss).file \in Files
<1>1. ss \in Seq(Readable) /\ ss # << >> /\ Len(ss) \in Nat
  BY EmptySeq DEF Inputs
<1>2. Top(ss) \in Readable
  BY <1>1, Popped DEF Top
<1> QED  BY <1>1, <1>2, InputAssumption DEF Readable, Sources

LEMMA SourceReplaced ==
  ASSUME NEW ss \in Inputs, NEW s \in Readable, s.kind = Top(ss).kind
  PROVE  SetTop(ss, s) \in Inputs
<1>1. /\ Front(ss) \in Seq(Readable) /\ Len(Front(ss)) = Len(ss) - 1
      /\ \A i \in 1 .. Len(ss) - 1 : Front(ss)[i] = ss[i]
      /\ ss # << >> /\ Len(ss) \in Nat
  BY TopSource, Popped
<1>2. /\ SetTop(ss, s) \in Seq(Readable) /\ Len(SetTop(ss, s)) = Len(ss)
      /\ \A i \in 1 .. Len(ss) - 1 : SetTop(ss, s)[i] = ss[i]
      /\ SetTop(ss, s)[Len(ss)] = s
  BY <1>1, AppendProperties DEF SetTop
<1>3. Top(ss) = ss[Len(ss)]
  BY DEF Top, Last
<1> QED  BY <1>1, <1>2, <1>3 DEF Inputs

LEMMA SourcePushed ==
  ASSUME NEW ss \in Inputs, NEW s \in Readable
  PROVE  /\ PushSource(ss, s) \in Inputs
         /\ Len(ss) < SourceCap => Append(ss, s) \in Inputs
<1>1. /\ Append(ss, s) \in Seq(Readable) /\ Len(Append(ss, s)) = Len(ss) + 1
      /\ Append(ss, s)[1] = ss[1]
      /\ Len(ss) \in Nat
  BY TopSource, AppendProperties DEF Inputs
<1>2. ASSUME Len(ss) < SourceCap
      PROVE  Append(ss, s) \in Inputs
  <2>1. Len(Append(ss, s)) \in 1 .. SourceCap
    BY <1>1, <1>2, CapAssumption
  <2>2. ss[1].kind = "user"
    BY DEF Inputs
  <2> QED  BY <1>1, <2>1, <2>2 DEF Inputs
<1> QED  BY <1>2 DEF PushSource

\* A string or a file pops itself; the keyboard below it stays.
LEMMA SourcePopped ==
  ASSUME NEW ss \in Inputs, Top(ss).kind # "user"
  PROVE  Front(ss) \in Inputs
<1>1. /\ Front(ss) \in Seq(Readable) /\ Len(Front(ss)) = Len(ss) - 1
      /\ \A i \in 1 .. Len(ss) - 1 : Front(ss)[i] = ss[i]
      /\ Top(ss) = ss[Len(ss)] /\ Len(ss) \in Nat
  BY TopSource, Popped DEF Top
<1>2. Len(ss) # 1
  BY <1>1 DEF Inputs
<1> QED  BY <1>1, <1>2, CapAssumption DEF Inputs

LEMMA KeyboardLeft ==
  ASSUME NEW ss \in Inputs
  PROVE  Keyboard(ss) \in Inputs
<1>1. ss[1] \in Readable /\ ss[1].kind = "user"
  BY TopSource, ElementOfSeq DEF Inputs
<1> DEFINE s == [ss[1] EXCEPT !.max = 0]
<1>2. Len(Text[ss[1].text]) \in Nat
  BY <1>1, InputAssumption, LenProperties DEF Readable, Sources
<1>3. s \in Readable /\ s.kind = "user"
  BY <1>1, <1>2 DEF Readable, Sources
<1> HIDE DEF s
<1>4. << s >> \in Seq(Readable) /\ Len(<< s >>) = 1 /\ << s >>[1] = s
  BY <1>3
<1>5. << s >> \in Inputs
  BY <1>3, <1>4, CapAssumption DEF Inputs
<1> QED  BY <1>5 DEF Keyboard, s

\* Taking a token.
LEMMA TokenTaken ==
  ASSUME IInv, HasToken
  PROVE  NextToken \in Tokens /\ Fetched \in Inputs
<1>1. istack \in Inputs
  BY DEF IInv, StackInv
<1> DEFINE s == Top(istack)
<1>2. /\ s \in Readable /\ s.in \in Nat /\ s.max \in Nat /\ s.in < s.max
      /\ Text[s.text] \in Seq(Tokens) /\ s.max <= Len(Text[s.text])
  BY <1>1, TopSource DEF HasToken
<1>3. s.in + 1 \in 1 .. Len(Text[s.text])
  BY <1>2, LenProperties
<1>4. NextToken \in Tokens
  BY <1>2, <1>3, ElementOfSeq DEF NextToken
<1>5. [s EXCEPT !.in = @ + 1] \in Readable /\ [s EXCEPT !.in = @ + 1].kind = s.kind
  BY <1>2 DEF Readable, Sources
<1> QED  BY <1>1, <1>4, <1>5, SourceReplaced DEF Fetched

-----------------------------------------------------------------------------
(* Native words.                                                           *)

\* When all activations are inside native calls, none runs.
LEMMA AllCalling ==
  ASSUME NEW es \in Seq(Calling)
  PROVE  /\ es \in Seq(Live)
         /\ es # << >> => Front(es) \in Seq(Calling) /\ Last(es).at = "native"
<1>1. es \in Seq(Live)
  BY Widened DEF Calling
<1>2. ASSUME es # << >>
      PROVE  Front(es) \in Seq(Calling) /\ Last(es).at = "native"
  <2>1. Front(es) \in Seq(Calling) /\ Last(es) \in Calling
    BY <1>2, Popped
  <2> QED  BY <2>1 DEF Calling
<1> QED  BY <1>1, <1>2

\* What a native word leaves: the callers es as they were or, behind an
\* EXECUTE that did not fail, one activation on top of them.
LEMMA NativeStep ==
  ASSUME IInv, NEW a \in Acts, NEW c \in Seq(Contexts), NEW es \in Seq(Calling),
         NEW ss \in Inputs, Native(a, c, es, ss)
  PROVE  /\ execs' \in Seq(Live)
         /\ \/ execs' = es
            \/ execs' # << >> /\ Front(execs') = es /\ outer' = outer
         /\ tframes' \in Seq(Kept) /\ Len(tframes') <= FrameCap
         /\ istack' \in Inputs
         /\ cont' \in Seq(Contexts)
         /\ outer' \in {"EXECUTE", "FAILED", "INNER_FAILED", "SHUTDOWN"}
         /\ interp' \in {"INTERPRET", "COMPILE"}
<1>0. /\ es \in Seq(Live)
      /\ tframes \in Seq(Kept) /\ Len(tframes) <= FrameCap
      /\ outer \in {"EXECUTE", "FAILED", "INNER_FAILED", "SHUTDOWN"}
      /\ interp \in {"INTERPRET", "COMPILE"}
      /\ ss # << >> /\ Len(ss) \in Nat
  BY AllCalling, TopSource DEF IInv, StackInv, ModeInv
<1>1. CASE NativeFails(a, c, es, ss)
  BY <1>0, <1>1 DEF NativeFails
<1>2. CASE NativeWorks(a, c, es, ss)
  BY <1>0, <1>2 DEF NativeWorks
<1>3. CASE NativeSetsState(a, c, es, ss)
  BY <1>0, <1>3 DEF NativeSetsState
<1>4. CASE NativeExecutes(a, c, es, ss)
  <2>1. a.word \in Words /\ 1 \in DOMAIN Code[a.word] /\ InWord(a.word, 1) \in Contexts
    <3>1. a.word \in Words
      BY <1>4, ActFields DEF NativeExecutes
    <3>2. Len(Code[a.word]) \in Nat \ {0} /\ DOMAIN Code[a.word] = 1 .. Len(Code[a.word])
      BY <3>1, CodeAssumption, LenProperties DEF WellFormed
    <3> QED  BY <3>1, <3>2, NewContext
  <2> DEFINE fs == PushFrame(tframes, Frame(a.word, a.word, 1))
  <2>2. fs \in Seq(Kept) /\ fs # << >> /\ Len(fs) <= FrameCap
    BY <1>0, <2>1, NewFrame, FramePushed
  <2>3. /\ Enter(es, fs) /\ cont' = Open(c, InWord(a.word, 1))
        /\ istack' = ss /\ interp' = interp /\ outer' = outer
    BY <1>4 DEF NativeExecutes
  <2> HIDE DEF fs
  <2>4. /\ execs' \in Seq(Live) /\ execs' # << >> /\ Front(execs') = es
        /\ tframes' \in Seq(Kept) /\ Len(tframes') <= FrameCap
    BY <2>2, <2>3, Enters
  <2>5. cont' \in Seq(Contexts)
    BY <2>1, <2>3, Opened
  <2> QED  BY <1>0, <2>3, <2>4, <2>5
<1>5. CASE NativeOpensText(a, c, es, ss)
  <2>1. Source("string", a.text, NoFile) \in Readable
    BY <1>5, ActFields, NewSource DEF NativeOpensText
  <2>2. istack' \in Inputs
    BY <1>5, <2>1, SourcePushed DEF NativeOpensText
  <2>3. cont' \in Seq(Contexts)
    BY <1>0, <1>5, NewContext, Opened DEF NativeOpensText
  <2> QED  BY <1>0, <1>5, <2>2, <2>3 DEF NativeOpensText
<1>6. CASE NativeOpensFile(a, c, es, ss)
  <2>1. cont' \in Seq(Contexts)
    <3>1. cont' = Open(c, InSource(Len(ss) + 1))
      BY <1>6 DEF NativeOpensFile
    <3> QED  BY <1>0, <3>1, NewContext, Opened
  <2>2. istack' \in Inputs
    <3>1. CASE Len(ss) < SourceCap
      <4>1. a.file \in Files
        BY <1>6, ActFields DEF NativeOpensFile
      <4>2. FirstLine(a.file) \in Texts
        BY <4>1, InputAssumption, EmptySeq, ElementOfSeq DEF FirstLine
      <4> QED  BY <1>6, <3>1, <4>1, <4>2, NewSource, SourcePushed DEF NativeOpensFile
    <3>2. CASE ~(Len(ss) < SourceCap)
      <4>1. PICK m \in 0 .. Len(Text[Top(ss).text]) : istack' = SetTop(ss, [Top(ss) EXCEPT !.max = m])
        BY <1>6, <3>2 DEF NativeOpensFile
      <4>2. Len(Text[Top(ss).text]) \in Nat
        BY TopSource, LenProperties
      <4>3. /\ [Top(ss) EXCEPT !.max = m] \in Readable
            /\ [Top(ss) EXCEPT !.max = m].kind = Top(ss).kind
        <5> DEFINE s == Top(ss)
        <5>1. s \in Readable /\ m \in Nat /\ m <= Len(Text[s.text])
          BY <4>2, TopSource
        <5> HIDE DEF s
        <5>2. /\ [s EXCEPT !.max = m] \in Readable
              /\ [s EXCEPT !.max = m].kind = s.kind
          BY <5>1 DEF Readable, Sources
        <5> QED  BY <5>2 DEF s
      <4> QED  BY <4>1, <4>3, SourceReplaced
    <3> QED  BY <3>1, <3>2
  <2> QED  BY <1>0, <1>6, <2>1, <2>2 DEF NativeOpensFile
<1>7. CASE NativeAborts(a, c, es, ss)
  <2>1. << InSource(1) >> \in Seq(Contexts)
    BY NewContext
  <2>2. << >> \in Seq(Kept) /\ Len(<< >>) = 0
    BY EmptySeq
  <2> QED  BY <1>0, <1>7, <2>1, <2>2, KeyboardLeft, CapAssumption DEF NativeAborts
<1>8. CASE NativeBye(a, c, es, ss)
  BY <1>0, <1>8 DEF NativeBye
<1> QED  BY <1>1, <1>2, <1>3, <1>4, <1>5, <1>6, <1>7, <1>8 DEF Native

-----------------------------------------------------------------------------
(* The executor keeps the invariant.                                       *)

\* The innermost activation may go on at any operation of its word.
LEMMA MovesOn ==
  ASSUME IInv, Running, NEW x, x = Last(execs), NEW i \in DOMAIN Code[x.word]
  PROVE  /\ [x EXCEPT !.ip = i, !.at = "run"] \in Live
         /\ MovedTo(x, i) \in Seq(Contexts)
<1>1. /\ x \in Live /\ x.word \in Words /\ x.ip \in Nat /\ i \in Nat
  BY AtWork, CodeStep
<1>2. [x EXCEPT !.ip = i, !.at = "run"] \in Live
  BY <1>1 DEF Live, Activations
<1>3. cont \in Seq(Contexts) /\ << InWord(x.word, i) >> \in Seq(Contexts)
  BY <1>1, NewContext DEF IInv, StackInv
<1> QED  BY <1>2, <1>3, Moved DEF MovedTo

\* The step of an operation after which the activation goes on at i.
LEMMA GotoStep ==
  ASSUME IInv, Running, NEW x, x = Last(execs), NEW i \in DOMAIN Code[x.word],
         Goto(i), cont' = MovedTo(x, i),
         UNCHANGED <<pc, depth, tframes, istack, outer, interp, cmds>>
  PROVE  IInv'
<1>1. [x EXCEPT !.ip = i, !.at = "run"] \in Live /\ cont' \in Seq(Contexts)
  BY MovesOn
<1>2. execs # << >> /\ ~Failed /\ pc \in {"interpreted", "drained"}
  BY AtWork
<1>3. execs' \in Seq(Live) /\ execs' # << >> /\ Front(execs') \in Seq(Calling)
  BY <1>1, <1>2, GoesOn DEF Goto
<1>4. StackInv'
  BY <1>1, <1>3 DEF IInv, StackInv
<1>5. ModeInv' /\ CallInv' /\ FailureStops'
  BY <1>2, <1>3 DEF IInv, ModeInv, CallInv, FailureStops, Failed
<1> QED  BY <1>4, <1>5 DEF IInv

\* The step of an operation that returns, with frames fs left.
LEMMA ReturnStep ==
  ASSUME IInv, execs # << >>, pc \in {"interpreted", "drained"}, Return,
         tframes' \in Seq(Kept), Len(tframes') <= FrameCap, cont' \in Seq(Contexts),
         outer' \in {"EXECUTE", "FAILED", "INNER_FAILED", "SHUTDOWN"},
         UNCHANGED <<pc, depth, istack, interp, cmds>>
  PROVE  IInv'
<1>1. /\ execs' \in Seq(Live) /\ ~(Running')
      /\ execs' # << >> => Front(execs') \in Seq(Calling)
  BY Returns
<1>2. StackInv'
  BY <1>1 DEF IInv, StackInv
<1>3. ModeInv' /\ CallInv' /\ FailureStops'
  BY <1>1 DEF IInv, ModeInv, CallInv, FailureStops
<1> QED  BY <1>2, <1>3 DEF IInv

LEMMA ExecutorStep ==
  ASSUME IInv, Executor
  PROVE  IInv'
<1> DEFINE x == Last(execs)
<1>0. /\ tframes \in Seq(Kept) /\ Len(tframes) <= FrameCap
      /\ cont \in Seq(Contexts) /\ istack \in Inputs /\ Len(istack) \in Nat
      /\ outer \in {"EXECUTE", "FAILED", "INNER_FAILED", "SHUTDOWN"}
  BY TopSource DEF IInv, StackInv, ModeInv
<1>r. ASSUME Running
      PROVE  /\ execs # << >> /\ x \in Live
             /\ x.word \in Words /\ x.label \in Words \cup {Foreign}
             /\ x.ip \in DOMAIN Code[x.word] /\ x.ip \in Nat
             /\ Op(x) = Code[x.word][x.ip] /\ Op(x) \in Ops
             /\ Front(execs) \in Seq(Calling) /\ ~Failed /\ pc \in {"interpreted", "drained"}
  BY <1>r, AtWork
<1>n. ASSUME Running, Op(x).op # "endword"
      PROVE  /\ x.ip + 1 \in DOMAIN Code[x.word]
             /\ MovedTo(x, x.ip + 1) \in Seq(Contexts)
             /\ \A l \in Words \cup {Foreign} : Frame(l, x.word, x.ip + 1) \in Kept
             /\ Resume(x) \in Kept
  <2>1. x.ip + 1 \in DOMAIN Code[x.word]
    BY <1>r, <1>n, CodeStep
  <2> QED  BY <1>r, <1>n, <2>1, MovesOn, NewFrame DEF Resume
<1>1. CASE OpPlain
  <2>1. Running /\ Op(x).op # "endword"
    BY <1>1 DEF OpPlain, AtOp
  <2>2. /\ Goto(x.ip + 1) /\ cont' = MovedTo(x, x.ip + 1)
        /\ UNCHANGED <<pc, depth, tframes, istack, outer, interp, cmds>>
    BY <1>1 DEF OpPlain
  <2> QED  BY <1>n, <2>1, <2>2, GotoStep
<1>2. CASE OpThreadedWord
  <2> DEFINE w == Op(x).word
             y == [x EXCEPT !.label = w, !.word = w, !.ip = 1]
  <2>1. Running /\ Op(x).op = "call"
    BY <1>2 DEF OpThreadedWord, AtOp
  <2>2. /\ tframes' = PushFrame(tframes, Resume(x))
        /\ execs' = Append(Front(execs), y)
        /\ cont' = Move(cont, InWord(x.word, x.ip), << InWord(x.word, x.ip + 1), InWord(w, 1) >>)
        /\ UNCHANGED <<pc, depth, istack, outer, interp, cmds>>
    BY <1>2 DEF OpThreadedWord
  <2>3. w \in Words /\ 1 \in DOMAIN Code[w]
    <3>1. w \in Words
      BY <1>r, <2>1, OpFields
    <3>2. Len(Code[w]) \in Nat \ {0} /\ DOMAIN Code[w] = 1 .. Len(Code[w])
      BY <3>1, CodeAssumption, LenProperties DEF WellFormed
    <3> QED  BY <3>1, <3>2
  <2>4. y \in Live
    BY <1>r, <2>1, <2>3, AtWork DEF Live, Activations
  <2>5. execs' \in Seq(Live) /\ execs' # << >> /\ Front(execs') \in Seq(Calling)
    BY <1>r, <2>1, <2>2, <2>4, GoesOn
  <2>6. tframes' \in Seq(Kept) /\ Len(tframes') <= FrameCap
    BY <1>0, <1>r, <1>n, <2>1, <2>2, FramePushed
  <2>7. cont' \in Seq(Contexts)
    <3>1. InWord(x.word, x.ip + 1) \in Contexts /\ InWord(w, 1) \in Contexts
      BY <1>r, <2>1, <2>3, NewContext
    <3>2. << InWord(x.word, x.ip + 1), InWord(w, 1) >> \in Seq(Contexts)
      BY <3>1
    <3> QED  BY <1>0, <2>2, <3>2, Moved
  <2>8. StackInv'
    BY <1>0, <2>2, <2>5, <2>6, <2>7 DEF StackInv
  <2>9. ModeInv' /\ CallInv' /\ FailureStops'
    BY <1>r, <2>1, <2>2, <2>5 DEF IInv, ModeInv, CallInv, FailureStops, Failed
  <2> QED  BY <2>8, <2>9 DEF IInv
<1>3. CASE OpBranch
  <2>1. Running /\ Op(x).op = "branch"
    BY <1>3 DEF OpBranch, AtOp
  <2>2. Op(x).to \in DOMAIN Code[x.word]
    BY <1>r, <2>1, CodeStep
  <2>3. /\ Goto(Op(x).to) /\ cont' = MovedTo(x, Op(x).to)
        /\ UNCHANGED <<pc, depth, tframes, istack, outer, interp, cmds>>
    BY <1>3 DEF OpBranch
  <2> QED  BY <2>1, <2>2, <2>3, GotoStep
<1>4. CASE Op0Branch
  <2>1. Running /\ Op(x).op = "0branch"
    BY <1>4 DEF Op0Branch, AtOp
  <2>2. Op(x).to \in DOMAIN Code[x.word]
    BY <1>r, <2>1, CodeStep
  <2>3. UNCHANGED <<pc, depth, tframes, istack, interp, cmds>>
    BY <1>4 DEF Op0Branch
  <2>4. CASE Goto(Op(x).to) /\ cont' = MovedTo(x, Op(x).to) /\ UNCHANGED outer
    BY <2>1, <2>2, <2>3, <2>4, GotoStep
  <2>5. CASE Goto(x.ip + 1) /\ cont' = MovedTo(x, x.ip + 1) /\ UNCHANGED outer
    BY <1>n, <2>1, <2>3, <2>5, GotoStep
  <2>6. CASE Return /\ cont' = MovedTo(x, x.ip + 1) /\ outer' = "INNER_FAILED"
    BY <1>0, <1>r, <1>n, <2>1, <2>3, <2>6, ReturnStep
  <2> QED  BY <1>4, <2>4, <2>5, <2>6 DEF Op0Branch
<1>5. CASE OpNative
  <2> DEFINE y  == [x EXCEPT !.at = "native"]
             es == Append(Front(execs), y)
             c  == MovedTo(x, x.ip + 1)
  <2>1. Running /\ Op(x).op = "native"
    BY <1>5 DEF OpNative, AtOp
  <2>2. Native(Op(x).act, c, es, istack) /\ UNCHANGED <<pc, depth, cmds>>
    BY <1>5 DEF OpNative
  <2>3. Op(x).act \in Acts /\ c \in Seq(Contexts)
    BY <1>r, <1>n, <2>1, OpFields
  <2>4. y \in Calling
    <3>1. x \in Activations /\ Op(y) = Op(x)
      BY <1>r, <2>1 DEF Live, Op, Activations
    <3> QED  BY <1>r, <2>1, <3>1 DEF Calling, Live, Activations
  <2>5. es \in Seq(Calling)
    BY <1>r, <2>1, <2>4, Pushed
  <2> HIDE DEF c, es
  <2>6. /\ execs' \in Seq(Live)
        /\ \/ execs' = es
           \/ execs' # << >> /\ Front(execs') = es /\ outer' = outer
        /\ tframes' \in Seq(Kept) /\ Len(tframes') <= FrameCap
        /\ istack' \in Inputs
        /\ cont' \in Seq(Contexts)
        /\ outer' \in {"EXECUTE", "FAILED", "INNER_FAILED", "SHUTDOWN"}
        /\ interp' \in {"INTERPRET", "COMPILE"}
    BY <1>0, <2>2, <2>3, <2>5, NativeStep
  <2>7. execs' # << >> => Front(execs') \in Seq(Calling)
    BY <2>5, <2>6, AllCalling
  <2>8. Failed' => ~(Running')
    <3>1. ~Failed
      BY <1>r, <2>1
    <3>2. CASE execs' = es
      BY <2>5, <3>2, AllCalling DEF Running
    <3>3. CASE outer' = outer
      BY <3>1, <3>3 DEF Failed
    <3> QED  BY <2>6, <3>2, <3>3
  <2>9. StackInv'
    BY <2>6 DEF StackInv
  <2>10. ModeInv' /\ CallInv' /\ FailureStops'
    BY <1>r, <2>1, <2>2, <2>6, <2>7, <2>8 DEF IInv, ModeInv, CallInv, FailureStops
  <2> QED  BY <2>9, <2>10 DEF IInv
<1>6. CASE AfterNative
  <2> DEFINE f == Resume(x)
             y == [x EXCEPT !.ip = x.ip + 1, !.at = "run"]
  <2>1. /\ execs # << >> /\ x.at = "native"
        /\ UNCHANGED <<pc, depth, istack, outer, interp, cmds, cont>>
    BY <1>6 DEF AfterNative
  <2>2. /\ x \in Live /\ x.word \in Words /\ x.label \in Words \cup {Foreign}
        /\ x.ip \in DOMAIN Code[x.word]
        /\ x.ip + 1 \in DOMAIN Code[x.word] /\ x.ip + 1 \in Nat
    <3>1. x \in Live
      BY <2>1, Popped DEF IInv, StackInv
    <3>2. /\ x.word \in Words /\ x.label \in Words \cup {Foreign}
          /\ x.ip \in DOMAIN Code[x.word] /\ Code[x.word][x.ip].op = "native"
      BY <2>1, <3>1 DEF Live, Activations, Op
    <3> QED  BY <3>1, <3>2, CodeStep
  <2>3. pc \in {"interpreted", "drained"} /\ Front(execs) \in Seq(Calling)
    BY <2>1 DEF IInv, CallInv
  <2>4. CASE Interrupted(x)
    <3>1. tframes' = PushFrame(tframes, f) /\ Return
      BY <1>6, <2>4 DEF AfterNative
    <3>2. f \in Kept
      BY <2>2, NewFrame DEF Resume
    <3>3. tframes' \in Seq(Kept) /\ Len(tframes') <= FrameCap
      BY <1>0, <3>1, <3>2, FramePushed
    <3> QED  BY <1>0, <2>1, <2>3, <3>1, <3>3, ReturnStep
  <2>5. CASE ~Interrupted(x)
    <3>1. execs' = Append(Front(execs), y) /\ UNCHANGED tframes
      BY <1>6, <2>5 DEF AfterNative, Goto
    <3>2. y \in Live
      BY <2>2 DEF Live, Activations
    <3>3. execs' \in Seq(Live) /\ execs' # << >> /\ Front(execs') \in Seq(Calling)
      BY <2>1, <3>1, <3>2, GoesOn
    <3>4. StackInv'
      BY <1>0, <2>1, <3>1, <3>3 DEF StackInv
    <3>5. ModeInv' /\ CallInv' /\ FailureStops'
      BY <2>1, <2>3, <2>5, <3>3 DEF Interrupted, IInv, ModeInv, CallInv, FailureStops, Failed
    <3> QED  BY <3>4, <3>5 DEF IInv
  <2> QED  BY <2>4, <2>5
<1>7. CASE OpForeign
  <2>1. Running /\ Op(x).op = "foreign"
    BY <1>7 DEF OpForeign, AtOp
  <2>2. /\ cont' = MovedTo(x, x.ip + 1)
        /\ UNCHANGED <<pc, depth, istack, interp, cmds>>
    BY <1>7 DEF OpForeign
  <2>3. CASE Goto(x.ip + 1) /\ UNCHANGED <<outer, tframes>>
    BY <1>n, <2>1, <2>2, <2>3, GotoStep
  <2>4. CASE /\ outer' = "INNER_FAILED" /\ Return
             /\ tframes' = PushFrame(tframes, Frame(Foreign, x.word, x.ip + 1))
    <3>1. tframes' \in Seq(Kept) /\ Len(tframes') <= FrameCap
      BY <1>0, <1>n, <2>1, <2>4, FramePushed
    <3> QED  BY <1>r, <1>n, <2>1, <2>2, <2>4, <3>1, ReturnStep
  <2> QED  BY <1>7, <2>3, <2>4 DEF OpForeign
<1>8. CASE OpDispatchError
  <2>1. Running /\ Op(x).op # "endword"
    BY <1>8 DEF OpDispatchError, AtOp
  <2>2. /\ tframes' = PushFrame(tframes, Resume(x))
        /\ cont' = MovedTo(x, x.ip + 1) /\ outer' = "INNER_FAILED" /\ Return
        /\ UNCHANGED <<pc, depth, istack, interp, cmds>>
    BY <1>8 DEF OpDispatchError
  <2>3. tframes' \in Seq(Kept) /\ Len(tframes') <= FrameCap
    BY <1>0, <1>r, <1>n, <2>1, <2>2, FramePushed
  <2> QED  BY <1>r, <1>n, <2>1, <2>2, <2>3, ReturnStep
<1>9. CASE OpEndWord
  <2>1. Running
    BY <1>9 DEF OpEndWord, AtOp
  <2>2. /\ cont' = Move(cont, InWord(x.word, x.ip), << >>)
        /\ UNCHANGED <<pc, depth, istack, outer, interp, cmds>>
    BY <1>9 DEF OpEndWord
  <2>3. cont' \in Seq(Contexts)
    BY <1>0, <2>2, Moved, EmptySeq
  <2>4. CASE Failed \/ tframes = << >>
    <3>1. Return /\ UNCHANGED tframes
      BY <1>9, <2>4 DEF OpEndWord
    <3> QED  BY <1>0, <1>r, <2>1, <2>2, <2>3, <3>1, ReturnStep
  <2>5. CASE ~(Failed \/ tframes = << >>)
    <3> DEFINE f == Last(tframes)
               y == [x EXCEPT !.label = f.label, !.word = f.word, !.ip = f.ip]
    <3>1. execs' = Append(Front(execs), y) /\ tframes' = Front(tframes)
      BY <1>9, <2>5 DEF OpEndWord
    <3>2. /\ f \in Kept /\ Front(tframes) \in Seq(Kept)
          /\ Len(Front(tframes)) = Len(tframes) - 1 /\ Len(tframes) \in Nat
      BY <1>0, <2>5, Popped
    <3>3. y \in Live
      BY <1>r, <2>1, <3>2, AtWork DEF Kept, Frames, Live, Activations
    <3>4. execs' \in Seq(Live) /\ execs' # << >> /\ Front(execs') \in Seq(Calling)
      BY <1>r, <2>1, <3>1, <3>3, GoesOn
    <3>5. StackInv'
      BY <1>0, <2>2, <2>3, <3>1, <3>2, <3>4, CapAssumption DEF StackInv
    <3>6. ModeInv' /\ CallInv' /\ FailureStops'
      BY <1>r, <2>1, <2>2, <3>4 DEF IInv, ModeInv, CallInv, FailureStops, Failed
    <3> QED  BY <3>5, <3>6 DEF IInv
  <2> QED  BY <2>4, <2>5
<1> QED  BY <1>1, <1>2, <1>3, <1>4, <1>5, <1>6, <1>7, <1>8, <1>9 DEF Executor

-----------------------------------------------------------------------------
(* The outer interpreter, the main loop and the debugger keep it.          *)

LEMMA HistoryClosed ==
  ASSUME IInv
  PROVE  AtSource \in Seq(Contexts) /\ Closed \in Seq(Contexts)
<1>1. cont \in Seq(Contexts) /\ Here \in Contexts
  BY TopSource, NewContext DEF IInv, StackInv, Here
<1>2. << Here >> \in Seq(Contexts)
  BY <1>1
<1>3. Innermost(cont, Here) => Front(cont) \in Seq(Contexts)
  BY <1>1, Popped DEF Innermost
<1> QED  BY <1>1, <1>2, <1>3, Moved DEF AtSource, Closed

\* A step outside the executor and behind no native word.
LEMMA QuietStep ==
  ASSUME IInv, execs = << >>, execs' = << >>,
         tframes' \in Seq(Kept), Len(tframes') <= FrameCap,
         istack' \in Inputs, cont' \in Seq(Contexts), depth' \in Nat,
         pc' \in {"main", "tokens", "interpreted", "drain", "drained", "debugger", "end"},
         outer' \in {"EXECUTE", "FAILED", "INNER_FAILED", "SHUTDOWN"},
         interp' \in {"INTERPRET", "COMPILE"}, cmds' \in Seq(Commands),
         Failed' => pc' \in {"interpreted", "drained", "main", "debugger"}
  PROVE  IInv'
<1>1. execs' \in Seq(Live)
  BY EmptySeq
<1>2. StackInv' /\ ModeInv' /\ CallInv' /\ FailureStops'
  BY <1>1 DEF StackInv, ModeInv, CallInv, FailureStops, Running
<1> QED  BY <1>2 DEF IInv

\* An activation entered by askf_exec itself.
LEMMA EnterStep ==
  ASSUME IInv, execs = << >>, ~Failed, NEW fs \in Seq(Kept), fs # << >>,
         Len(fs) <= FrameCap, Enter(execs, fs), pc' \in {"interpreted", "drained"},
         istack' \in Inputs, cont' \in Seq(Contexts), depth' \in Nat,
         UNCHANGED <<outer, interp, cmds>>
  PROVE  IInv'
<1>1. execs \in Seq(Calling)
  BY EmptySeq
<1>2. /\ execs' \in Seq(Live) /\ execs' # << >> /\ Front(execs') = execs
      /\ tframes' \in Seq(Kept) /\ Len(tframes') <= FrameCap
  BY <1>1, Enters
<1>3. StackInv'
  BY <1>2 DEF StackInv
<1>4. ModeInv' /\ CallInv' /\ FailureStops'
  BY <1>1, <1>2 DEF IInv, ModeInv, CallInv, FailureStops, Failed
<1> QED  BY <1>3, <1>4 DEF IInv

LEMMA InterpreterStep ==
  ASSUME IInv, Interpreter
  PROVE  IInv'
<1>0. /\ tframes \in Seq(Kept) /\ Len(tframes) <= FrameCap
      /\ istack \in Inputs /\ cont \in Seq(Contexts) /\ depth \in Nat
      /\ outer \in {"EXECUTE", "FAILED", "INNER_FAILED", "SHUTDOWN"}
      /\ interp \in {"INTERPRET", "COMPILE"} /\ cmds \in Seq(Commands)
      /\ AtSource \in Seq(Contexts) /\ Closed \in Seq(Contexts)
  BY HistoryClosed DEF IInv, StackInv, ModeInv
<1>i. ASSUME pc \in {"tokens", "drain"}
      PROVE  execs = << >> /\ ~Failed
  BY <1>i DEF IInv, CallInv, FailureStops
<1>t. ASSUME NEW kinds, AtToken(kinds)
      PROVE  /\ NextToken \in Tokens /\ Fetched \in Inputs
             /\ execs = << >> /\ ~Failed /\ NextToken.tok \in kinds
  BY <1>t, <1>i, TokenTaken DEF AtToken
<1>1. CASE TokenNumber
  <2>1. AtToken({"number"})
    BY <1>1 DEF TokenNumber
  <2> QED  BY <1>0, <1>1, <1>t, <2>1, QuietStep DEF TokenNumber, AtToken, Failed
<1>2. CASE TokenUnknown
  <2>1. AtToken({"unknown"})
    BY <1>2 DEF TokenUnknown
  <2> QED  BY <1>0, <1>2, <1>t, <2>1, QuietStep DEF TokenUnknown
<1>3. CASE TokenCompiled
  <2>1. AtToken({"native", "foreign", "word"})
    BY <1>3 DEF TokenCompiled
  <2> QED  BY <1>0, <1>3, <1>t, <2>1, QuietStep DEF TokenCompiled
<1>4. CASE TokenNative
  <2>1. /\ AtToken({"native"}) /\ pc' = "interpreted"
        /\ Native(NextToken.act, AtSource, execs, Fetched)
        /\ UNCHANGED <<depth, cmds>>
    BY <1>4 DEF TokenNative
  <2>2. NextToken.act \in Acts /\ Fetched \in Inputs /\ execs = << >> /\ ~Failed
    BY <1>t, <2>1, TokenFields
  <2>3. execs \in Seq(Calling)
    BY <2>2, EmptySeq
  <2>4. /\ execs' \in Seq(Live)
        /\ \/ execs' = execs
           \/ execs' # << >> /\ Front(execs') = execs /\ outer' = outer
        /\ tframes' \in Seq(Kept) /\ Len(tframes') <= FrameCap
        /\ istack' \in Inputs
        /\ cont' \in Seq(Contexts)
        /\ outer' \in {"EXECUTE", "FAILED", "INNER_FAILED", "SHUTDOWN"}
        /\ interp' \in {"INTERPRET", "COMPILE"}
    BY <1>0, <2>1, <2>2, <2>3, NativeStep
  <2>5. StackInv'
    BY <2>4 DEF StackInv
  <2>6. ModeInv' /\ CallInv' /\ FailureStops'
    BY <1>0, <2>1, <2>2, <2>3, <2>4
    DEF ModeInv, CallInv, FailureStops, Running, Failed
  <2> QED  BY <2>5, <2>6 DEF IInv
<1>5. CASE TokenForeign
  <2>1. AtToken({"foreign"})
    BY <1>5 DEF TokenForeign
  <2> QED  BY <1>0, <1>5, <1>t, <2>1, QuietStep DEF TokenForeign
<1>6. CASE TokenThreaded
  <2> DEFINE w  == NextToken.word
             fs == PushFrame(tframes, Frame(w, w, 1))
  <2>1. /\ AtToken({"word"}) /\ Enter(execs, fs)
        /\ cont' = Open(AtSource, InWord(w, 1))
        /\ istack' = Fetched /\ pc' = "interpreted"
        /\ UNCHANGED <<depth, outer, interp, cmds>>
    BY <1>6 DEF TokenThreaded
  <2>2. w \in Words /\ Fetched \in Inputs /\ execs = << >> /\ ~Failed
    BY <1>t, <2>1, TokenFields
  <2>3. 1 \in DOMAIN Code[w]
    <3>1. Len(Code[w]) \in Nat \ {0} /\ DOMAIN Code[w] = 1 .. Len(Code[w])
      BY <2>2, CodeAssumption, LenProperties DEF WellFormed
    <3> QED  BY <3>1
  <2>4. fs \in Seq(Kept) /\ fs # << >> /\ Len(fs) <= FrameCap
    BY <1>0, <2>2, <2>3, NewFrame, FramePushed
  <2>5. cont' \in Seq(Contexts)
    BY <1>0, <2>1, <2>2, NewContext, Opened
  <2> HIDE DEF fs
  <2> QED  BY <1>0, <2>1, <2>2, <2>4, <2>5, EnterStep
<1>7. CASE TokenDone
  BY <1>0, <1>7, QuietStep DEF TokenDone, Failed
<1>8. CASE NoMoreTokens
  BY <1>0, <1>i, <1>8, QuietStep DEF NoMoreTokens, Failed
<1>9. CASE DrainFrame
  <2>1. execs = << >> /\ ~Failed
    BY <1>i, <1>9 DEF DrainFrame
  <2> QED  BY <1>0, <1>9, <2>1, TopSource, EnterStep DEF DrainFrame
<1>10. CASE FrameDrained
  BY <1>0, <1>10, QuietStep DEF FrameDrained, Failed
<1>11. CASE EndString
  <2>1. Front(istack) \in Inputs
    BY <1>0, <1>11, SourcePopped DEF EndString
  <2> QED  BY <1>0, <1>i, <1>11, <2>1, QuietStep DEF EndString, AtLineEnd
<1>12. CASE RefillFile
  <2>1. istack' \in Inputs
    <3> DEFINE s == Top(istack)
    <3>1. /\ s \in Readable /\ s.kind = "file" /\ s.file \in Files /\ s.line \in Nat
      BY <1>0, <1>12, TopSource DEF RefillFile
    <3>2. CASE s.line < Len(File[s.file])
      <4> DEFINE t == File[s.file][s.line + 1]
                 r == [Source("file", t, s.file) EXCEPT !.line = s.line + 1]
      <4>1. File[s.file] \in Seq(Texts)
        BY <3>1, InputAssumption
      <4>2. t \in Texts
        BY <3>1, <3>2, <4>1, LenProperties, ElementOfSeq
      <4>3. istack' = SetTop(istack, r)
        BY <1>12, <3>2 DEF RefillFile
      <4>4. r \in Readable /\ r.kind = s.kind
        <5> DEFINE q == Source("file", t, s.file)
        <5>1. q \in Readable /\ q.kind = "file"
          BY <3>1, <4>2, NewSource DEF Source
        <5> HIDE DEF q, s
        <5>2. /\ [q EXCEPT !.line = s.line + 1] \in Readable
              /\ [q EXCEPT !.line = s.line + 1].kind = s.kind
          BY <3>1, <5>1 DEF Readable, Sources
        <5> QED  BY <5>2 DEF q
      <4> QED  BY <1>0, <4>3, <4>4, SourceReplaced
    <3>3. CASE ~(s.line < Len(File[s.file]))
      BY <1>0, <1>12, <3>1, <3>3, SourcePopped DEF RefillFile
    <3> QED  BY <3>2, <3>3
  <2> QED  BY <1>0, <1>i, <1>12, <2>1, QuietStep DEF RefillFile, AtLineEnd
<1> QED  BY <1>1, <1>2, <1>3, <1>4, <1>5, <1>6, <1>7, <1>8, <1>9, <1>10, <1>11, <1>12
        DEF Interpreter

LEMMA UserStep ==
  ASSUME IInv, RefillKeyboard \/ MainDispatch \/ DebuggerRead \/ DebuggerCommand
  PROVE  IInv'
<1>0. /\ tframes \in Seq(Kept) /\ Len(tframes) <= FrameCap
      /\ istack \in Inputs /\ cont \in Seq(Contexts) /\ depth \in Nat
      /\ outer \in {"EXECUTE", "FAILED", "INNER_FAILED", "SHUTDOWN"}
      /\ interp \in {"INTERPRET", "COMPILE"} /\ cmds \in Seq(Commands)
  BY DEF IInv, StackInv, ModeInv
<1>i. pc \in {"main", "drain", "debugger"} => execs = << >>
  BY DEF IInv, CallInv
<1>1. CASE RefillKeyboard
  <2>1. PICK t \in KeyLines : istack' = SetTop(istack, Source("user", t, NoFile))
    BY <1>1 DEF RefillKeyboard
  <2>2. Source("user", t, NoFile) \in Readable /\ Source("user", t, NoFile).kind = "user"
    BY InputAssumption, NewSource DEF Source
  <2>3. istack' \in Inputs
    BY <1>0, <1>1, <2>1, <2>2, SourceReplaced DEF RefillKeyboard
  <2> QED  BY <1>0, <1>i, <1>1, <2>3, QuietStep DEF RefillKeyboard, AtLineEnd
<1>2. CASE MainDispatch
  BY <1>0, <1>i, <1>2, QuietStep DEF MainDispatch, Failed
<1>3. CASE DebuggerRead
  <2>1. cmds' \in Seq(Commands)
    BY <1>3, InputAssumption DEF DebuggerRead
  <2> QED  BY <1>0, <1>i, <1>3, <2>1, QuietStep DEF DebuggerRead
<1>4. CASE DebuggerCommand
  <2>1. cmds' \in Seq(Commands)
    BY <1>0, <1>4, HeadTailProperties DEF DebuggerCommand
  <2>2. << >> \in Seq(Kept) /\ Len(<< >>) <= FrameCap /\ << InSource(1) >> \in Seq(Contexts)
    BY EmptySeq, NewContext, CapAssumption
  <2>3. /\ tframes' \in Seq(Kept) /\ Len(tframes') <= FrameCap
        /\ istack' \in Inputs /\ cont' \in Seq(Contexts)
        /\ outer' \in {"EXECUTE", "FAILED", "INNER_FAILED", "SHUTDOWN"}
        /\ interp' \in {"INTERPRET", "COMPILE"}
    BY <1>0, <1>4, <2>2, KeyboardLeft DEF DebuggerCommand
  <2>4. pc' \in {"main", "debugger"} /\ execs = << >> /\ UNCHANGED <<depth, execs>>
    BY <1>i, <1>4 DEF DebuggerCommand
  <2> QED  BY <1>0, <2>1, <2>3, <2>4, QuietStep
<1> QED  BY <1>1, <1>2, <1>3, <1>4

-----------------------------------------------------------------------------
(* The theorems.                                                           *)

LEMMA InitInv ==
  ASSUME Init
  PROVE  IInv
<1>1. << Source("user", EmptyText, NoFile) >> \in Inputs
  <2> DEFINE s == Source("user", EmptyText, NoFile)
  <2>1. s \in Readable /\ s.kind = "user"
    BY InputAssumption, NewSource DEF Source
  <2> HIDE DEF s
  <2>2. << s >> \in Seq(Readable) /\ Len(<< s >>) = 1 /\ << s >>[1] = s
    BY <2>1
  <2> QED  BY <2>1, <2>2, CapAssumption DEF Inputs, s
<1>2. << InSource(1) >> \in Seq(Contexts)
  BY NewContext
<1>3. StackInv
  BY <1>1, <1>2, EmptySeq, CapAssumption DEF Init, StackInv
<1>4. ModeInv /\ CallInv /\ FailureStops
  BY EmptySeq DEF Init, ModeInv, CallInv, FailureStops, Failed
<1> QED  BY <1>3, <1>4 DEF IInv

LEMMA NextInv ==
  ASSUME IInv, [Next]_vars
  PROVE  IInv'
<1>1. CASE Next
  BY <1>1, ExecutorStep, InterpreterStep, UserStep DEF Next, Machine, User
<1>2. CASE UNCHANGED vars
  BY <1>2 DEF vars, IInv, StackInv, ModeInv, CallInv, FailureStops, Running, Failed
<1> QED  BY <1>1, <1>2

LEMMA Invariance == Spec => []IInv
<1>1. Init => IInv
  BY InitInv
<1>2. IInv /\ [Next]_vars => IInv'
  BY NextInv
<1> QED  BY <1>1, <1>2, PTL DEF Spec

\* Whatever the program, its input and the user do: the frame stack and the
\* input stack never outgrow their arrays, the keyboard is never popped, and
\* every stack holds well-formed entries (_askf_push_ip_frame, askf_istack_push).
THEOREM TypeCorrect == Spec => []TypeOK
<1>1. IInv => TypeOK
  <2> SUFFICES ASSUME IInv PROVE TypeOK
    OBVIOUS
  <2>1. execs \in Seq(Activations) /\ tframes \in Seq(Frames)
    BY Widened DEF IInv, StackInv, Live, Kept
  <2>2. istack \in Seq(Sources) /\ Len(istack) \in 1 .. SourceCap
    BY Widened DEF IInv, StackInv, Inputs, Readable
  <2> QED  BY <2>1, <2>2 DEF IInv, StackInv, ModeInv, TypeOK
<1> QED  BY <1>1, Invariance, PTL

\* No executor and no kept frame ever points outside the code of its word, for
\* any well-formed code (_askf_execute_threaded_frames, which checks no bound).
THEOREM ControlStaysInCode == Spec => []ControlInCode
<1>1. IInv => ControlInCode
  <2> SUFFICES ASSUME IInv PROVE ControlInCode
    OBVIOUS
  <2>1. \A i \in DOMAIN execs : execs[i] \in Live
    BY LenProperties, ElementOfSeq DEF IInv, StackInv
  <2>2. \A i \in DOMAIN tframes : tframes[i] \in Kept
    BY LenProperties, ElementOfSeq DEF IInv, StackInv
  <2> QED  BY <2>1, <2>2 DEF Live, Kept, ControlInCode
<1> QED  BY <1>1, Invariance, PTL

\* A failure stops every nested activation of the executor and the token loop,
\* at whatever depth it happened (the error-path of each operation).
THEOREM FailureStopsExecution == Spec => []FailureStops
<1>1. IInv => FailureStops
  BY DEF IInv
<1> QED  BY <1>1, Invariance, PTL

\* While a failure is on its way to the debugger no step changes the failed
\* state or the input, and no kept frame is lost or altered.
THEOREM FailurePreserves == Spec => UnwindPreserves
<1> DEFINE Preserves ==
      Failed /\ pc # "debugger" =>
        /\ outer' = outer /\ istack' = istack
        /\ \A i \in DOMAIN tframes : i \in DOMAIN tframes' /\ tframes'[i] = tframes[i]
<1>1. ASSUME IInv, [Next]_vars
      PROVE  Preserves
  <2> SUFFICES ASSUME Failed, pc # "debugger"
               PROVE  /\ outer' = outer /\ istack' = istack
                      /\ \A i \in DOMAIN tframes :
                           i \in DOMAIN tframes' /\ tframes'[i] = tframes[i]
    OBVIOUS
  <2>1. ~Running /\ pc \in {"interpreted", "drained", "main"}
    BY <1>1 DEF IInv, FailureStops
  <2>2. CASE Executor
    <3>1. AfterNative
      BY <2>1, <2>2 DEF Executor, AtOp, OpPlain, OpThreadedWord, OpBranch, Op0Branch,
                        OpNative, OpForeign, OpDispatchError, OpEndWord
    <3> DEFINE x == Last(execs)
               f == Resume(x)
    <3>2. /\ execs # << >> /\ x.at = "native" /\ tframes' = PushFrame(tframes, f)
          /\ outer' = outer /\ istack' = istack
      BY <3>1 DEF AfterNative, Interrupted
    <3>3. f \in Kept
      <4>1. x \in Live
        BY <1>1, <3>2, Popped DEF IInv, StackInv
      <4>2. /\ x.word \in Words /\ x.label \in Words \cup {Foreign}
            /\ x.ip \in DOMAIN Code[x.word] /\ Code[x.word][x.ip].op = "native"
        BY <3>2, <4>1 DEF Live, Activations, Op
      <4> QED  BY <4>2, CodeStep, NewFrame DEF Resume
    <3> QED  BY <1>1, <3>2, <3>3, FramePushed DEF IInv, StackInv
  <2>3. CASE Interpreter
    BY <2>1, <2>3 DEF Interpreter, AtToken, TokenNumber, TokenUnknown, TokenCompiled,
         TokenNative, TokenForeign, TokenThreaded, TokenDone, NoMoreTokens, DrainFrame,
         FrameDrained, EndString, RefillFile, AtLineEnd
  <2>4. CASE MainDispatch
    BY <2>4 DEF MainDispatch
  <2>5. CASE DebuggerCommand \/ User
    BY <2>1, <2>5 DEF DebuggerCommand, User, RefillKeyboard, DebuggerRead, AtLineEnd
  <2>6. CASE UNCHANGED vars
    BY <2>6 DEF vars
  <2> QED  BY <1>1, <2>2, <2>3, <2>4, <2>5, <2>6 DEF Next, Machine
<1>2. IInv /\ [Next]_vars => [Preserves]_vars
  BY <1>1
<1> QED  BY <1>2, Invariance, PTL DEF Spec, UnwindPreserves
=============================================================================
