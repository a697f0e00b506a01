----------------------------- MODULE Discipline ------------------------------
(***************************************************************************)
(* Programs whose words run in the order of their text on ThreadedVM: what *)
(* a program must not do, because frames are shared by all activations and *)
(* are only run at the end of a line.                                      *)
(***************************************************************************)
EXTENDS ThreadedVM

CONSTANTS
  Sure,     \* words that never fail and open no source
  Opening   \* words that open a source as the last thing they do

\* The words that EXECUTE others, and the texts that words open.
First == {w \in Words : \E i \in DOMAIN Code[w] :
            Code[w][i].op = "native" /\ Code[w][i].act.do = "execute"}
Bare == {t \in Texts : \E w \in Words : \E i \in DOMAIN Code[w] :
           Code[w][i].op = "native" /\ Code[w][i].act.do = "source" /\ Code[w][i].act.text = t}

\* Acts and operations that never fail.
SureAct(a) ==
  \/ a.do \in {"semicolon", "bye"}
  \/ a.do \in {"work", "colon"} /\ "fail" \notin a.may

SureOp(o) ==
  \/ o.op \in {"plain", "branch", "0branch", "endword"}
  \/ o.op = "call" /\ o.word \in Sure
  \/ o.op = "native" /\ SureAct(o.act)
  \/ o.op = "foreign" /\ "fail" \notin o.may

\* A flag is there for every branch; a word that EXECUTEs is called by no other
\* word, and what it EXECUTEs is sure; nothing stands behind the opening of a
\* string or block, nor behind the call of a word that opens one; files are
\* included, and ABORT is called, outside of words.
CarefulOp(w, i) ==
  LET o == Code[w][i]
      final == Code[w][i + 1].op = "endword"
  IN  /\ w \in Sure => SureOp(o)
      /\ o.op = "0branch" => "empty" \notin o.may
      /\ o.op = "call" => /\ o.word \notin First
                          /\ o.word \in Opening => w \in Opening /\ final
      /\ o.op = "native" => /\ o.act.do \notin {"include", "abort"}
                            /\ o.act.do = "execute" => o.act.word \in Sure
                            /\ o.act.do = "source" => w \in Opening /\ final

\* Behind a word that is not sure nothing stands on its line; a text that a word
\* opens runs no threaded words and opens nothing.
CarefulToken(t, i) ==
  LET k == Text[t][i]
      MayRun(w) == t \notin Bare /\ (w \in Sure \/ i = Len(Text[t]))
  IN  /\ k.tok = "word" => MayRun(k.word)
      /\ k.tok = "native" => /\ k.act.do = "execute" => MayRun(k.act.word)
                             /\ k.act.do \in {"source", "include"} => t \notin Bare

Disciplined ==
  /\ \A w \in Words : \A i \in DOMAIN Code[w] : CarefulOp(w, i)
  /\ \A t \in Texts : \A i \in DOMAIN Text[t] : CarefulToken(t, i)

\* Neither stack is full.
NotFull == Len(tframes) < FrameCap /\ Len(istack) < SourceCap
=============================================================================
