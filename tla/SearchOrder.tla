----------------------------- MODULE SearchOrder -----------------------------
(***************************************************************************)
(* What the library of AskForth promises to a program: dictionaries in the *)
(* order in which they are searched, the definitions of each, the newest   *)
(* last, and the dictionaries and words that were forgotten.  What was     *)
(* created is never lost: it is in use or it is forgotten.                 *)
(***************************************************************************)
EXTENDS Integers, Sequences, SequencesExt

CONSTANTS Dicts, Words, Names, NameOf, Core

VARIABLES
  order,      \* the dictionaries in use, the first to be searched first
  forgotten,  \* the forgotten dictionaries
  defs,       \* defs[d]: the words of d, in use or not, the newest last
  discarded   \* the forgotten words

vars == <<order, forgotten, defs, discarded>>

Defined == UNION {ToSet(defs[d]) : d \in Dicts}

Define(d, w) ==
  /\ d \in ToSet(order) /\ w \notin Defined \cup discarded
  /\ defs' = [defs EXCEPT ![d] = Append(@, w)]
  /\ UNCHANGED <<order, forgotten, discarded>>

NewDict(d) ==
  /\ d \notin ToSet(order) \cup forgotten
  /\ order' = Append(order, d)
  /\ UNCHANGED <<forgotten, defs, discarded>>

\* The last dictionary in use cannot be forgotten.
ForgetDict(d) ==
  /\ d \in ToSet(order) /\ Len(order) > 1
  /\ order' = RemoveFirst(order, d)
  /\ forgotten' = forgotten \cup {d}
  /\ UNCHANGED <<defs, discarded>>

RememberDict(d) ==
  /\ d \in forgotten
  /\ order' = Append(order, d)
  /\ forgotten' = forgotten \ {d}
  /\ UNCHANGED <<defs, discarded>>

PromoteDict(d) ==
  /\ d \in ToSet(order)
  /\ order' = << d >> \o RemoveFirst(order, d)
  /\ UNCHANGED <<forgotten, defs, discarded>>

ForgetWord(d, w) ==
  /\ w \in ToSet(defs[d])
  /\ defs' = [defs EXCEPT ![d] = RemoveFirst(@, w)]
  /\ discarded' = discarded \cup {w}
  /\ UNCHANGED <<order, forgotten>>

\* The definition of n that d has: the newest.
Newest(d, n) ==
  LET i == SelectLastInSeq(defs[d], LAMBDA w : NameOf[w] = n)
  IN  IF i = 0 THEN {} ELSE {defs[d][i]}

\* The definition a program gets for n: that of the first dictionary that has
\* one.
Meaning(n) ==
  LET i == SelectInSeq(order, LAMBDA d : Newest(d, n) # {})
  IN  IF i = 0 THEN {} ELSE Newest(order[i], n)

Init ==
  /\ order = << Core >> /\ forgotten = {}
  /\ defs = [d \in Dicts |-> << >>] /\ discarded = {}

Next ==
  \/ \E d \in Dicts : NewDict(d) \/ ForgetDict(d) \/ RememberDict(d) \/ PromoteDict(d)
  \/ \E d \in Dicts, w \in Words : Define(d, w)
  \/ \E d \in Dicts, w \in Words : ForgetWord(d, w)

Spec == Init /\ [][Next]_vars
=============================================================================
