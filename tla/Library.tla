------------------------------- MODULE Library -------------------------------
(***************************************************************************)
(* The library of AskForth: a doubly linked list of dictionaries, each a   *)
(* doubly linked list of words, and the shadow library, the lists of the   *)
(* dictionaries and words that were forgotten.  A dictionary or word lives *)
(* for ever; FORGET, FORGET-DICT, REMEMBER-DICT and PROMOTE-DICT move it   *)
(* from list to list through its own two links.                            *)
(*                                                                         *)
(* Words on lists take an address (xt) from the stack.  The code does not  *)
(* look whether it is one that the operation can work on; Liberties says   *)
(* which of the uses that it cannot work on a program makes.               *)
(***************************************************************************)
EXTENDS Integers, FiniteSets, FiniteSetsExt, Sequences, SequencesExt

CONSTANTS
  Dicts,     \* addresses of dictionaries
  Words,     \* addresses of words
  Names,     \* names of words
  NameOf,    \* NameOf[w]: the name of w
  Core,      \* the dictionary the machine starts with
  Null,      \* the null pointer
  Liberties  \* what the program does not take care of

Uses == {"stale xt", "promote end", "remember oldest"}

ASSUME LibraryAssumption ==
  /\ Core \in Dicts /\ Null \notin Dicts \cup Words
  /\ NameOf \in [Words -> Names] /\ IsFiniteSet(Dicts) /\ IsFiniteSet(Words)
  /\ Liberties \subseteq Uses

VARIABLES
  base, recent,      \* lib->dictionaries_base, lib->recent_dic
  dnext, dprev,      \* dict->next, dict->prev
  wbase, wrecent,    \* dict->words_base, dict->recent_word
  wnext, wprev,      \* word->next, word->prev
  origin,            \* word->dict_origin
  sdbase, sdrecent,  \* slib->dict_base, slib->dict_recent
  swbase, swrecent,  \* slib->word_base, slib->word_recent
  dicts, words,      \* history: the dictionaries and words created so far
  listed, kept       \* history: those in use, not forgotten

mainVars == <<base, recent>>
dictVars == <<dnext, dprev>>
wordVars == <<wbase, wrecent, wnext, wprev, origin, swbase, swrecent, words, kept>>
shadowVars == <<sdbase, sdrecent>>
vars == <<mainVars, dictVars, wordVars, shadowVars, dicts, listed>>

DictOrNull == Dicts \cup {Null}
WordOrNull == Words \cup {Null}

-----------------------------------------------------------------------------
(* Lists.                                                                  *)

\* What a walk along the links finds that starts at x: the least set that has
\* x and the successors of its members.
Reach(Node, next, x) ==
  {y \in Node : \A S \in SUBSET Node :
     (x # Null => x \in S) /\ (\A z \in S : next[z] # Null => next[z] \in S) => y \in S}

\* askf_library_find_dic: the dictionaries that can be found by name.
Found == Reach(Dicts, dnext, base)

\* askf_library_find_word_from_dic: the first word of that name on the way from
\* the newest to the oldest.
FindIn(d, n) ==
  LET same == {w \in Reach(Words, wprev, wrecent[d]) : NameOf[w] = n}
  IN  {w \in same : same \subseteq Reach(Words, wprev, w)}

\* x is taken out between its neighbours.
SkippedNext(next, prev, x) ==
  IF prev[x] # Null THEN [next EXCEPT ![prev[x]] = next[x]] ELSE next

\* Mutant: the successor keeps its link back.
SkippedPrevKept(next, prev, x) == prev

SkippedPrev(next, prev, x) ==
  IF next[x] # Null THEN [prev EXCEPT ![next[x]] = prev[x]] ELSE prev

-----------------------------------------------------------------------------
(* Words.                                                                  *)

\* `:`, FUNCTION: and the words of the core: a word is added to a dictionary
\* that is found by name.
AddWord(d, w) ==
  /\ d \in Found /\ w \notin words
  /\ wbase' = IF wbase[d] = Null THEN [wbase EXCEPT ![d] = w] ELSE wbase
  /\ wnext' = [(IF wrecent[d] = Null THEN wnext ELSE [wnext EXCEPT ![wrecent[d]] = w])
                 EXCEPT ![w] = Null]
  /\ wprev' = [wprev EXCEPT ![w] = wrecent[d]]
  /\ wrecent' = [wrecent EXCEPT ![d] = w]
  /\ origin' = [origin EXCEPT ![w] = d]
  /\ words' = words \cup {w} /\ kept' = kept \cup {w}
  /\ UNCHANGED <<mainVars, dictVars, shadowVars, swbase, swrecent, dicts, listed>>

\* The word is taken off its dictionary's list and put on the shadow library's.
Discard(d, w) ==
  LET next == SkippedNext(wnext, wprev, w)
      prev == SkippedPrev(wnext, wprev, w)
      alone == wprev[w] = Null /\ wnext[w] = Null
  IN  /\ wrecent' = IF \/ wprev[w] # Null /\ wnext[w] = Null
                       \/ alone /\ wrecent[d] = w
                    THEN [wrecent EXCEPT ![d] = wprev[w]] ELSE wrecent
      /\ wbase' = IF \/ wprev[w] = Null /\ wnext[w] # Null
                     \/ alone /\ wbase[d] = w
                  THEN [wbase EXCEPT ![d] = wnext[w]] ELSE wbase
      /\ swbase' = IF swbase = Null THEN w ELSE swbase
      /\ swrecent' = w
      /\ wnext' = [(IF swbase = Null THEN next ELSE [next EXCEPT ![swrecent] = w])
                     EXCEPT ![w] = Null]
      /\ wprev' = [prev EXCEPT ![w] = IF swbase = Null THEN Null ELSE swrecent]
      /\ kept' = kept \ {w}
      /\ UNCHANGED <<mainVars, dictVars, shadowVars, origin, words, dicts, listed>>

\* [FORGET]: by name, from a dictionary given by its address.  A name that is
\* not there is a null pointer and ends the process.
Forget(d, n) ==
  /\ d \in dicts
  /\ \E w \in FindIn(d, n) : Discard(d, w)

\* FORGET: by address.
XtForget(w) ==
  /\ w \in words
  /\ "stale xt" \in Liberties \/ w \in kept
  /\ Discard(origin[w], w)

-----------------------------------------------------------------------------
(* Dictionaries.                                                           *)

\* DICTIONARY
NewDict(d) ==
  /\ d \notin dicts
  /\ dnext' = [dnext EXCEPT ![d] = Null, ![recent] = d]
  /\ dprev' = [dprev EXCEPT ![d] = recent]
  /\ recent' = d
  /\ dicts' = dicts \cup {d} /\ listed' = listed \cup {d}
  /\ UNCHANGED <<base, wordVars, shadowVars>>

\* Mutants: the only dictionary is forgotten; the newest one stays the newest.
NeverOne(d) == FALSE
NewestStays(d) == recent

OnlyOne(d) == dprev[d] = Null /\ dnext[d] = Null

\* The newest dictionary in use when d is not.
NewestWithout(d) == IF dnext[d] = Null THEN dprev[d] ELSE recent

\* FORGET-DICT: the only dictionary there is stays, without an error.
ForgetDict(d) ==
  /\ d \in dicts
  /\ "stale xt" \in Liberties \/ d \in listed
  /\ ~OnlyOne(d)
  /\ recent' = NewestWithout(d)
  /\ base' = IF dprev[d] = Null THEN dnext[d] ELSE base
  /\ sdbase' = IF sdbase = Null THEN d ELSE sdbase
  /\ sdrecent' = d
  /\ LET next == SkippedNext(dnext, dprev, d)
     IN  dnext' = [(IF sdbase = Null THEN next ELSE [next EXCEPT ![sdrecent] = d])
                     EXCEPT ![d] = Null]
  /\ dprev' = [SkippedPrev(dnext, dprev, d) EXCEPT ![d] = IF sdbase = Null THEN Null ELSE sdrecent]
  /\ listed' = listed \ {d}
  /\ UNCHANGED <<wordVars, dicts>>

\* Mutant: the newest of the shadow library is not looked at.
ShadowWithoutOldest(d) ==
  IF d = sdbase THEN <<Null, Null>> ELSE <<sdbase, sdrecent>>

\* The shadow library without d.  If d is the oldest of several, it is emptied.
ShadowWithout(d) ==
  IF d = sdrecent /\ dprev[d] # Null THEN <<sdbase, dprev[d]>>
  ELSE IF d \in {sdrecent, sdbase} THEN <<Null, Null>>
  ELSE <<sdbase, sdrecent>>

\* REMEMBER-DICT: the dictionary is looked for in the shadow library and becomes
\* the last to be searched.  The oldest one's successor keeps its link back.
RememberDict(d) ==
  /\ d \in Reach(Dicts, dnext, sdbase)
  /\ "remember oldest" \in Liberties \/ d # sdbase \/ d = sdrecent
  /\ sdbase' = ShadowWithout(d)[1] /\ sdrecent' = ShadowWithout(d)[2]
  /\ dnext' = [SkippedNext(dnext, dprev, d) EXCEPT ![d] = Null, ![recent] = d]
  /\ dprev' = [(IF dprev[d] = Null THEN dprev ELSE SkippedPrev(dnext, dprev, d))
                 EXCEPT ![d] = recent]
  /\ recent' = d
  /\ listed' = listed \cup {d}
  /\ UNCHANGED <<base, wordVars, dicts>>

\* PROMOTE-DICT: the dictionary becomes the first to be searched; recent_dic is
\* left alone.
PromoteDict(d) ==
  /\ d \in dicts
  /\ "stale xt" \in Liberties \/ d \in listed
  /\ "promote end" \in Liberties \/ d \notin {base, recent}
  /\ dnext' = [SkippedNext(dnext, dprev, d) EXCEPT ![d] = base]
  /\ LET prev == IF dprev[d] = Null THEN dprev ELSE SkippedPrev(dnext, dprev, d)
     IN  dprev' = [prev EXCEPT ![base] = d, ![d] = Null]
  /\ base' = d
  /\ listed' = listed \cup {d}
  /\ UNCHANGED <<recent, wordVars, shadowVars, dicts>>

-----------------------------------------------------------------------------
Init ==
  /\ base = Core /\ recent = Core
  /\ dnext = [d \in Dicts |-> Null] /\ dprev = [d \in Dicts |-> Null]
  /\ wbase = [d \in Dicts |-> Null] /\ wrecent = [d \in Dicts |-> Null]
  /\ wnext = [w \in Words |-> Null] /\ wprev = [w \in Words |-> Null]
  /\ origin = [w \in Words |-> Null]
  /\ sdbase = Null /\ sdrecent = Null /\ swbase = Null /\ swrecent = Null
  /\ dicts = {Core} /\ words = {} /\ listed = {Core} /\ kept = {}

Next ==
  \/ \E d \in Dicts : NewDict(d) \/ ForgetDict(d) \/ RememberDict(d) \/ PromoteDict(d)
  \/ \E d \in Dicts, w \in Words : AddWord(d, w)
  \/ \E d \in Dicts, n \in Names : Forget(d, n)
  \/ \E w \in Words : XtForget(w)

Spec == Init /\ [][Next]_vars

-----------------------------------------------------------------------------
(* Properties.                                                             *)

\* The type invariant: every link is an address of its kind or null.
TypeOK ==
  /\ dicts \subseteq Dicts /\ words \subseteq Words
  /\ listed \subseteq dicts /\ kept \subseteq words
  /\ base \in Dicts /\ recent \in Dicts
  /\ sdbase \in DictOrNull /\ sdrecent \in DictOrNull
  /\ swbase \in WordOrNull /\ swrecent \in WordOrNull
  /\ dnext \in [Dicts -> DictOrNull] /\ dprev \in [Dicts -> DictOrNull]
  /\ wnext \in [Words -> WordOrNull] /\ wprev \in [Words -> WordOrNull]
  /\ wbase \in [Dicts -> WordOrNull] /\ wrecent \in [Dicts -> WordOrNull]
  /\ origin \in [Words -> DictOrNull]

\* The members S are linked: the ends are members or both null, only the first
\* and the last have a null link, and next and prev are each other's inverse.
Linked(S, first, last, next, prev) ==
  /\ first = Null <=> last = Null
  /\ {first, last} \ {Null} \subseteq S
  /\ \A x \in S : IF x = first THEN prev[x] = Null
                 ELSE prev[x] \in S /\ next[prev[x]] = x
  /\ \A x \in S : IF x = last THEN next[x] = Null
                 ELSE next[x] \in S /\ prev[next[x]] = x

\* The words in use that were defined in d.
WordsOf(d) == {w \in kept : origin[w] = d}

DictLists ==
  /\ Linked(listed, base, recent, dnext, dprev)
  /\ Linked(dicts \ listed, sdbase, sdrecent, dnext, dprev)

WordLists ==
  /\ \A d \in Dicts : Linked(WordsOf(d), wbase[d], wrecent[d], wnext, wprev)
  /\ Linked(words \ kept, swbase, swrecent, wnext, wprev)

\* Whatever is forgotten, remembered and promoted: the dictionaries in use, the
\* words in use of each, the forgotten dictionaries and the forgotten words are
\* each linked both ways between their ends, so that a walk along next (WORDS,
\* the image) and one along prev (the search) see the same list
\* (library/library.c:78-320, words/askforth_words.c:563-692, 2089-2264).
LinksAgree == DictLists /\ WordLists

Shadowed == Reach(Dicts, dnext, sdbase)
UsedWords == UNION {Reach(Words, wprev, wrecent[d]) : d \in dicts}
ShadowedWords == Reach(Words, wnext, swbase)

\* "A word/dictionary must not be inside the main library and inside the shadow
\* library at the same time" (library/library.h:76).
OneLibrary ==
  /\ Found \cap Shadowed = {}
  /\ UsedWords \cap ShadowedWords = {}

\* Every dictionary and every word that was created is in the library or in the
\* shadow library, the "reliable source of truth of what is in memory"
\* (library/library.h:70-71).
NothingLost ==
  /\ Found \cup Shadowed = dicts
  /\ UsedWords \cup ShadowedWords = words

-----------------------------------------------------------------------------
(* The library as sequences.                                               *)

\* The members of the list that starts at x, at most n.
Chain(next, x, n) ==
  LET at[i \in 0 .. n] == IF i = 0 THEN x
                          ELSE IF at[i - 1] = Null THEN Null ELSE next[at[i - 1]]
      length == Min({i \in 0 .. n : i = n \/ at[i] = Null})
  IN  [i \in 1 .. length |-> at[i - 1]]

DictsFrom(x) == Chain(dnext, x, Cardinality(Dicts))
WordsFrom(x) == Chain(wnext, x, Cardinality(Words))

Promise ==
  INSTANCE SearchOrder WITH
    order <- DictsFrom(base), forgotten <- ToSet(DictsFrom(sdbase)),
    defs <- [d \in Dicts |-> WordsFrom(wbase[d])], discarded <- ToSet(WordsFrom(swbase))

\* Every operation does to the search order, to the definitions and to what is
\* forgotten what its name says, and to nothing else.
KeepsOrder == Promise!Spec

\* askf_library_find_word: the definition in the first dictionary that has one.
Lookup(n) ==
  LET i == SelectInSeq(DictsFrom(base), LAMBDA d : FindIn(d, n) # {})
  IN  IF i = 0 THEN {} ELSE FindIn(DictsFrom(base)[i], n)

\* A name means its newest definition in the first dictionary that has one,
\* after whatever was forgotten, remembered and promoted: the search goes back
\* through prev what definitions appended through next (examples.fs:208-209,
\* library/library.c:134-161).
FindsNewest == \A n \in Names : Lookup(n) = Promise!Meaning(n)
=============================================================================
