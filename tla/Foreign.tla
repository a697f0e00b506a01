------------------------------- MODULE Foreign -------------------------------
(***************************************************************************)
(* Foreign objects (shared libraries) and foreign functions of AskForth:   *)
(* FOREIGN and FREEFOREIGN, which keep a doubly linked list in memory of   *)
(* the C library, FUNCTION:, which binds a C function to a signature that  *)
(* all declarations share and adds a word with a copy of it, and the call  *)
(* of such a word on a stack of its own.                                   *)
(*                                                                         *)
(* Memory that has just been allocated holds anything: NULL, what an older *)
(* object left there, or neither (Wild).  To follow a wild pointer ends    *)
(* the process; to follow one into a freed object may end it, or find the  *)
(* links as they were.  The model is of a stack of cells of full width.    *)
(***************************************************************************)
EXTENDS Integers, Sequences, FiniteSets, SequencesExt

CONSTANTS
  Objects,      \* names of shared libraries
  Functions,    \* names of C functions
  Exports,      \* Exports[o]: the functions of library o
  Missing,      \* the name of a library that cannot be loaded
  Addrs,        \* where malloc may place an object
  None, Wild,   \* NULL; a pointer to nothing in particular
  Values, Junk, \* cells; a cell read from outside the stack
  Effects,      \* what declarations may have between ( and the dictionary
  MaxArgs,      \* how many parameters a signature has room for (16)
  Registers,    \* how many arguments the C ABI passes in registers (6)
  Limit,        \* cells on the stack (16)
  Liberties,    \* what the program does though nothing works then
  MaxWords, MaxEffort \* bounds: words declared; objects loaded and freed

Types == {"u64", "void"}
Tokens == Types \cup {"--", ")"}
Pointers == Addrs \cup {None, Wild}

ASSUME ForeignAssumption ==
  /\ Exports \in [Objects -> SUBSET Functions] /\ Missing \notin Objects
  /\ IsFiniteSet(Addrs) /\ None \notin Addrs /\ Wild \notin Addrs \cup {None}
  /\ Junk \notin Values
  /\ Effects \subseteq {e \in Seq(Tokens) : \A i \in DOMAIN e : e[i] = ")" => i = Len(e)}
  /\ MaxArgs \in Nat /\ \A e \in Effects : Cardinality({i \in DOMAIN e : e[i] = "u64"}) <= MaxArgs
  /\ Registers \in Nat /\ Limit \in Nat /\ Limit >= 2 /\ MaxWords \in Nat /\ MaxEffort \in Nat
  /\ Liberties \subseteq {"ends", "in use", "unbound", "many", "full", "bare"}

VARIABLES
  node,     \* the memory at Addrs: object, prev, next, whether it is allocated,
            \* and, as history, when
  objects,  \* foreign_manager->objects, where the list begins
  recent,   \* foreign_manager->recent_obj
  sig,      \* global_ffi_sig: count, args[0] is void, ret_type, handle
  words,    \* foreign words, in the order they were added
  stack,    \* the data stack
  called,   \* history: the call just made, as the C function saw it
  failed,   \* a word has failed and the debugger waits
  alive,    \* the process runs
  effort    \* objects loaded and freed so far

vars == <<node, objects, recent, sig, words, stack, called, failed, alive, effort>>
list == <<node, objects, recent>>

NoHandle == [object |-> None, function |-> None]
NoCall == [function |-> None, args |-> << >>, aligned |-> TRUE, result |-> None]

Live == {a \in Addrs : node[a].live}
Loaded == {node[a].object : a \in Live}

Ready == alive /\ ~failed
Fails == failed' = TRUE
Succeeds == UNCHANGED failed
Dies == alive' = FALSE
Survives == UNCHANGED alive

-----------------------------------------------------------------------------
(* Names.                                                                  *)

\* PARSE-NAME pushes the address and the length of a name, and its caller pops
\* two cells.  What there is no room for is not pushed, and cells of the program
\* are popped for it: the name is then whatever they lead to.
NameFits == Len(stack) + 2 <= Limit
NamePopped == stack' = IF NameFits THEN stack ELSE SubSeq(stack, 1, Limit - 2)

\* The name cannot be read.
NameDies == ~NameFits /\ Dies

-----------------------------------------------------------------------------
(* The list.                                                               *)

\* From the newest object along prev: where a search stands after n links.
Search ==
  LET at[n \in 0 .. Cardinality(Addrs)] ==
        IF n = 0 THEN recent
        ELSE LET a == at[n - 1] IN IF a \in Addrs THEN node[a].prev ELSE a
  IN  at

\* The links a search for a live object of the set S follows, and its result:
\* the object, or None; Wild if it does not return.
Hits(S) == LET at == Search IN {n \in DOMAIN at : at[n] \in S}
Walked(S) ==
  LET hits == Hits(S)
  IN  IF hits = {} THEN DOMAIN Search ELSE 0 .. (CHOOSE n \in hits : \A m \in hits : n <= m)
Freed(S) == LET at == Search IN \E n \in Walked(S) : at[n] \in Addrs \ Live
Result(S) ==
  LET end == Search[Cardinality(Walked(S)) - 1]
  IN  IF end \in Addrs \ S THEN Wild ELSE end

\* A search that may not end well.
Perishes(S) == Freed(S) \/ Result(S) = Wild

\* The object o, placed at a, becomes the newest; a link that is not set stays
\* what the memory held.
Link(a, o) ==
  /\ recent' = a
  /\ objects' = IF objects = None THEN a ELSE objects
  /\ \E prev \in {None, Wild, node[a].prev}, next \in {None, Wild, node[a].next} :
       LET new == [object |-> o, prev |-> IF recent = None THEN prev ELSE recent,
                   next |-> next, live |-> TRUE, born |-> effort + 1]
           placed == [node EXCEPT ![a] = new]
       IN  node' = IF recent = None THEN placed ELSE [placed EXCEPT ![recent].next = a]

\* FOREIGN, of what the name read says.
Load(o) ==
  /\ Ready /\ NamePopped
  /\ \/ NameDies /\ UNCHANGED <<list, failed, effort>>
     \/ o = Missing /\ Fails /\ Survives /\ UNCHANGED <<list, effort>>
     \/ /\ o \in Objects /\ Succeeds /\ Survives /\ \E a \in Addrs \ Live : Link(a, o)
        /\ effort < MaxEffort /\ effort' = effort + 1
  /\ UNCHANGED <<sig, words>> /\ called' = NoCall

\* Mutant: the next object still knows the one that is freed.
UnlinkedHalf(a) ==
  LET prev == node[a].prev
      next == node[a].next
  IN  IF prev # None THEN [node EXCEPT ![prev].next = next] ELSE node

\* The object at a leaves the list: only one that has both neighbours, or none,
\* does so without a trace.
Unlinked(a) ==
  LET prev == node[a].prev
      next == node[a].next
  IN  IF prev # None /\ next # None THEN [node EXCEPT ![prev].next = next, ![next].prev = prev]
      ELSE IF prev # None THEN [node EXCEPT ![prev].next = None]
      ELSE node

\* What a program does without liberties: of the two ends of the list it frees
\* only one that is both and has no links.
Careful(a) ==
  /\ a \in {objects, recent} /\ {node[a].prev, node[a].next} # {None} => "ends" \in Liberties
  /\ \/ "in use" \in Liberties
     \/ \A i \in DOMAIN words : words[i].sig.handle.object # node[a].object

\* FREEFOREIGN, of what the name read says.
Free(o) ==
  /\ Ready /\ NamePopped
  /\ LET named == {a \in Live : node[a].object = o}
         a == Result(named)
     IN  /\ a \in Addrs => Careful(a)
         /\ \/ Perishes(named) /\ Dies /\ UNCHANGED <<list, failed, effort>>
            \/ NameDies /\ UNCHANGED <<list, failed, effort>>
            \/ a = None /\ Fails /\ Survives /\ UNCHANGED <<list, effort>>
            \/ /\ a \in Addrs /\ Succeeds
               /\ effort < MaxEffort /\ effort' = effort + 1
               /\ IF Wild \in {node[a].prev, node[a].next} /\ node[a].prev # None
                  THEN Dies /\ UNCHANGED list
                  ELSE /\ node' = [Unlinked(a) EXCEPT ![a].live = FALSE, ![a].born = 0]
                       /\ LET only == node[a].prev = None /\ node[a].next = None
                          IN  /\ recent' = IF only THEN None ELSE recent
                              /\ objects' = IF only THEN None ELSE objects
                       /\ Survives
  /\ UNCHANGED <<sig, words>> /\ called' = NoCall

-----------------------------------------------------------------------------
(* Declarations.                                                           *)

\* Mutant: a void parameter is one more argument.
ReadTokenVoidCounted(s, t) ==
  IF s.end \/ s.bad THEN s
  ELSE CASE t = "--" -> [s EXCEPT !.params = FALSE]
         [] t \in Types /\ s.params -> [s EXCEPT !.count = @ + 1, !.void = FALSE]
         [] t \in Types /\ ~s.params -> [s EXCEPT !.ret = t, !.result = TRUE]
         [] t = ")" -> [s EXCEPT !.end = TRUE]

\* A token behind the parenthesis, read into the signature.
ReadToken(s, t) ==
  IF s.end \/ s.bad THEN s
  ELSE CASE t = "--" -> [s EXCEPT !.params = FALSE]
         [] t = "u64" /\ s.params -> [s EXCEPT !.count = @ + 1, !.void = @ /\ s.count > 0]
         [] t = "void" /\ s.params ->
              IF s.count > 0 THEN [s EXCEPT !.bad = TRUE] ELSE [s EXCEPT !.void = TRUE]
         [] t \in Types /\ ~s.params ->
              IF s.result THEN [s EXCEPT !.bad = TRUE] ELSE [s EXCEPT !.ret = t, !.result = TRUE]
         [] t = ")" ->
              IF (s.params /\ s.count > 0) \/ (~s.params /\ ~s.result)
              THEN [s EXCEPT !.bad = TRUE, !.end = TRUE] ELSE [s EXCEPT !.end = TRUE]

Start == [count |-> 0, void |-> sig.void, ret |-> sig.ret,
          params |-> TRUE, result |-> FALSE, end |-> FALSE, bad |-> FALSE]

\* The signature after n tokens.
Reading(effect) ==
  LET s[n \in 0 .. Len(effect)] == IF n = 0 THEN Start ELSE ReadToken(s[n - 1], effect[n])
  IN  s
Read(effect) == Reading(effect)[Len(effect)]

\* What a declaration that says all it has to say means.
IsArrow(effect, i) ==
  i \in DOMAIN effect /\ effect[i] = "--" /\ \A j \in 1 .. i - 1 : effect[j] # "--"
Complete(effect) == \E i \in DOMAIN effect : effect[i] = "--"
Meant(effect) ==
  LET at == CHOOSE i \in DOMAIN effect : IsArrow(effect, i)
  IN  [params |-> Cardinality({i \in 1 .. at - 1 : effect[i] # "void"}),
       result |-> \E i \in DOMAIN effect : i > at /\ effect[i] = "u64"]

\* The new word has a copy of the signature; name and meaning are what the
\* program said.
Added(f, effect, to) ==
  Append(words, [name |-> f, sig |-> to,
                 meant |-> IF Complete(effect) THEN Meant(effect)
                           ELSE [params |-> 0, result |-> FALSE]])

\* FUNCTION: f ( effect, of what the first name read says; there is room for the
\* other two.  A function that is not found fails, and its word is added
\* nevertheless; to a dictionary that is not found none is, without an error.
Declare(f, effect) ==
  /\ Ready /\ Len(words) < MaxWords /\ NamePopped
  /\ ~Complete(effect) => "bare" \in Liberties
  /\ LET s == Read(effect)
         read == [sig EXCEPT !.count = s.count, !.void = s.void, !.ret = s.ret]
         having == {a \in Live : f \in Exports[node[a].object]}
         a == Result(having)
     IN  \/ NameDies /\ UNCHANGED <<sig, words, failed>>
         \/ /\ s.bad \/ ~s.end
            /\ Fails /\ sig' = read /\ Survives /\ UNCHANGED words
         \/ /\ ~s.bad /\ s.end /\ Perishes(having) /\ Dies
            /\ sig' = read /\ UNCHANGED <<words, failed>>
         \/ /\ ~s.bad /\ s.end /\ a = None /\ Survives
            /\ Fails /\ sig' = read
            /\ \/ UNCHANGED words
               \/ "unbound" \in Liberties /\ words' = Added(f, effect, read)
         \/ /\ ~s.bad /\ s.end /\ a \in Addrs /\ Survives
            /\ sig' = [read EXCEPT !.handle = [object |-> node[a].object, function |-> f]]
            /\ UNCHANGED words \/ words' = Added(f, effect, sig')
            /\ Succeeds
  /\ UNCHANGED <<list, effort>> /\ called' = NoCall

-----------------------------------------------------------------------------
(* Calls.                                                                  *)

\* How many of n arguments go on the C stack.
Extra(n) == IF n > Registers THEN n - Registers ELSE 0

Cell(k) == IF k \in DOMAIN stack THEN stack[k] ELSE Junk

\* Mutant: the top of the stack goes into the first register.
ArgumentsReversed(n) ==
  [j \in 1 .. n |-> IF j <= Registers THEN Cell(Len(stack) + 1 - j) ELSE Junk]

\* What the C function is given of n arguments: those for the C stack come from
\* n - Registers cells below where the registers' end.
Arguments(n) ==
  LET below == Len(stack) - n
  IN  [j \in 1 .. n |-> IF j <= Registers THEN Cell(below + j) ELSE Cell(Len(stack) - j)]

\* Mutant: the arguments stay.
RestWithArguments(w) == stack

\* The stack without the arguments.
Rest(w) == SubSeq(stack, 1, Len(stack) - w.sig.count)

\* askf_trampoline: the C function runs on a stack of its own and returns v,
\* which is pushed whether there is room or not.
Call(i) ==
  /\ Ready
  /\ LET w == words[i]
         n == w.sig.count
     IN  \/ Len(stack) < n /\ Fails /\ Survives /\ UNCHANGED stack /\ called' = NoCall
         \/ /\ Len(stack) >= n /\ Succeeds
            /\ n > Registers => "many" \in Liberties
            /\ n = 0 /\ Len(stack) = Limit => "full" \in Liberties
            /\ IF w.sig.handle.object \in Loaded
               THEN /\ \E v \in Values :
                         /\ called' = [function |-> w.sig.handle.function, args |-> Arguments(n),
                                       aligned |-> Extra(n) % 2 = 0, result |-> v]
                         /\ stack' = IF w.sig.ret = "void" THEN Rest(w) ELSE Append(Rest(w), v)
                    /\ Survives
               ELSE Dies /\ UNCHANGED stack /\ called' = NoCall
  /\ UNCHANGED <<list, sig, words, effort>>

\* The program puts cells on the stack and takes them off.
Push(v) ==
  /\ Ready /\ Len(stack) < Limit /\ stack' = Append(stack, v)
  /\ UNCHANGED <<list, sig, words, failed, alive, effort>> /\ called' = NoCall

Drop ==
  /\ Ready /\ stack # << >> /\ stack' = Front(stack)
  /\ UNCHANGED <<list, sig, words, failed, alive, effort>> /\ called' = NoCall

\* The debugger's continue or abort.
Recover ==
  /\ alive /\ failed /\ failed' = FALSE
  /\ UNCHANGED <<list, sig, words, stack, alive, effort>> /\ called' = NoCall

Init ==
  /\ node = [a \in Addrs |-> [object |-> None, prev |-> None, next |-> None, live |-> FALSE,
                          born |-> 0]]
  /\ objects = None /\ recent = None
  /\ sig = [count |-> 0, void |-> FALSE, ret |-> "u64", handle |-> NoHandle]
  /\ words = << >> /\ stack = << >> /\ called = NoCall
  /\ failed = FALSE /\ alive = TRUE /\ effort = 0

Next ==
  \/ \E o \in Objects \cup {Missing} : Load(o) \/ Free(o)
  \/ \E f \in Functions, effect \in Effects : Declare(f, effect)
  \/ \E i \in DOMAIN words : Call(i)
  \/ \E v \in Values : Push(v)
  \/ Drop \/ Recover

Spec == Init /\ [][Next]_vars

-----------------------------------------------------------------------------
(* Properties.                                                             *)

TypeOK ==
  /\ node \in [Addrs -> [object: Objects \cup {None}, prev: Pointers, next: Pointers,
                         live: BOOLEAN, born: Nat]]
  /\ objects \in Addrs \cup {None} /\ recent \in Addrs \cup {None}
  /\ sig.count \in Nat /\ sig.ret \in Types
  /\ stack \in Seq(Values) /\ Len(stack) <= Limit
  /\ failed \in BOOLEAN /\ alive \in BOOLEAN

\* Every foreign word calls the function it was declared with, in a library that
\* is still loaded, and has the number of arguments and the kind of result its
\* own declaration states, though all declarations, those that failed included,
\* were read into one signature (words/askforth_words.c:3038-3212,
\* library/library.c:266-267).
WordsAsDeclared ==
  \A i \in DOMAIN words :
    LET w == words[i]
    IN  /\ w.sig.handle.function = w.name /\ w.sig.handle.object \in Loaded
        /\ w.sig.count = w.meant.params /\ (w.sig.ret # "void") = w.meant.result

\* As long as a loaded object has the function, whatever was loaded and freed
\* before and wherever the C library placed it, a search ends well; and a
\* declaration that succeeds binds the object loaded last of those that have it
\* (ffi/load_extern_library.c:62-91).
NewestBinds ==
  [][\A f \in Functions :
       LET having == {a \in Live : f \in Exports[node[a].object]}
       IN  /\ having # {} => ~Perishes(having)
           /\ words' # words /\ ~failed' /\ Last(words').name = f =>
                \E a \in having :
                  /\ Last(words').sig.handle = [object |-> node[a].object, function |-> f]
                  /\ \A b \in having : node[b].born <= node[a].born]_vars

\* The C function is given the cells its declaration names, the deepest first,
\* with the C stack aligned; it takes just these and leaves its result, if it
\* has one (ffi/load_extern_library.c:355-451, 503-522).
PassesArguments ==
  [][called' # NoCall =>
     \A i \in DOMAIN words : Call(i) =>
         LET w == words[i]
             below == Len(stack) - w.meant.params
         IN  /\ called'.function = w.name
             /\ called'.args = SubSeq(stack, below + 1, Len(stack))
             /\ called'.aligned
             /\ stack' = SubSeq(stack, 1, below)
                           \o IF w.meant.result THEN << called'.result >> ELSE << >>]_vars
=============================================================================
