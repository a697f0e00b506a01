------------------------------ MODULE Compiler -------------------------------
(***************************************************************************)
(* The compiler of AskForth: the words that write threaded code, and the   *)
(* memory they write it to.                                                *)
(*                                                                         *)
(* Memory is handed out upwards and never taken back.  The cell that the   *)
(* next value will be compiled into (here) is allocated when the value     *)
(* before it is written, so code is in one piece only as long as nothing   *)
(* else is allocated in between, except behind an operation that skips it. *)
(* IF, ELSE, BEGIN and WHILE leave addresses on the control-flow stack;    *)
(* ELSE, THEN and REPEAT write offsets to the addresses they find there.   *)
(*                                                                         *)
(* An address counts units; a cell has Cell of them.                       *)
(***************************************************************************)
EXTENDS Integers, Sequences, SequencesExt, FiniteSetsExt

CONSTANTS
  Ram,         \* units of memory
  Cell,        \* units of a cell (8 bytes)
  CfLimit,     \* cells of the control-flow stack (16)
  NameSize,    \* units of a name
  WordSize,    \* units of an AskForth_Word
  MessageSize, \* units of an AskForthErrorMessage, and of its text
  StringSize,  \* units of a string, without its terminator
  Sizes,       \* what a program allots
  MaxWords,    \* a bound on the words of a session
  MaxEffort,   \* and on its tokens, one that is not control flow counting twice
  Vocabulary,  \* the kinds of tokens the program uses
  Liberties,   \* what the program does that the compiler does not expect
  Closed       \* no definition is open

Addresses == Cell .. Cell + Ram - 1
Null == 0

ASSUME MemoryAssumption ==
  /\ Cell \in Nat \ {0} /\ Ram \in Nat /\ Ram % Cell = 0
  /\ CfLimit \in Nat /\ MaxWords \in Nat /\ MaxEffort \in Nat
  /\ {NameSize, WordSize, MessageSize, StringSize} \subseteq Nat \ {0}
  /\ Sizes \subseteq Nat

ControlKinds == {"if", "else", "then", "begin", "while", "repeat"}
TokenKinds == ControlKinds \cup {"lit", "native", "foreign", "word", "exit", "skip", "error"}
Tokens == TokenKinds \X Nat

\* No text is taken for the lack of one.
ASSUME TextAssumption == Closed \notin Seq(Tokens)

VARIABLES
  mem,     \* the cells written, at the address of their first unit
  top,     \* ram->byte_index, as an address
  here,    \* curr_compiling.here
  cf,      \* the control-flow stack
  c00,     \* what words that compile leave in global_c00
  interp,  \* vm->interpret_state
  words,   \* the words defined, the last one being curr_compiling.word
  failed,  \* the debugger waits, after a typing error or after a word failed
  alive,   \* the process has not been ended by an access outside memory
  text,    \* history: the tokens of the open definition
  effort   \* how many tokens were typed

vars == <<mem, top, here, cf, c00, interp, words, failed, alive, text, effort>>

OpCell(op) == <<"op", op>>
Num(n)     == <<"n", n>>
At(a)      == <<"at", a>>
Chars      == <<"chars", 0>>
Blank      == <<"none", 0>>

-----------------------------------------------------------------------------
(* Memory and the control-flow stack, as functions of the state s.         *)

Now == [mem |-> mem, top |-> top, here |-> here, cf |-> cf, c00 |-> c00, alive |-> alive]

Becomes(s) ==
  /\ mem' = s.mem /\ top' = s.top /\ here' = s.here
  /\ cf' = s.cf /\ c00' = s.c00 /\ alive' = s.alive

\* askf_blob_alloc: what is left is an unsigned number, and all of it is too much.
Room(n, s) ==
  LET left == Cell + Ram - s.top
  IN  left < 0 \/ left > n

\* The caller writes to what it gets, also to a null pointer.
Alloc(n, s) == IF Room(n, s) THEN [s EXCEPT !.top = @ + n] ELSE [s EXCEPT !.alive = FALSE]

Aligned(s) == [s EXCEPT !.top = ((@ + Cell - 1) \div Cell) * Cell]

\* A program allots no more than there is.
Allots(n, s) == s.top + n <= Cell + Ram \/ "overrun" \in Liberties

\* Mutant: nobody looks whether there was a cell.
NewCellAnyway(s) == [s EXCEPT !.here = s.top, !.top = @ + Cell]

NewCell(s) == IF Room(Cell, s) THEN [s EXCEPT !.here = s.top, !.top = @ + Cell]
              ELSE [s EXCEPT !.here = Null]

Store(a, v, s) ==
  IF a \in Addresses
  THEN [s EXCEPT !.mem = [b \in DOMAIN s.mem \cup {a} |-> IF b = a THEN v ELSE s.mem[b]]]
  ELSE [s EXCEPT !.alive = FALSE]

\* askf_compile_threaded_memory
Put(v, s) == IF s.here = Null THEN s ELSE NewCell(Store(s.here, v, s))

\* The states on the way of putting the values, the last one last.
Puts(values, s) ==
  LET at[n \in 0 .. Len(values)] == IF n = 0 THEN s ELSE Put(values[n], at[n - 1])
  IN  at

PutAll(values, s) == Puts(values, s)[Len(values)]

PushCf(a, s) == IF Len(s.cf) >= CfLimit THEN s ELSE [s EXCEPT !.cf = Append(@, a)]

\* An empty stack leaves the register as it is.
PopCf(s) == IF s.cf = << >> THEN s ELSE [s EXCEPT !.c00 = Last(s.cf), !.cf = Front(@)]

-----------------------------------------------------------------------------
(* Reading code, as the executor does.                                     *)

CodeAt(a, m) == IF a \in DOMAIN m THEN m[a] ELSE Blank
Operand(a, m) == CodeAt(a + Cell, m)

Branches == {"0branch", "branch"}

\* The units of the operation at address a; a skip has its bytes behind it.
Size(a, m) ==
  LET op == m[a][2]
  IN  CASE op = "lit" \/ op = "foreign" \/ op \in Branches -> 2 * Cell
        [] op = "native" \/ op = "word" -> 3 * Cell
        [] op = "skip"  -> 2 * Cell + Operand(a, m)[2]
        [] op = "error" -> 5 * Cell
        [] op = "end"   -> Cell

IsOp(a, m) == CodeAt(a, m)[1] = "op" /\ CodeAt(a, m)[2] # "redzone"

\* The addresses of the operations from address a to the end of the word.
Sweep(m) ==
  LET from[a \in Addresses] ==
        LET next == a + Size(a, m)
        IN  IF ~IsOp(a, m) THEN << >>
            ELSE << a >> \o (IF next \in Addresses THEN from[next] ELSE << >>)
  IN  from

\* A pointer stands for what it points to.
Argument(a, m) ==
  LET op == m[a][2]
      behind == CASE op = "lit" -> Operand(a, m)
                  [] op = "native" \/ op = "word" -> CodeAt(a + 2 * Cell, m)
                  [] op = "foreign" -> Operand(a, m)
                  [] op = "error" -> CodeAt(a + 2 * Cell, m)
                  [] OTHER -> Num(0)
  IN  IF behind[1] = "at" THEN CodeAt(behind[2], m) ELSE behind

Targets(a, m) ==
  LET op == m[a][2]
      branched == a + Cell + Operand(a, m)[2]
  IN  CASE op = "0branch" -> << a + Size(a, m), branched >>
        [] op = "branch"  -> << branched >>
        [] op = "end"     -> << >>
        [] OTHER -> << a + Size(a, m) >>

Code(a, m) == IF a \in Addresses THEN Sweep(m)[a] ELSE << >>

\* The graph of the code from address a, its operations numbered from 1.
Decoded(a, m) ==
  LET graph[at \in {Code(a, m)}] ==
        LET Number(b) == Max({0} \cup {n \in DOMAIN at : at[n] = b})
        IN  [n \in DOMAIN at |-> [op |-> m[at[n]][2], arg |-> Argument(at[n], m)[2],
                                  next |-> [i \in DOMAIN Targets(at[n], m) |->
                                              Number(Targets(at[n], m)[i])]]]
  IN  graph[Code(a, m)]

\* Mutant: a branch is taken to have two operands.
SeenLong(a, m) ==
  LET from[b \in Addresses] ==
        LET c == CodeAt(b, m)
            onward == CASE c[1] # "op" \/ c[2] \in {"foreign", "end", "error"} -> b + Cell
                        [] c[2] = "skip" -> b + Cell + Operand(b, m)[2]
                        [] c[2] = "lit" -> b + 2 * Cell
                        [] OTHER -> b + 3 * Cell
            named == IF c[1] = "op" /\ c[2] # "foreign" THEN << c[2] >> ELSE << >>
        IN  IF c = OpCell("redzone") THEN << >>
            ELSE named \o (IF onward \in Addresses THEN from[onward] ELSE << "lost" >>)
  IN  IF a \in Addresses THEN from[a] ELSE << >>

\* What `see` names, walking the code of a complete word: it does not know the
\* operation of foreign words, and takes the last cell that a skip skips for an
\* operation.
Seen(a, m) ==
  LET from[b \in Addresses] ==
        LET c == CodeAt(b, m)
            onward == CASE c[1] # "op" \/ c[2] \in {"foreign", "end", "error"} -> b + Cell
                        [] c[2] = "skip" -> b + Cell + Operand(b, m)[2]
                        [] c[2] \in Branches \cup {"lit"} -> b + 2 * Cell
                        [] OTHER -> b + 3 * Cell
            named == IF c[1] = "op" /\ c[2] # "foreign" THEN << c[2] >> ELSE << >>
        IN  IF c = OpCell("redzone") THEN << >>
            ELSE named \o (IF onward \in Addresses THEN from[onward] ELSE << "lost" >>)
  IN  IF a \in Addresses THEN from[a] ELSE << >>

-----------------------------------------------------------------------------
Done == SelectSeq(words, LAMBDA w : w.done)
Programs == [i \in DOMAIN Done |-> Decoded(Done[i].start, mem)]

Promise == INSTANCE StructuredCode WITH programs <- Programs

Nest == IF text = Closed THEN << >> ELSE Promise!Nest(text)

Ready == alive /\ failed = "no"
Compiling == Ready /\ interp = "compile"

Counted(kind) ==
  /\ kind \in Vocabulary
  /\ effort' = effort + (IF kind \in ControlKinds THEN 1 ELSE 2)
  /\ effort' <= MaxEffort

Fits(kind) ==
  /\ Counted(kind)
  /\ Promise!Accepts(Nest, kind) \/ "unbalanced" \in Liberties
  /\ kind \in {"if", "begin", "while"} => Len(cf) < CfLimit \/ "deep" \in Liberties

\* The tokens are typed, and the state becomes s.
Types(tokens, s) ==
  /\ Becomes(s)
  /\ text' = IF text = Closed THEN Closed ELSE text \o tokens
  /\ UNCHANGED <<interp, words, failed>>

-----------------------------------------------------------------------------
(* Beginning and ending a definition.                                      *)

\* :, CREATE-WORD and :NONAME; only : keeps a copy of the name.
Header(named, s) ==
  LET name == IF named THEN Aligned(Alloc(NameSize, Aligned(s))) ELSE Aligned(s)
  IN  NewCell(Aligned(Alloc(WordSize, name)))

Colon(named) ==
  /\ Ready /\ interp = "interpret" /\ Len(words) < MaxWords
  /\ text = Closed \/ "nested" \in Liberties
  /\ LET s == Header(named, Now)
     IN  /\ Becomes(s)
         /\ words' = Append(words, [start |-> s.here, inline |-> FALSE, done |-> FALSE,
                                    body |-> << >>])
  /\ IF named THEN UNCHANGED effort ELSE Counted("noname")
  /\ interp' = "compile" /\ text' = << >>
  /\ UNCHANGED failed

\* A word whose memory ran out is not complete, but nothing says so.
Semicolon ==
  /\ Compiling
  /\ text # Closed => Nest = << >> \/ "unbalanced" \in Liberties
  /\ LET ended == Put(OpCell("end"), Now)
     IN  /\ Becomes(Put(OpCell("redzone"), ended))
         /\ words' = IF text = Closed THEN words
                     ELSE [words EXCEPT ![Len(words)].done = ended.here # Null,
                                        ![Len(words)].body = text]
  /\ interp' = "interpret" /\ text' = Closed
  /\ UNCHANGED <<failed, effort>>

\* INLINE; a word with EXIT in it is copied only up to there.
Inline ==
  /\ Ready /\ text = Closed /\ Counted("inline")
  /\ words # << >> /\ Last(words).done /\ ~Last(words).inline
  /\ "exit" \in Liberties \/ \A i \in DOMAIN Last(words).body : Last(words).body[i][1] # "exit"
  /\ words' = [words EXCEPT ![Len(words)].inline = TRUE]
  /\ UNCHANGED <<mem, top, here, cf, c00, interp, failed, alive, text>>

-----------------------------------------------------------------------------
(* Tokens that compile code in one piece.                                  *)

\* A number, and LITERAL and RLITERAL.
Number ==
  /\ Compiling /\ Fits("lit")
  /\ Types(<< <<"lit", 1>> >>, PutAll(<< OpCell("lit"), Num(1) >>, Now))

\* A native or foreign word, and POSTPONE and COMPILE, of one.
Native ==
  /\ Compiling /\ Fits("native")
  /\ Types(<< <<"native", 1>> >>, PutAll(<< OpCell("native"), Num(0), Num(1) >>, Now))

Foreign ==
  /\ Compiling /\ Fits("foreign")
  /\ Types(<< <<"foreign", 1>> >>, PutAll(<< OpCell("foreign"), Num(1) >>, Now))

\* A threaded word is called; the word being defined may be.
Call(w) ==
  /\ Compiling /\ Fits("word") /\ ~words[w].inline
  /\ Types(<< <<"word", w>> >>, PutAll(<< OpCell("word"), Num(words[w].start), Num(w) >>, Now))

\* The cells of word w up to the first endword at a stride of cells; without
\* one the copy leaves memory.
Ends(w) == {k \in 0 .. Ram : CodeAt(words[w].start + k * Cell, mem) = OpCell("end")}

\* Mutant: the endword ends the inlined code, too.
CopyWhole(w, s) ==
  IF Ends(w) = {} THEN [s EXCEPT !.alive = FALSE]
  ELSE PutAll([k \in 1 .. Min(Ends(w)) + 1 |-> CodeAt(words[w].start + (k - 1) * Cell, mem)], s)

Copy(w, s) ==
  IF Ends(w) = {} THEN [s EXCEPT !.alive = FALSE]
  ELSE PutAll([k \in 1 .. Min(Ends(w)) |-> CodeAt(words[w].start + (k - 1) * Cell, mem)], s)

\* An inline word is copied, its data included.  If data of odd size leaves it
\* unaligned, only a copy without end is modelled.
CallInline(w) ==
  /\ Compiling /\ Fits("word") /\ words[w].inline /\ words[w].done
  /\ text # Closed
  /\ Ends(w) = {} \/ \A a \in ToSet(Code(words[w].start, mem)) : (a - words[w].start) % Cell = 0
  /\ Types(words[w].body, Copy(w, Now))

Exit ==
  /\ Compiling /\ Fits("exit")
  /\ Types(<< <<"exit", 0>> >>, Put(OpCell("end"), Now))

-----------------------------------------------------------------------------
(* Data between operations.                                                *)

\* ALLOT, called by an immediate word.
Allot(n) ==
  /\ Compiling /\ Fits("skip") /\ here # Null
  /\ LET s == Put(OpCell("skip"), Now)
     IN  Allots(n, s) /\ Types(<< <<"skip", 0>> >>, Put(Num(n), [s EXCEPT !.top = @ + n]))

\* Mutant: the alignment behind the string is not skipped.
SkippedUnaligned(s) ==
  LET skip == Put(OpCell("skip"), s)
      copied == Store(skip.top, Chars, Alloc(StringSize + 1, skip))
  IN  Put(Num(StringSize + 1), Aligned(copied))

\* The characters with a terminator and up to a whole cell, and the skip over them.
Skipped(s) ==
  LET skip == Put(OpCell("skip"), s)
      copied == Store(skip.top, Chars, Alloc(StringSize + 1, skip))
      aligned == Aligned(copied)
  IN  Put(Num(StringSize + 1 + aligned.top - copied.top), aligned)

\* Where Skipped puts the characters.
StringAt(s) == At(Put(OpCell("skip"), s).top)

\* s", and ." which also types them.
String(typed) ==
  /\ Compiling /\ Fits("string")
  /\ LET pushed == << OpCell("lit"), StringAt(Now), OpCell("lit"), Num(StringSize) >>
         type == IF typed THEN << OpCell("native"), Num(0), Num(1) >> ELSE << >>
         tokens == << <<"skip", 0>>, <<"lit", 0>>, <<"lit", StringSize>> >>
     IN  Types(IF typed THEN Append(tokens, <<"native", 1>>) ELSE tokens,
               PutAll(pushed \o type, Skipped(Now)))

\* error"
ErrorString ==
  /\ Compiling /\ Fits("error")
  /\ Types(<< <<"skip", 0>>, <<"error", 0>> >>,
           PutAll(<< OpCell("error"), OpCell("lit"), StringAt(Now),
                     OpCell("lit"), Num(StringSize) >>, Skipped(Now)))

-----------------------------------------------------------------------------
(* Control flow.                                                           *)

\* IF and WHILE: the operand's address is left on the stack.
ZeroBranch(kind) ==
  /\ Compiling /\ Fits(kind)
  /\ LET op == Put(OpCell("0branch"), Now)
     IN  Types(<< <<kind, 0>> >>, NewCell([PushCf(op.here, op) EXCEPT !.c00 = op.here]))

\* Mutant: the branch taken when IF's flag is false starts with ELSE's operand.
ElseEarly ==
  /\ Compiling /\ Fits("else") /\ cf # << >>
  /\ LET popped == PopCf(Now)
         op == NewCell(Store(here, OpCell("branch"), popped))
     IN  Types(<< <<"else", 0>> >>,
               Store(popped.c00, Num(op.here - popped.c00), NewCell(PushCf(op.here, op))))

\* Mutant: THEN is to find the address that IF left.
ElseUnpushed ==
  /\ Compiling /\ Fits("else") /\ cf # << >>
  /\ LET popped == PopCf(Now)
         next == NewCell(NewCell(Store(here, OpCell("branch"), popped)))
     IN  Types(<< <<"else", 0>> >>, Store(popped.c00, Num(next.here - popped.c00), next))

\* Without an address on the stack ELSE fails (see Fails).
Else ==
  /\ Compiling /\ Fits("else") /\ cf # << >>
  /\ LET popped == PopCf(Now)
         op == NewCell(Store(here, OpCell("branch"), popped))
         next == NewCell(PushCf(op.here, op))
     IN  Types(<< <<"else", 0>> >>, Store(popped.c00, Num(next.here - popped.c00), next))

\* Mutant: the oldest address is taken for the newest.
ThenOldest ==
  /\ Compiling /\ Fits("then")
  /\ LET popped == IF cf = << >> THEN Now ELSE [Now EXCEPT !.c00 = cf[1], !.cf = Tail(@)]
     IN  Types(<< <<"then", 0>> >>, Store(popped.c00, Num(here - popped.c00), popped))

Then ==
  /\ Compiling /\ Fits("then")
  /\ LET popped == PopCf(Now)
     IN  Types(<< <<"then", 0>> >>, Store(popped.c00, Num(here - popped.c00), popped))

Begin ==
  /\ Compiling /\ Fits("begin")
  /\ Types(<< <<"begin", 0>> >>, [PushCf(here, Now) EXCEPT !.c00 = here])

\* Without two addresses on the stack REPEAT fails (see Fails).
Repeat ==
  /\ Compiling /\ Fits("repeat") /\ Len(cf) >= 2
  /\ LET while == PopCf(Now)
         begin == PopCf(while)
         op == Put(OpCell("branch"), begin)
         s == Put(Num(begin.c00 - op.here), op)
     IN  Types(<< <<"repeat", 0>> >>,
               [Store(while.c00, Num(s.here - while.c00), s) EXCEPT !.c00 = while.c00])

-----------------------------------------------------------------------------
(* What happens beside compiling.                                          *)

\* [ and ]
Bracket ==
  /\ Ready /\ Counted("[")
  /\ text # Closed \/ "nested" \in Liberties
  /\ interp' = IF interp = "compile" THEN "interpret" ELSE "compile"
  /\ UNCHANGED <<mem, top, here, cf, c00, words, failed, alive, text>>

\* ALLOT or s" while interpreting.
Allocate(n) ==
  /\ Ready /\ interp = "interpret" /\ Counted("allocate")
  /\ text = Closed \/ "allocate" \in Liberties
  /\ Allots(n, Now)
  /\ Becomes([Now EXCEPT !.top = @ + n])
  /\ UNCHANGED <<interp, words, failed, text>>

\* A token that is no word and no number.
Mistype ==
  /\ Compiling /\ Counted("typo")
  /\ failed' = "typo"
  /\ UNCHANGED <<mem, top, here, cf, c00, interp, words, alive, text>>

\* An immediate word fails: its message is allocated.
Fails ==
  /\ Compiling /\ Counted("fails")
  /\ Becomes(Alloc(MessageSize, Aligned(Alloc(MessageSize, Aligned(Now)))))
  /\ failed' = "word"
  /\ UNCHANGED <<interp, words, text>>

\* The debugger's commands; abort leaves the control-flow stack as it is.
DebuggerContinue ==
  /\ alive /\ failed # "no"
  /\ failed = "typo" \/ "continue" \in Liberties
  /\ failed' = "no"
  /\ UNCHANGED <<mem, top, here, cf, c00, interp, words, alive, text, effort>>

DebuggerAbort ==
  /\ alive /\ failed # "no"
  /\ failed' = "no" /\ interp' = "interpret" /\ text' = Closed
  /\ UNCHANGED <<mem, top, here, cf, c00, words, alive, effort>>

\* The word ABORT, inside brackets or outside of a definition.
Abort ==
  /\ Ready /\ interp = "interpret" /\ Counted("abort")
  /\ cf' = << >> /\ text' = Closed
  /\ UNCHANGED <<mem, top, here, c00, interp, words, failed, alive>>

Init ==
  /\ mem = << >> /\ top = Cell /\ here = Null
  /\ cf = << >> /\ c00 = Null
  /\ interp = "interpret" /\ words = << >> /\ failed = "no" /\ alive = TRUE
  /\ text = Closed /\ effort = 0

Next ==
  \/ \E named \in BOOLEAN : Colon(named)
  \/ Semicolon \/ Inline
  \/ Number \/ Native \/ Foreign \/ Exit
  \/ \E w \in DOMAIN words : Call(w) \/ CallInline(w)
  \/ \E n \in Sizes : Allot(n) \/ Allocate(n)
  \/ \E typed \in BOOLEAN : String(typed)
  \/ ErrorString
  \/ \E kind \in {"if", "while"} : ZeroBranch(kind)
  \/ Else \/ Then \/ Begin \/ Repeat
  \/ Bracket \/ Mistype \/ Fails \/ DebuggerContinue \/ DebuggerAbort \/ Abort

Spec == Init /\ [][Next]_vars

-----------------------------------------------------------------------------
(* Properties.                                                             *)

\* The type invariant: as long as the process lives, what is compiled goes to a
\* cell of memory or nowhere, and so does what is patched.
TypeOK ==
  /\ DOMAIN mem \subseteq Addresses
  /\ alive => here \in Addresses \cup {Null} /\ c00 \in Addresses \cup {Null}
  /\ alive => \A i \in DOMAIN cf : cf[i] \in Addresses \cup {Null}
  /\ Len(cf) <= CfLimit
  /\ top \in Nat
  /\ interp \in {"interpret", "compile"} /\ failed \in {"no", "typo", "word"}
  /\ alive \in BOOLEAN

\* Every definition, whatever is nested in it, compiles to the graph its text
\* means, and what is compiled, patched, allocated, given up or run out of
\* later leaves the meaning of complete words alone (library/library.c:322-338,
\* words/askforth_words.c:2360-2507; GUIDE/05-control-flow.md).
KeepsMeaning == [][Promise!Next]_<<text, Programs>>

\* No step writes below the definition that is being compiled or was compiled
\* last, not even one that follows a definition given up with open control flow
\* (words/askforth_words.c:2405-2507, fallback_loop/fallback.c:440-456).
WritesNewest ==
  [][\A a \in DOMAIN mem' :
       CodeAt(a, mem) # mem'[a] => words # << >> /\ (Last(words).start = Null \/ a >= Last(words).start)]_vars

\* The control-flow stack ends with the addresses of what is open in the text,
\* in the code of its word (words/askforth_words.c:2360-2507).
OpenInOwnCode ==
  text # Closed /\ alive /\ here # Null =>
    /\ Len(cf) >= Len(Promise!Nest(text))
    /\ \A i \in 1 .. Len(Promise!Nest(text)) :
         cf[Len(cf) + 1 - i] \in Last(words).start .. here

\* What `see` names of a complete word is what was compiled, foreign words apart:
\* for an error also the pointer and the length behind it
\* (GUIDE/03-defining-words.md:201, words/askforth_words.c:2905-2962).
SeesCode ==
  \A i \in DOMAIN Done :
    (\A k \in DOMAIN Done[i].body : Done[i].body[k][1] # "foreign") =>
      LET seen == Seen(Done[i].start, mem)
          Names(o) == IF o.op = "error" THEN << "error", "lit", "lit" >> ELSE << o.op >>
      IN  seen = FlattenSeq([n \in DOMAIN Programs[i] |-> Names(Programs[i][n])])
=============================================================================
