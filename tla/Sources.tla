------------------------------- MODULE Sources -------------------------------
(***************************************************************************)
(* The input stack of AskForth with what is in its buffers: lines of the   *)
(* keyboard and of included files, strings given to EVALUATE, blocks given *)
(* to LOAD; the tokens taken from them; REFILL, which askf_exec calls at   *)
(* the end of a line, comments call, and programs may call; and what all   *)
(* this does to the data stack, over which names and flags are passed.     *)
(*                                                                         *)
(* A text is a sequence of symbols; symbols between blanks are a token.    *)
(* ThreadedVM has the order of tokens and words when words are compiled;   *)
(* here all words come from a text.                                        *)
(***************************************************************************)
EXTENDS Integers, Sequences, SequencesExt

CONSTANTS
  Symbols,    \* what texts are made of
  Library,    \* what the files may hold: functions of their names
  Volumes,    \* what the blocks may hold: sequences of texts of one size
  Strings,    \* Strings[w]: what the word w pushes, with the byte behind it
  Lines,      \* what users type
  BufferSize, \* of a line of a file, with a byte for its end
  Capacity,   \* of the input stack
  Limit,      \* of the data stack
  MaxLines    \* bound: lines that are typed

ASSUME SourcesAssumption ==
  /\ {" ", "\r", "\n", "nul"} \subseteq Symbols /\ "" \notin Symbols
  /\ \A l \in Library : DOMAIN l \subseteq Symbols /\ \A f \in DOMAIN l : l[f] \in Seq(Symbols)
  /\ \A v \in Volumes : v \in Seq(Seq(Symbols))
  /\ \A w \in DOMAIN Strings : Strings[w] \in Seq(Symbols)
  /\ \A line \in Lines : line \in Seq(Symbols)
  /\ BufferSize \in Nat /\ BufferSize > 1
  /\ Capacity \in Nat \ {0} /\ Limit \in Nat \ {0, 1} /\ MaxLines \in Nat

VARIABLES
  files, blocks, \* what there is to read, the same all the time
  sources,    \* vm->istack: the keyboard first, the current source last
  comment,    \* which source ( is reading, or 0
  stack, c00, \* the data stack; the register of the native words
  failed,     \* a word has failed and the debugger waits
  alive,      \* the process runs, with an index that is one of its stack
  typed,      \* lines so far
  tick        \* history: turns with every step of the machine

texts == <<files, blocks>>
vars == <<texts, sources, comment, stack, c00, failed, alive, typed, tick>>

-----------------------------------------------------------------------------
(* Texts.                                                                  *)

Blanks == {" ", "\r", "\n", "nul"}

\* A blank ends a token.
Whole(c) == IF c.token = << >> THEN c.tokens ELSE Append(c.tokens, c.token)
Cut(c, symbol) ==
  IF symbol \in Blanks THEN [tokens |-> Whole(c), token |-> << >>]
  ELSE [tokens |-> c.tokens, token |-> Append(c.token, symbol)]

\* The tokens of a text, by their definition: what is between its blanks, also
\* behind the last one.
Tokens(text) ==
  LET cut[i \in 0 .. Len(text)] == IF i = 0 THEN [tokens |-> << >>, token |-> << >>]
                                   ELSE Cut(cut[i - 1], text[i])
  IN  Whole(cut[Len(text)])

\* What is left of a source's line, and of its file.
Rest(s) == SubSeq(s.base, s.in + 1, s.max)
RestOfFile(s) == IF s.file = "" THEN << >> ELSE SubSeq(files[s.file], s.at + 1, Len(files[s.file]))

\* A source: a buffer, what is taken and what is valid of it, a number that says
\* what it is (0, -1 or the file's), a block's number or 0, the file's name and
\* how much of it was read.  History: the whole text, and the tokens taken or
\* passed over.
Source(id, blk, file, at, base, max, text) ==
  [id |-> id, blk |-> blk, file |-> file, at |-> at, base |-> base, in |-> 0, max |-> max,
   text |-> text, read |-> << >>]

Keyboard(line) == Source(0, 0, "", 0, Append(line, "nul"), Len(line), line)
Evaluated(text) == Source(-1, 0, "", 0, text, Len(text), text)
Block(n) == Source(0, n, "", 0, blocks[n], Len(blocks[n]), blocks[n])

\* Where the first symbol of a text is that is, or is not, a blank; 0 if there is
\* none.
FirstSymbol(text) == SelectInSeq(text, LAMBDA c : c \notin Blanks)
FirstBlank(text) == SelectInSeq(text, LAMBDA c : c \in Blanks)

\* The source s behind n more symbols, of which token is one.
Behind(s, n, token) == [s EXCEPT !.in = @ + n, !.read = Append(@, token)]
NoToken(s) == [token |-> << >>, ends |-> FALSE,
               source |-> IF s.in < s.max THEN [s EXCEPT !.in = s.max] ELSE s]

\* askf_next_token: the token, whether it ends its line, and the source behind it
\* and its blank.  A token that no blank follows in the buffer is none.
NextToken(s) ==
  LET rest == Rest(s)
      skip == FirstSymbol(rest) - 1
      size == FirstBlank(SubSeq(rest, skip + 1, Len(rest))) - 1
  IN  IF skip < 0 \/ size < 0 THEN NoToken(s)
      ELSE [token |-> SubSeq(rest, skip + 1, skip + size),
            ends |-> rest[skip + size + 1] \in {"\n", "nul"},
            source |-> Behind(s, skip + size + 1, SubSeq(rest, skip + 1, skip + size))]

\* _askf_custom_fgets: a line of f behind its first `at` characters, where the
\* next one begins, and whether the end of the file was met.  A carriage return
\* ends a line; it is in the line if a line feed follows.
FileLine(f, at) ==
  LET text == files[f]
      last == Min({Len(text), at + BufferSize - 1})
      end  == {i \in at + 1 .. last : text[i] \in {"\r", "\n"}}
      i    == Min(end)
      crlf == text[i] = "\r" /\ i < Len(text) /\ text[i + 1] = "\n"
  IN  IF end = {} THEN [line |-> SubSeq(text, at + 1, last), at |-> last, eof |-> last < at + BufferSize - 1]
      ELSE [line |-> SubSeq(text, at + 1, IF text[i] = "\n" \/ crlf THEN i ELSE i - 1),
            at |-> IF crlf THEN i + 1 ELSE i, eof |-> FALSE]

\* Texts as users write them: a line feed ends every line of a file, with or
\* without a carriage return, and lines fit the buffer; what else is read ends
\* in a blank.
EndsLines(text) ==
  \A i \in 1 .. Len(text) : text[i] = "\r" => i < Len(text) /\ text[i + 1] = "\n"
Fits(text) ==
  \A i \in 1 .. Len(text) :
    \E j \in i .. Len(text) : j <= i + BufferSize - 2 /\ text[j] = "\n"
EndsBlank(text) == text # << >> => Last(text) \in Blanks
Tidy ==
  /\ \A l \in Library : \A f \in DOMAIN l : EndsLines(l[f]) /\ Fits(l[f])
  /\ \A v \in Volumes : \A n \in DOMAIN v : EndsBlank(v[n])
  /\ \A w \in DOMAIN Strings : EndsBlank(Strings[w])
  /\ \A line \in Lines : EndsBlank(line)

-----------------------------------------------------------------------------
(* Cells, and the state a word works on.                                   *)

FORTH_TRUE  == <<"number", -1>>
FORTH_FALSE == <<"number", 0>>
Addr(text)  == <<"addr", text>>   \* the address of text; the null pointer for none
Length      == <<"length", 0>>

Now == [sources |-> sources, stack |-> stack, c00 |-> c00]
Becomes(m) == sources' = m.sources /\ stack' = m.stack /\ c00' = m.c00

Push(v, m) == IF Len(m.stack) < Limit THEN [m EXCEPT !.stack = Append(@, v)] ELSE m
PushC00(v, m) == Push(v, [m EXCEPT !.c00 = v])
PopC00(m) == [m EXCEPT !.stack = Front(@), !.c00 = Last(m.stack)]

SetTop(s, m) == [m EXCEPT !.sources[Len(m.sources)] = s]

\* Mutant: there is always room.
PushSourceUnchecked(s, m) == [m EXCEPT !.sources = Append(@, s)]

\* askf_istack_push, askf_istack_pop
PushSource(s, m) ==
  IF Len(m.sources) < Capacity THEN [m EXCEPT !.sources = Append(@, s)] ELSE m
PopSource(m) == IF Len(m.sources) > 1 THEN [m EXCEPT !.sources = Front(@)] ELSE m

-----------------------------------------------------------------------------
(* REFILL.                                                                 *)

\* Mutant: reading goes on where it was in the line before.
NextLineBehind(s) ==
  LET r == FileLine(s.file, s.at)
  IN  [s EXCEPT !.base = Append(r.line, "nul"), !.at = r.at, !.max = Len(r.line),
                !.read = @ \o Tokens(Rest(s))]

\* The source s with the next line of its file; what was left is passed over.
NextLine(s) ==
  LET r == FileLine(s.file, s.at)
  IN  [s EXCEPT !.base = Append(r.line, "nul"), !.at = r.at, !.in = 0, !.max = Len(r.line),
                !.read = @ \o Tokens(Rest(s))]

\* Mutant: the end of a file leaves no flag.
FileEndsUnflagged(m) == [PopSource(m) EXCEPT !.c00 = FORTH_FALSE]

\* At the end of a file the flag is set when it has been pushed.
FileEnds(m) == [Push(m.c00, PopSource(m)) EXCEPT !.c00 = FORTH_FALSE]

\* askf_word_refill; line is what the user types if asked.  A line of nothing
\* that is not the end of the file leaves no flag, and neither does a block.
Refill(line, m) ==
  LET s == Last(m.sources)
      r == FileLine(s.file, s.at)
  IN  CASE s.id = -1 -> PushC00(FORTH_FALSE, m)
        [] s.blk > 0 -> SetTop(Block(s.blk + 1), m)
        [] s.id = 0 /\ s.blk = 0 -> PushC00(FORTH_TRUE, SetTop(Keyboard(line), m))
        [] s.id > 0 ->
             IF r.eof /\ r.line = << >> THEN FileEnds(m)
             ELSE IF r.line = << >> THEN SetTop(NextLine(s), m)
             ELSE PushC00(FORTH_TRUE, SetTop(NextLine(s), m))

\* Behind the last block there is nothing to read.
Readable(m) == LET s == Last(m.sources) IN s.blk > 0 => s.blk < Len(blocks)

\* REFILL is called; the user is asked if the keyboard is the current source.
Asks(m) == LET s == Last(m.sources) IN s.id = 0 /\ s.blk = 0
Refills(m, Then(_)) ==
  IF Asks(m) THEN /\ typed < MaxLines /\ typed' = typed + 1
                  /\ \E line \in Lines : Then(Refill(line, m))
  ELSE UNCHANGED typed /\ Then(Refill(<< >>, m))

-----------------------------------------------------------------------------
(* The end of a text.                                                      *)

Reads == alive /\ ~failed /\ comment = 0
Next1 == NextToken(Last(sources))
AtEnd == Reads /\ Next1.token = << >>

\* Every step of the machine is one or the other.
Works == tick' = ~tick /\ UNCHANGED <<texts, failed, alive>>
Fails == tick' = ~tick /\ failed' = TRUE /\ UNCHANGED <<texts, alive>>
Dies  == tick' = ~tick /\ alive' = FALSE /\ UNCHANGED <<texts, failed>>

Ended == SetTop(Next1.source, Now)

\* Mutant: a string is not left.
LineEndUnpopped ==
  /\ AtEnd /\ UNCHANGED comment
  /\ IF Last(sources).id = -1
     THEN Becomes(Ended) /\ Works /\ UNCHANGED typed
     ELSE IF Last(sources).blk > 0 THEN Becomes(PopSource(Ended)) /\ Works /\ UNCHANGED typed
     ELSE Refills(Ended, LAMBDA m :
            IF m.stack = << >> THEN Becomes(m) /\ Dies
            ELSE Becomes([m EXCEPT !.stack = Front(@)]) /\ Works)

\* Mutant: a file is left at the end of its first line.
LineEndUnrefilled ==
  /\ AtEnd /\ UNCHANGED comment
  /\ IF Last(sources).blk > 0 \/ Last(sources).id # 0
     THEN Becomes(PopSource(Ended)) /\ Works /\ UNCHANGED typed
     ELSE Refills(Ended, LAMBDA m :
            IF m.stack = << >> THEN Becomes(m) /\ Dies
            ELSE Becomes([m EXCEPT !.stack = Front(@)]) /\ Works)

\* The end of askf_exec: a string or a block is left; otherwise the line is
\* refilled and the stack's index goes back by one.
LineEnd ==
  /\ AtEnd /\ UNCHANGED comment
  /\ IF Last(sources).blk > 0 \/ Last(sources).id = -1
     THEN Becomes(PopSource(Ended)) /\ Works /\ UNCHANGED typed
     ELSE Refills(Ended, LAMBDA m :
            IF m.stack = << >> THEN Becomes(m) /\ Dies
            ELSE Becomes([m EXCEPT !.stack = Front(@)]) /\ Works)

-----------------------------------------------------------------------------
(* Comments.                                                               *)

\* The word w is next; m is the state behind it.
Takes(w) == Reads /\ Next1.token = << w >>
Taken == SetTop(Next1.source, Now)

OpenComment ==
  /\ Takes("(") /\ comment' = Len(sources)
  /\ Becomes(Taken) /\ Works /\ UNCHANGED typed

\* The next token of the source that the comment is in.  When the source was
\* removed, its place on the stack has no more tokens.
InComment == alive /\ ~failed /\ comment # 0
Skimmed == IF comment <= Len(sources) THEN NextToken(sources[comment])
           ELSE [token |-> << >>, ends |-> FALSE]
InBlock == comment <= Len(sources) /\ sources[comment].blk > 0

\* Looking for a token has taken the blanks there were.
Spent == IF comment <= Len(sources) THEN [Now EXCEPT !.sources[comment] = Skimmed.source] ELSE Now

\* Mutant: only a parenthesis by itself.
ClosesAlone(token) == token = << ")" >>

Closes(token) == Last(token) = ")"

SkipComment ==
  /\ InComment /\ Skimmed.token # << >>
  /\ sources' = [sources EXCEPT ![comment] = Skimmed.source]
  /\ comment' = IF Closes(Skimmed.token) THEN 0 ELSE comment
  /\ Works /\ UNCHANGED <<stack, c00, typed>>

\* The flag of REFILL stays on the stack.
RefillComment ==
  /\ InComment /\ Skimmed.token = << >> /\ ~InBlock
  /\ Works /\ UNCHANGED comment
  /\ IF Readable(Spent) THEN Refills(Spent, LAMBDA m : Becomes(m))
     ELSE Becomes(Spent) /\ UNCHANGED typed

UnclosedInBlock ==
  /\ InComment /\ Skimmed.token = << >> /\ InBlock
  /\ comment' = 0 /\ Becomes(Spent) /\ Fails /\ UNCHANGED typed

\* `\`: to the token that ends its line, or to the last.
LineComment ==
  /\ Takes("\\") /\ UNCHANGED <<comment, stack, c00, typed>> /\ Works
  /\ LET s    == Next1.source
         Ends(i) == s.base[i] \in {"\n", "nul"} /\ i > s.in + 1 /\ s.base[i - 1] \notin Blanks
         end  == {i \in s.in + 1 .. s.max : Ends(i)}
         last == IF end = {} THEN s.max ELSE Min(end)
     IN  sources' = SetTop([s EXCEPT !.in = last, !.read = @ \o Tokens(SubSeq(s.base, s.in + 1, last))],
                           Now).sources

-----------------------------------------------------------------------------
(* Words.                                                                  *)

\* A word of n cells.
Expects(n, Do) == IF Len(stack) < n THEN Becomes(Taken) /\ Fails ELSE Do

\* REFILL in a program.
RefillWord ==
  /\ Takes("refill") /\ UNCHANGED comment
  /\ IF Readable(Taken) THEN Refills(Taken, LAMBDA m : Becomes(m)) /\ Works
     ELSE Becomes(Taken) /\ Dies /\ UNCHANGED typed

Number(n) ==
  /\ Takes(n) /\ n \in {"0", "1", "2"} /\ UNCHANGED <<comment, typed>> /\ Works
  /\ Becomes(Push(<<"number", CHOOSE k \in 0 .. 2 : <<"0", "1", "2">>[k + 1] = n>>, Taken))

String(w) ==
  /\ Takes(w) /\ UNCHANGED <<comment, typed>> /\ Works
  /\ Becomes(Push(Length, PushC00(Addr(Strings[w]), Taken)))

Drop ==
  /\ Takes("drop") /\ UNCHANGED <<comment, typed>>
  /\ Expects(1, Becomes(PopC00(Taken)) /\ Works)

\* A string becomes the current source, with the byte behind it; if there is no
\* room for it, it is not read.
Evaluate ==
  /\ Takes("evaluate") /\ UNCHANGED <<comment, typed>>
  /\ Expects(2,
       LET m == PopC00(PopC00(Taken))
           path == m.c00
       IN  IF Last(stack) = Length /\ path[1] = "addr" /\ path[2] # << >>
           THEN Becomes(PushSource(Evaluated(path[2]), [m EXCEPT !.c00 = Length])) /\ Works
           ELSE Becomes(m) /\ Dies)

Load ==
  /\ Takes("load") /\ UNCHANGED <<comment, typed>>
  /\ Expects(1,
       LET m == PopC00(Taken)
           n == m.c00
       IN  IF n[1] = "number" /\ n[2] \in DOMAIN blocks
           THEN Becomes(PushSource(Block(n[2]), m)) /\ Works
           ELSE Becomes(m) /\ Fails)

\* The file of the two cells on top of m: its first line is read, its source
\* pushed, and the current source, whichever that is, made as long as the line.
Opens(m) ==
  LET len  == Last(m.stack)
      path == Last(Front(m.stack))
      left == [m EXCEPT !.stack = Front(Front(@)), !.c00 = len]
      name == Front(path[2])
      r    == FileLine(name[1], 0)
      new  == Source(3, 0, name[1], r.at, Append(r.line, "nul"), Len(r.line), files[name[1]])
      pushed == PushSource(new, left)
  IN  IF len # Length \/ path[1] # "addr" \/ path[2] = << >> THEN Becomes(left) /\ Dies
      ELSE IF Len(name) # 1 \/ name[1] \notin DOMAIN files THEN Becomes(left) /\ Fails
      ELSE Becomes(SetTop([Last(pushed.sources) EXCEPT !.max = Len(r.line)], pushed)) /\ Works

\* INCLUDE passes the name behind it over the stack; without a name the null
\* pointer is read.
Include ==
  /\ Takes("include") /\ UNCHANGED <<comment, typed>>
  /\ LET n == NextToken(Next1.source)
         addr == Addr(IF n.token = << >> THEN << >> ELSE Append(n.token, " "))
     IN  Opens(Push(Length, Push(addr, SetTop(n.source, Now))))

Included ==
  /\ Takes("included") /\ UNCHANGED <<comment, typed>>
  /\ Expects(2, Opens(Taken))

\* A word that does nothing here, and what is no word.
Plain == /\ Takes("x") /\ Becomes(Taken) /\ Works /\ UNCHANGED <<comment, typed>>

KnownWords == {"(", "\\", "refill", "0", "1", "2", "drop", "evaluate", "load", "include",
               "included", "abort", "x"} \cup DOMAIN Strings
Unknown ==
  /\ Reads /\ Next1.token # << >> /\ Next1.token \notin {<< w >> : w \in KnownWords}
  /\ Becomes(Taken) /\ Fails /\ UNCHANGED <<comment, typed>>

\* The keyboard alone is left, with no text.
OnlyKeyboard == << [sources[1] EXCEPT !.max = 0, !.text = << >>, !.read = << >>,
                      !.base = [i \in DOMAIN @ |-> "nul"]] >>

Abort ==
  /\ Takes("abort") /\ sources' = OnlyKeyboard /\ stack' = << >>
  /\ Works /\ UNCHANGED <<comment, c00, typed>>

-----------------------------------------------------------------------------
Continue ==
  /\ alive /\ failed /\ failed' = FALSE
  /\ UNCHANGED <<texts, sources, comment, stack, c00, alive, typed, tick>>

DebuggerAbort ==
  /\ alive /\ failed /\ failed' = FALSE /\ sources' = OnlyKeyboard
  /\ UNCHANGED <<texts, comment, stack, c00, alive, typed, tick>>

Init ==
  /\ files \in Library /\ blocks \in Volumes
  /\ sources = << Keyboard(<< >>) >> /\ comment = 0
  /\ stack = << >> /\ c00 = FORTH_FALSE
  /\ failed = FALSE /\ alive = TRUE /\ typed = 0 /\ tick = FALSE

System ==
  \/ LineEnd \/ OpenComment \/ SkipComment \/ RefillComment \/ UnclosedInBlock \/ LineComment
  \/ RefillWord \/ Drop \/ Evaluate \/ Load \/ Include \/ Included \/ Plain \/ Unknown \/ Abort
  \/ \E n \in {"0", "1", "2"} : Number(n)
  \/ \E w \in DOMAIN Strings : String(w)

Next == System \/ Continue \/ DebuggerAbort

\* The user is asked for a line.
Asked == Asks(Now) /\ (AtEnd \/ Takes("refill") \/ (InComment /\ Skimmed.token = << >>))
Busy == alive /\ ~failed /\ ~Asked

\* The machine goes on by itself, except for what users type: weak fairness of
\* System, written with Busy, which says when it is enabled.
Spec == Init /\ [][Next]_vars /\ ([]<>~Busy \/ []<><<System>>_vars)

-----------------------------------------------------------------------------
(* Properties.                                                             *)

CellsOf == {"number", "addr", "length"}

TypeOK ==
  /\ Len(sources) \in 1 .. Capacity /\ comment \in 0 .. Capacity
  /\ \A i \in DOMAIN sources :
       LET s == sources[i]
       IN  /\ s.in \in 0 .. Len(s.base) /\ s.max \in 0 .. Len(s.base)
           /\ (s.id = 0 /\ s.blk = 0) = (i = 1)
  /\ Len(stack) <= Limit /\ \A i \in DOMAIN stack : stack[i][1] \in CellsOf
  /\ failed \in BOOLEAN /\ alive \in BOOLEAN /\ typed \in 0 .. MaxLines

\* What these properties ask of programs: no file is opened when the input stack
\* is full, for then its current source is made as long as the file's line
\* (words/askforth_words.c:3343-3345); and a comment that is open in a file is
\* closed before the file ends, for there REFILL leaves the file, and the comment
\* is looked for in what follows (words/askforth_words.c:1483-1501).
FileDone(s) ==
  s.id = 3 /\ FileLine(s.file, s.at).eof /\ FileLine(s.file, s.at).line = << >>
Roomy == Len(sources) = Capacity => ~Takes("include") /\ ~Takes("included")
Closed == ~(InComment /\ Skimmed.token = << >> /\ FileDone(Last(sources)))

\* What was taken from a source and what is still to be taken, in its buffer and
\* in its file, are the tokens of its text, in their order, each whole: however
\* sources nest, fail, go on and are refilled, and wherever the lines of a file
\* are cut ("The contents of the file are processed as if they had been entered
\* as Forth source", GUIDE/06-input-and-blocks.md:32; stack/input_stack.c:44-76,
\* words/askforth_words.c:3256-3436).
NothingSkipped ==
  \A i \in DOMAIN sources :
    LET s == sources[i] IN s.read \o Tokens(Rest(s)) \o Tokens(RestOfFile(s)) = Tokens(s.text)

\* A source that is left is left at its end, unless everything is aborted; of its
\* last line only REFILL passes anything over (vm/forth_vm.c:446-454,
\* words/askforth_words.c:3415-3422).
EndsAtEnd ==
  [][Len(sources') < Len(sources) /\ sources' # OnlyKeyboard =>
       LET s == Last(sources)
       IN  /\ sources' = Front(sources)
           /\ s.read \o (IF Takes("refill") THEN Tokens(Rest(s)) ELSE << >>) = Tokens(s.text)]_vars

\* A comment that is open is in the current source: what REFILL brings is what the
\* comment reads (words/askforth_words.c:1483-1501).
CommentInSource == comment \in {0, Len(sources)}

\* The end of a line, of a string, of a block and of a file leaves the data stack
\* to the program, when it is not full (vm/forth_vm.c:446-454).
LineEndKeepsStack ==
  [][LineEnd /\ Len(stack) < Limit => stack' = stack /\ alive']_vars

\* Every text comes to its end, or to a failure: the user is asked again, and for
\* what follows on the keyboard.
Waits == []<>(~alive \/ failed \/ (Asked /\ comment \in {0, 1}))
=============================================================================
