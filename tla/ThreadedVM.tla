----------------------------- MODULE ThreadedVM -----------------------------
(***************************************************************************)
(* The virtual machine of AskForth: the outer interpreter askf_exec, the   *)
(* threaded-code executor _askf_execute_threaded_frames, the stack of      *)
(* threaded frames, the stack of input sources, and the part of the        *)
(* debugger that changes the machine (continue, abort, quit).              *)
(*                                                                         *)
(* The executor is a C function that native words re-enter (EXECUTE), so   *)
(* several activations of it may be live at once.  They all share ONE      *)
(* stack of threaded frames.  execs holds the live activations, tframes    *)
(* the shared frames.                                                      *)
(*                                                                         *)
(* Data is abstracted: a native word is given by what it does to control   *)
(* (Acts) and by the outcomes its data allow (may); a branch by the flags  *)
(* it may find.  Names stand for addresses: a text is a named token        *)
(* sequence, a position in code an index into Code[word].                  *)
(***************************************************************************)
EXTENDS Integers, Sequences, SequencesExt

CONSTANTS
  Words,      \* threaded words
  Foreign,    \* the name of a foreign (FFI) word
  Code,       \* Code[w]: the operations of w, the last one "endword"
  Texts,      \* names of token sequences: lines, strings, blocks
  Text,       \* Text[t]: the tokens of t
  EmptyText,  \* a text without tokens
  Files,      \* names of source files
  NoFile,     \* not a file
  File,       \* File[f]: the texts of the lines of f
  KeyLines,   \* texts the user may type at the prompt
  DebugLines, \* command lines the user may type in the debugger
  FrameCap,   \* capacity of the threaded-frame stack (256 in the code)
  SourceCap   \* capacity of the input stack (32 in the code)

Outcomes == SUBSET {"ok", "fail"}

\* What a native word does to the control state, and how it may end.
Acts ==
  [do: {"work", "colon", "semicolon", "[", "]", "abort", "bye"}, may: Outcomes]
    \cup [do: {"execute"}, word: Words, may: Outcomes]
    \cup [do: {"source"}, text: Texts, may: Outcomes]
    \cup [do: {"include"}, file: Files, may: Outcomes]

\* The flags a 0branch may pop; "empty" when the data stack has no cell.
Flags == SUBSET {"zero", "nonzero", "empty"}

Ops ==
  [op: {"plain", "error", "endword"}]
    \cup [op: {"call"}, word: Words]
    \cup [op: {"native"}, act: Acts]
    \cup [op: {"foreign"}, may: Outcomes]
    \cup [op: {"branch"}, to: Nat]
    \cup [op: {"0branch"}, to: Nat, may: Flags]

Tokens ==
  [tok: {"number", "unknown"}]
    \cup [tok: {"native"}, act: Acts, imm: BOOLEAN]
    \cup [tok: {"word"}, word: Words, imm: BOOLEAN]
    \cup [tok: {"foreign"}, may: Outcomes, imm: BOOLEAN]

Commands == {"inspect", "continue", "abort", "quit"}

\* Compiled code ends with endword, and every branch stays in its word.
WellFormed(code) ==
  /\ Len(code) > 0
  /\ code[Len(code)].op = "endword"
  /\ \A i \in DOMAIN code :
       code[i].op \in {"branch", "0branch"} => code[i].to \in DOMAIN code

ASSUME CodeAssumption ==
  /\ Foreign \notin Words
  /\ Code \in [Words -> Seq(Ops)]
  /\ \A w \in Words : WellFormed(Code[w])

ASSUME InputAssumption ==
  /\ Text \in [Texts -> Seq(Tokens)]
  /\ EmptyText \in Texts /\ Text[EmptyText] = << >>
  /\ KeyLines \subseteq Texts
  /\ NoFile \notin Files
  /\ File \in [Files -> Seq(Texts)]
  /\ DebugLines \subseteq Seq(Commands) \ {<< >>}

ASSUME CapAssumption ==
  /\ FrameCap \in Nat \ {0}
  /\ SourceCap \in Nat \ {0}

VARIABLES
  pc,       \* where the main loop or askf_exec stands
  depth,    \* askf_exec's current_depth, fixed before it drains a frame
  execs,    \* live activations of the executor, the innermost last
  tframes,  \* vm->tframes_stack
  istack,   \* vm->istack
  outer,    \* vm->outer_state
  interp,   \* vm->interpret_state
  cmds,     \* commands left on the debugger's line
  cont      \* history: what is left to run, the innermost context last

vars == <<pc, depth, execs, tframes, istack, outer, interp, cmds, cont>>

Failed == outer \in {"FAILED", "INNER_FAILED"}

-----------------------------------------------------------------------------
(* Frames.  label is the word the frame names (AskForthThreadedFrame.word),*)
(* <<word, ip>> the operation its base_ip or resume_ip points to.          *)

Frame(label, word, ip) == [label |-> label, word |-> word, ip |-> ip]

\* Mutants: no capacity check; one slot too few; the oldest frame makes room.
PushFrameUnchecked(frames, f) == Append(frames, f)
PushFrameEarlyFull(frames, f) ==
  IF Len(frames) + 1 < FrameCap THEN Append(frames, f) ELSE frames
PushFrameOverOldest(frames, f) ==
  Append(IF Len(frames) < FrameCap THEN frames ELSE Tail(frames), f)

\* _askf_push_ip_frame; no caller looks at the FALSE of a full stack.
PushFrame(frames, f) ==
  IF Len(frames) < FrameCap THEN Append(frames, f) ELSE frames

\* Mutants: the failed operation is run again; an operation too far.
ResumeAgain(x)   == Frame(x.label, x.word, x.ip)
ResumeTooFar(x)  == Frame(x.label, x.word, x.ip + 2)

\* The frame that lets activation x go on behind its operation.
Resume(x) == Frame(x.label, x.word, x.ip + 1)

Activation(f, at) ==
  [label |-> f.label, word |-> f.word, ip |-> f.ip, src |-> Len(istack), at |-> at]

\* The executor's entry: it pops whatever frame is on top.
Enter(es, frames) ==
  /\ execs' = Append(es, Activation(Last(frames), "run"))
  /\ tframes' = Front(frames)

-----------------------------------------------------------------------------
(* The history variable: what the program text says is left to run, as a   *)
(* stack of contexts.  A context is a word at an operation, or an input    *)
(* source at its depth.  A context opened by another one ends before that  *)
(* one goes on.  A source that has no text left is no longer a context.    *)
(* When the machine runs something that is not the innermost context, the  *)
(* history is lost (empty) until an abort discards what was in progress.   *)

InWord(w, i) == [word |-> w, ip |-> i]
InSource(d)  == [source |-> d]

\* The innermost context of c is x.
Innermost(c, x) == c # << >> /\ Last(c) = x

\* x, innermost in c, is replaced by the contexts new.
Move(c, x, new) == IF Innermost(c, x) THEN Front(c) \o new ELSE << >>

\* A context is opened in the innermost one.
Open(c, x) == IF c = << >> THEN c ELSE Append(c, x)

-----------------------------------------------------------------------------
(* The input stack.                                                        *)

Source(kind, text, file) ==
  [kind |-> kind, text |-> text, in |-> 0, max |-> Len(Text[text]),
   file |-> file, line |-> 1]

Top(sources) == Last(sources)
SetTop(sources, s) == Append(Front(sources), s)

\* askf_istack_push
PushSource(sources, s) ==
  IF Len(sources) < SourceCap THEN Append(sources, s) ELSE sources

FirstLine(f) == IF File[f] = << >> THEN EmptyText ELSE File[f][1]

\* Mutant: only the current source is emptied.
KeyboardOnlyTop(sources) == SetTop(sources, [Top(sources) EXCEPT !.max = 0])

\* The state ABORT and the debugger's abort leave the input in.
Keyboard(sources) == << [sources[1] EXCEPT !.max = 0] >>

\* Nothing of this source is left to interpret.
Exhausted(s) ==
  /\ s.in >= s.max
  /\ \/ s.kind = "string"
     \/ s.kind = "file" /\ s.line >= Len(File[s.file])

-----------------------------------------------------------------------------
(* Native words.  c, es and ss are the history, the activations and the    *)
(* sources as the caller leaves them to the native code.                   *)

\* _askf_word_failed: the error's zone sets the outer state.
NativeFails(a, c, es, ss) ==
  /\ \/ a.do \in {"work", "colon", "execute", "source", "include"} /\ "fail" \in a.may
     \/ a.do = "[" /\ interp # "COMPILE"
     \/ a.do = "]" /\ interp # "INTERPRET"
  /\ outer' = "INNER_FAILED"
  /\ cont' = c /\ execs' = es /\ istack' = ss
  /\ UNCHANGED <<interp, tframes>>

NativeWorks(a, c, es, ss) ==
  /\ a.do = "work" /\ "ok" \in a.may
  /\ cont' = c /\ execs' = es /\ istack' = ss
  /\ UNCHANGED <<interp, tframes, outer>>

\* `:` and `]` start compiling, `;` and `[` stop.
NativeSetsState(a, c, es, ss) ==
  /\ \/ a.do = "colon" /\ "ok" \in a.may /\ interp' = "COMPILE"
     \/ a.do = "semicolon" /\ interp' = "INTERPRET"
     \/ a.do = "[" /\ interp = "COMPILE" /\ interp' = "INTERPRET"
     \/ a.do = "]" /\ interp = "INTERPRET" /\ interp' = "COMPILE"
  /\ cont' = c /\ execs' = es /\ istack' = ss
  /\ UNCHANGED <<tframes, outer>>

\* EXECUTE of a threaded word runs it in a new activation of the executor.
\* (EXECUTE of a native word is that word's own act.)
NativeExecutes(a, c, es, ss) ==
  /\ a.do = "execute" /\ "ok" \in a.may
  /\ Enter(es, PushFrame(tframes, Frame(a.word, a.word, 1)))
  /\ cont' = Open(c, InWord(a.word, 1))
  /\ istack' = ss
  /\ UNCHANGED <<interp, outer>>

\* EVALUATE pushes a string, LOAD a block.
NativeOpensText(a, c, es, ss) ==
  /\ a.do = "source" /\ "ok" \in a.may
  /\ istack' = PushSource(ss, Source("string", a.text, NoFile))
  /\ cont' = Open(c, InSource(Len(ss) + 1))
  /\ execs' = es
  /\ UNCHANGED <<interp, tframes, outer>>

\* INCLUDE and INCLUDED read the first line, push the file, and set in_max of
\* whatever source is then on top, pushed or not.
NativeOpensFile(a, c, es, ss) ==
  /\ a.do = "include" /\ "ok" \in a.may
  /\ IF Len(ss) < SourceCap
     THEN istack' = Append(ss, Source("file", FirstLine(a.file), a.file))
     ELSE \E m \in 0 .. Len(Text[Top(ss).text]) :
            istack' = SetTop(ss, [Top(ss) EXCEPT !.max = m])
  /\ cont' = Open(c, InSource(Len(ss) + 1))
  /\ execs' = es
  /\ UNCHANGED <<interp, tframes, outer>>

NativeAborts(a, c, es, ss) ==
  /\ a.do = "abort"
  /\ interp' = "INTERPRET" /\ outer' = "EXECUTE"
  /\ istack' = Keyboard(ss)
  /\ tframes' = << >>
  /\ cont' = << InSource(1) >>
  /\ execs' = es

NativeBye(a, c, es, ss) ==
  /\ a.do = "bye"
  /\ outer' = "SHUTDOWN"
  /\ cont' = c /\ execs' = es /\ istack' = ss
  /\ UNCHANGED <<interp, tframes>>

Native(a, c, es, ss) ==
  \/ NativeFails(a, c, es, ss)
  \/ NativeWorks(a, c, es, ss)
  \/ NativeSetsState(a, c, es, ss)
  \/ NativeExecutes(a, c, es, ss)
  \/ NativeOpensText(a, c, es, ss)
  \/ NativeOpensFile(a, c, es, ss)
  \/ NativeAborts(a, c, es, ss)
  \/ NativeBye(a, c, es, ss)

-----------------------------------------------------------------------------
(* The executor.  x is its innermost activation, Op(x) the operation at    *)
(* its instruction pointer; at tells whether it is inside a native call.   *)

Op(x) == Code[x.word][x.ip]

Running == execs # << >> /\ Last(execs).at = "run"
AtOp(o) == Running /\ Op(Last(execs)).op = o

\* The innermost activation goes on at operation i of its word.
Goto(i) == execs' = Append(Front(execs), [Last(execs) EXCEPT !.ip = i, !.at = "run"])
\* It returns to its caller.
Return == execs' = Front(execs)

\* The history after the operation of x, when the word goes on at i.
MovedTo(x, i) == Move(cont, InWord(x.word, x.ip), << InWord(x.word, i) >>)

\* Literals, skippable data and the optimizer's operations.
OpPlain ==
  /\ AtOp("plain")
  /\ LET x == Last(execs) IN Goto(x.ip + 1) /\ cont' = MovedTo(x, x.ip + 1)
  /\ UNCHANGED <<pc, depth, tframes, istack, outer, interp, cmds>>

OpThreadedWord ==
  /\ AtOp("call")
  /\ LET x == Last(execs)
         w == Op(x).word
     IN  /\ tframes' = PushFrame(tframes, Resume(x))
         /\ execs' = Append(Front(execs), [x EXCEPT !.label = w, !.word = w, !.ip = 1])
         /\ cont' = Move(cont, InWord(x.word, x.ip), << InWord(x.word, x.ip + 1), InWord(w, 1) >>)
  /\ UNCHANGED <<pc, depth, istack, outer, interp, cmds>>

OpBranch ==
  /\ AtOp("branch")
  /\ LET x == Last(execs) IN Goto(Op(x).to) /\ cont' = MovedTo(x, Op(x).to)
  /\ UNCHANGED <<pc, depth, tframes, istack, outer, interp, cmds>>

\* On an empty stack the executor returns without a resume frame.
Op0Branch ==
  /\ AtOp("0branch")
  /\ LET x == Last(execs)
     IN  \/ /\ "zero" \in Op(x).may
            /\ Goto(Op(x).to) /\ cont' = MovedTo(x, Op(x).to)
            /\ UNCHANGED outer
         \/ /\ "nonzero" \in Op(x).may
            /\ Goto(x.ip + 1) /\ cont' = MovedTo(x, x.ip + 1)
            /\ UNCHANGED outer
         \/ /\ "empty" \in Op(x).may
            /\ Return /\ cont' = MovedTo(x, x.ip + 1)
            /\ outer' = "INNER_FAILED"
  /\ UNCHANGED <<pc, depth, tframes, istack, interp, cmds>>

\* The call of a native word; AfterNative is the code behind it.
OpNative ==
  /\ AtOp("native")
  /\ LET x == Last(execs)
     IN  Native(Op(x).act, MovedTo(x, x.ip + 1),
                Append(Front(execs), [x EXCEPT !.at = "native"]), istack)
  /\ UNCHANGED <<pc, depth, cmds>>

\* Mutants: a failure is not noticed; a new input source is not noticed.
InterruptedBySource(x)  == Len(istack) # x.src
InterruptedByFailure(x) == Failed

\* A failure stops the activation, and so does another input source than it
\* began with.
Interrupted(x) == Failed \/ Len(istack) # x.src

\* A resume frame keeps the place of an activation that is stopped.
AfterNative ==
  /\ execs # << >> /\ Last(execs).at = "native"
  /\ LET x == Last(execs)
     IN  IF Interrupted(x)
         THEN /\ tframes' = PushFrame(tframes, Resume(x))
              /\ Return
         ELSE Goto(x.ip + 1) /\ UNCHANGED tframes
  /\ UNCHANGED <<pc, depth, istack, outer, interp, cmds, cont>>

\* On failure the frame is pushed for the foreign word, which shadows the
\* caller's name there, with the caller's instruction pointer.
OpForeign ==
  /\ AtOp("foreign")
  /\ LET x == Last(execs)
     IN  /\ \/ /\ "ok" \in Op(x).may
               /\ Goto(x.ip + 1)
               /\ UNCHANGED <<outer, tframes>>
            \/ /\ "fail" \in Op(x).may
               /\ outer' = "INNER_FAILED"
               /\ tframes' = PushFrame(tframes, Frame(Foreign, x.word, x.ip + 1))
               /\ Return
         /\ cont' = MovedTo(x, x.ip + 1)
  /\ UNCHANGED <<pc, depth, istack, interp, cmds>>

\* Mutant: no frame is kept.
OpDispatchErrorUnkept ==
  /\ AtOp("error")
  /\ LET x == Last(execs) IN cont' = MovedTo(x, x.ip + 1)
  /\ outer' = "INNER_FAILED"
  /\ Return
  /\ UNCHANGED <<pc, depth, tframes, istack, interp, cmds>>

OpDispatchError ==
  /\ AtOp("error")
  /\ LET x == Last(execs)
     IN  /\ tframes' = PushFrame(tframes, Resume(x))
         /\ cont' = MovedTo(x, x.ip + 1)
  /\ outer' = "INNER_FAILED"
  /\ Return
  /\ UNCHANGED <<pc, depth, istack, interp, cmds>>

\* The end of a word restores the top frame, whoever pushed it.
OpEndWord ==
  /\ AtOp("endword")
  /\ LET x == Last(execs)
     IN  /\ IF Failed \/ tframes = << >>
            THEN Return /\ UNCHANGED tframes
            ELSE LET f == Last(tframes)
                 IN  /\ execs' = Append(Front(execs),
                          [x EXCEPT !.label = f.label, !.word = f.word, !.ip = f.ip])
                     /\ tframes' = Front(tframes)
         /\ cont' = Move(cont, InWord(x.word, x.ip), << >>)
  /\ UNCHANGED <<pc, depth, istack, outer, interp, cmds>>

-----------------------------------------------------------------------------
(* askf_exec.                                                              *)

HasToken == Top(istack).in < Top(istack).max
NextToken == Text[Top(istack).text][Top(istack).in + 1]
Fetched == SetTop(istack, [Top(istack) EXCEPT !.in = @ + 1])

\* The token's word runs now (else it is compiled).
Runs(t) == interp = "INTERPRET" \/ t.imm

\* The history when a token is taken, and when the source is at its end.
Here == InSource(Len(istack))
AtSource == Move(cont, Here, << Here >>)
Closed == IF Exhausted(Top(istack)) /\ Innermost(cont, Here) THEN Front(cont) ELSE cont

AtToken(kinds) ==
  /\ pc = "tokens" /\ HasToken /\ NextToken.tok \in kinds

TokenNumber ==
  /\ AtToken({"number"})
  /\ istack' = Fetched /\ cont' = AtSource
  /\ UNCHANGED <<pc, depth, execs, tframes, outer, interp, cmds>>

TokenUnknown ==
  /\ AtToken({"unknown"})
  /\ istack' = Fetched /\ cont' = AtSource
  /\ outer' = "FAILED"
  /\ pc' = "main"
  /\ UNCHANGED <<depth, execs, tframes, interp, cmds>>

TokenCompiled ==
  /\ AtToken({"native", "foreign", "word"}) /\ ~Runs(NextToken)
  /\ istack' = Fetched /\ cont' = AtSource
  /\ pc' = "interpreted"
  /\ UNCHANGED <<depth, execs, tframes, outer, interp, cmds>>

TokenNative ==
  /\ AtToken({"native"}) /\ Runs(NextToken)
  /\ Native(NextToken.act, AtSource, execs, Fetched)
  /\ pc' = "interpreted"
  /\ UNCHANGED <<depth, cmds>>

TokenForeign ==
  /\ AtToken({"foreign"}) /\ Runs(NextToken)
  /\ istack' = Fetched /\ cont' = AtSource
  /\ \/ "ok" \in NextToken.may /\ pc' = "interpreted" /\ UNCHANGED outer
     \/ "fail" \in NextToken.may /\ pc' = "main" /\ outer' = "INNER_FAILED"
  /\ UNCHANGED <<depth, execs, tframes, interp, cmds>>

TokenThreaded ==
  /\ AtToken({"word"}) /\ Runs(NextToken)
  /\ LET w == NextToken.word
     IN  /\ Enter(execs, PushFrame(tframes, Frame(w, w, 1)))
         /\ cont' = Open(AtSource, InWord(w, 1))
  /\ istack' = Fetched
  /\ pc' = "interpreted"
  /\ UNCHANGED <<depth, outer, interp, cmds>>

\* The check at the end of the token loop's body.
TokenDone ==
  /\ pc = "interpreted" /\ execs = << >>
  /\ pc' = IF outer = "EXECUTE" THEN "tokens" ELSE "main"
  /\ UNCHANGED <<depth, execs, tframes, istack, outer, interp, cmds, cont>>

NoMoreTokens ==
  /\ pc = "tokens" /\ ~HasToken
  /\ pc' = "drain"
  /\ cont' = Closed
  /\ UNCHANGED <<depth, execs, tframes, istack, outer, interp, cmds>>

\* With no token left, the frames that were kept are run.
DrainFrame ==
  /\ pc = "drain" /\ tframes # << >>
  /\ depth' = Len(istack)
  /\ Enter(execs, tframes)
  /\ pc' = "drained"
  /\ UNCHANGED <<istack, outer, interp, cmds, cont>>

FrameDrained ==
  /\ pc = "drained" /\ execs = << >>
  /\ pc' = CASE Failed -> "main"
             [] ~Failed /\ Len(istack) # depth -> "tokens"
             [] OTHER -> "drain"
  /\ UNCHANGED <<depth, execs, tframes, istack, outer, interp, cmds, cont>>

AtLineEnd == pc = "drain" /\ tframes = << >>

\* Mutant: the source stays on the input stack.
EndStringUnpopped ==
  /\ AtLineEnd /\ Top(istack).kind = "string"
  /\ pc' = "main" /\ cont' = Closed
  /\ UNCHANGED <<depth, execs, tframes, istack, outer, interp, cmds>>

\* A string or a block is popped at its end.
EndString ==
  /\ AtLineEnd /\ Top(istack).kind = "string"
  /\ istack' = Front(istack)
  /\ pc' = "main" /\ cont' = Closed
  /\ UNCHANGED <<depth, execs, tframes, outer, interp, cmds>>

\* REFILL on a file: its next line, or the end of the file.
RefillFile ==
  /\ AtLineEnd /\ Top(istack).kind = "file"
  /\ LET s == Top(istack)
     IN  istack' = IF s.line < Len(File[s.file])
                   THEN SetTop(istack, [Source("file", File[s.file][s.line + 1], s.file)
                                          EXCEPT !.line = s.line + 1])
                   ELSE Front(istack)
  /\ pc' = "main" /\ cont' = Closed
  /\ UNCHANGED <<depth, execs, tframes, outer, interp, cmds>>

\* REFILL on the keyboard: the user types a line.
RefillKeyboard ==
  /\ AtLineEnd /\ Top(istack).kind = "user"
  /\ \E t \in KeyLines : istack' = SetTop(istack, Source("user", t, NoFile))
  /\ pc' = "main"
  /\ UNCHANGED <<depth, execs, tframes, outer, interp, cmds, cont>>

-----------------------------------------------------------------------------
(* The main loop and the debugger.                                         *)

MainDispatch ==
  /\ pc = "main"
  /\ pc' = CASE outer = "EXECUTE"  -> "tokens"
             [] outer = "SHUTDOWN" -> "end"
             [] OTHER              -> "debugger"
  /\ UNCHANGED <<depth, execs, tframes, istack, outer, interp, cmds, cont>>

\* The user types a line in the debugger.
DebuggerRead ==
  /\ pc = "debugger" /\ cmds = << >>
  /\ cmds' \in DebugLines
  /\ UNCHANGED <<pc, depth, execs, tframes, istack, outer, interp, cont>>

\* Every command of the line runs, also behind one that left the failed state;
\* the loop ends at the end of a line that did.
DebuggerCommand ==
  /\ pc = "debugger" /\ cmds # << >>
  /\ \/ /\ Head(cmds) = "inspect"
        /\ UNCHANGED <<tframes, istack, outer, interp, cont>>
     \/ /\ Head(cmds) = "continue"
        /\ outer' = "EXECUTE"
        /\ UNCHANGED <<tframes, istack, interp, cont>>
     \/ /\ Head(cmds) = "quit"
        /\ outer' = "SHUTDOWN"
        /\ UNCHANGED <<tframes, istack, interp, cont>>
     \/ /\ Head(cmds) = "abort"
        /\ outer' = "EXECUTE" /\ interp' = "INTERPRET"
        /\ istack' = Keyboard(istack) /\ tframes' = << >>
        /\ cont' = << InSource(1) >>
  /\ cmds' = Tail(cmds)
  /\ pc' = IF cmds' = << >> /\ outer' \in {"EXECUTE", "SHUTDOWN"} THEN "main" ELSE pc
  /\ UNCHANGED <<depth, execs>>

-----------------------------------------------------------------------------
Init ==
  /\ pc = "main" /\ depth = 1
  /\ execs = << >> /\ tframes = << >>
  /\ istack = << Source("user", EmptyText, NoFile) >>
  /\ outer = "EXECUTE" /\ interp = "INTERPRET"
  /\ cmds = << >>
  /\ cont = << InSource(1) >>

Executor ==
  \/ OpPlain \/ OpThreadedWord \/ OpBranch \/ Op0Branch \/ OpNative
  \/ AfterNative \/ OpForeign \/ OpDispatchError \/ OpEndWord

Interpreter ==
  \/ TokenNumber \/ TokenUnknown \/ TokenCompiled \/ TokenNative \/ TokenForeign
  \/ TokenThreaded \/ TokenDone \/ NoMoreTokens \/ DrainFrame \/ FrameDrained
  \/ EndString \/ RefillFile

Machine == Executor \/ Interpreter \/ MainDispatch \/ DebuggerCommand
User == RefillKeyboard \/ DebuggerRead

Next == Machine \/ User

Spec == Init /\ [][Next]_vars

\* The machine is one thread that never blocks but to read a line.
FairSpec == Spec /\ WF_vars(Machine)

-----------------------------------------------------------------------------
(* Properties.                                                             *)

Frames == [label: Words \cup {Foreign}, word: Words, ip: Nat]

Activations ==
  [label: Words \cup {Foreign}, word: Words, ip: Nat, src: Nat, at: {"run", "native"}]

Sources ==
  [kind: {"user", "string", "file"}, text: Texts, in: Nat, max: Nat,
   file: Files \cup {NoFile}, line: Nat]

Contexts == [word: Words, ip: Nat] \cup [source: Nat]

\* The type invariant: neither stack outgrows its array (vm/forth_vm.h:68,
\* stack/input_stack.c:15) and the input stack never loses the keyboard.
TypeOK ==
  /\ pc \in {"main", "tokens", "interpreted", "drain", "drained", "debugger", "end"}
  /\ depth \in Nat
  /\ execs \in Seq(Activations)
  /\ tframes \in Seq(Frames) /\ Len(tframes) <= FrameCap
  /\ istack \in Seq(Sources) /\ Len(istack) \in 1 .. SourceCap
  /\ outer \in {"EXECUTE", "FAILED", "INNER_FAILED", "SHUTDOWN"}
  /\ interp \in {"INTERPRET", "COMPILE"}
  /\ cmds \in Seq(Commands)
  /\ cont \in Seq(Contexts)

\* No instruction pointer leaves the code of its word: not the one of a live
\* executor, inside a native call or not, and not one that a frame kept over a
\* failure, an ABORT or a change of input source (forth_vm.c:121, 176, 180).
ControlInCode ==
  /\ \A i \in DOMAIN execs : execs[i].ip \in DOMAIN Code[execs[i].word]
  /\ \A i \in DOMAIN tframes : tframes[i].ip \in DOMAIN Code[tframes[i].word]

\* Once a word has failed, no activation of the executor dispatches another
\* operation and askf_exec takes no token, however deep EXECUTE had nested
\* them, until the debugger has had its turn (forth_vm.c:174, 236, 414, 422).
FailureStops ==
  Failed => ~Running /\ pc \in {"interpreted", "drained", "main", "debugger"}

\* While a failure unwinds the activations, the failed state stays and what is
\* kept for `continue` only grows: no frame and no source is taken away
\* (forth_vm.c:174-178, 203, 215, 236-240).
UnwindPreserves ==
  [][Failed /\ pc # "debugger" =>
       /\ outer' = outer /\ istack' = istack
       /\ \A i \in DOMAIN tframes : i \in DOMAIN tframes' /\ tframes'[i] = tframes[i]
    ]_vars

\* What runs next is always the innermost thing left to run: a failed word
\* that `continue` skips is followed by the rest of its definition, a called,
\* EXECUTEd or loaded text by what called it (README.md:115, forth_vm.c:242).
InOrder ==
  /\ Running => LET x == Last(execs)
                IN  Innermost(cont, InWord(x.word, x.ip))
  /\ pc = "tokens" /\ HasToken => Innermost(cont, Here)

\* The places in the history where a word waits to go on.
WordsLeft == {p \in DOMAIN cont : "word" \in DOMAIN cont[p]}

\* In the debugger the preserved frames are exactly the words left to run,
\* oldest first, each at the operation behind the one that failed or called
\* (README.md:113, fallback_loop/fallback.c:113).
ContextPreserved ==
  pc = "debugger" =>
    /\ Len(tframes) = Cardinality(WordsLeft)
    /\ \A p \in WordsLeft :
         LET f == tframes[Cardinality({q \in WordsLeft : q <= p})]
         IN  cont[p] = InWord(f.word, f.ip)

\* A word reads from the source that was current where it was called: no
\* source opened meanwhile is still on top of the input stack
\* (GUIDE/06-input-and-blocks.md:20).
ReadsOwnSource ==
  Running /\ Op(Last(execs)).op # "endword" =>
    /\ Here \in ToSet(cont)
    /\ InSource(Len(istack) + 1) \notin ToSet(cont)

\* The machine is in the user's hands: at the prompt, in the debugger, or over.
AwaitsUser ==
  \/ AtLineEnd /\ Top(istack).kind = "user"
  \/ pc = "debugger" /\ cmds = << >>
  \/ pc = "end"

\* Whatever a line of code that has no loop of its own does, with failures,
\* resumed frames and sources opened on the way, it ends: the machine always
\* gets back to the user (forth_vm.c:418-430, main.c:165).
Responsive == []<>AwaitsUser
=============================================================================
