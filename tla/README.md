# AskForth in TLA+

AskForth is a Forth system in C: a virtual machine for threaded code, an outer
interpreter, cell stacks whose width changes at run time, dictionaries, a
debugger that can continue after a failure, a foreign function interface and an
image writer. It is one process with one thread. What is hard about it is not
parallelism but control: C functions that re-enter the interpreter, one stack
of frames shared by all of them, failures that unwind through several levels
and are continued later, input sources that are opened while another one is
being read, registers that outlive the word that used them.

Line numbers below refer to files under `src/`.

## 1. Inventory

| Part | State | Operations | Talks to |
|---|---|---|---|
| Threaded executor (`vm/forth_vm.c:55-263`) | C locals `word`, `ip`, `start_depth` of each activation; `tframes_stack` (256 frames) | one operation per label: literal, call, branch, 0branch, native, foreign, error, endword | native words (calls), frame stack (shared), outer state |
| Outer interpreter (`vm/forth_vm.c:265-455`) | `outer_state`, `interpret_state`, `current_depth` | read a token, run or compile it, drain frames, end a source, refill | executor, input stack, library |
| Main loop (`main.c:163-179`) | none | dispatch on `outer_state` | outer interpreter, debugger |
| Debugger (`fallback_loop/fallback.c`) | line buffer and tokenizer of its own | continue, abort, quit, reset, printing commands | frames, input stack, outer state, tracer |
| Error tracer (`errors/error_thrower.c`, `vm/forth_vm.c:504-512`) | ring of errors, `head` | throw, print | outer state |
| Input stack (`stack/input_stack.c`) | up to 32 sources: base, in, in_max, kind, file | push, pop, next token, REFILL, INCLUDE, LOAD, EVALUATE | outer interpreter, files, blocks |
| Cell stacks (`stack/stack.c`, `vm/forth_vm.c:457-488`) | bytes, width, index; registers `vm_c00`, `global_c00`..`c03` | push, pop, BITS, the words on cells | every native word |
| Library (`library/library.c`, words FORGET .. PROMOTE-DICT) | list of dictionaries, each a list of words; shadow library of forgotten ones | add, find, FORGET, FORGET-DICT, REMEMBER-DICT, PROMOTE-DICT | compiler, image |
| Compiler words (`words/askforth_words.c:1814-1956, 2360-2530`) | `curr_compiling.here`, `cf_stack` | `:` `;` IF ELSE THEN BEGIN WHILE REPEAT, ALLOT and strings while compiling | RAM, library |
| RAM (`memory/backend_blob.c`) | bump index | alloc, ALLOT, ALIGN, HERE | everything |
| Image (`loader/`) | header, footer, relocation table | save, load, offset, relocate | RAM, library |
| Foreign objects (`ffi/`) | list of loaded objects | FOREIGN, FREEFOREIGN, FUNCTION: | library |
| Blocks (`memory/blocks.c`) | memory-mapped array | BLOCK, LOAD, FLUSH, LINE | input stack |
| Tokenizer, number parser (`input/tokenizer.c`), line editor (`input/input_read_linux.c`) | buffers | parse, edit | outer interpreter |
| Optimizer (`optimizer/`) | none | a stub | - |

What makes each of them correct:

- *Executor and outer interpreter.* What runs next is what the program text says
  is left; a failure stops everything and loses nothing that `continue` needs;
  no instruction pointer leaves its code; the machine always returns to the user.
- *Input stack.* A word reads from the source that was current where it was called; every
  token of a text is read once, whole; a text ends where it ends.
- *Cell stacks.* A program sees a stack of cells, whatever the width, the shared
  registers and a full or short stack do; the index stays in the array.
- *Library.* A word or dictionary is in the main or in the shadow library, never
  in both and never in neither (`library/library.h:70-76`); the lists stay lists.
- *Compiler.* A complete word means what its text says, and keeps doing so.
- *Image.* Load after save is the identity on everything reachable.
- *RAM.* Allocations do not overlap.
- *Foreign functions.* A word calls what it was declared with, with its cells.
- *Debugger.* A command line is what the user typed.

The hazards of this code, each at its line and with the properties that cover
it, are in `PROJECT.json`.

## 2. Plan

| | Module | Of | Proofs |
|---|---|---|---|
| 1 | `ThreadedVM`, `MCThreadedVM` | executor, outer interpreter, frames, which source is read, debugger commands | `ThreadedVMProofs`; `OrderProofs`, about the programs of `Discipline` |
| 2 | `CellStack`, which implements `ValueStack`; `MCCellStack` | data stack, return stack, registers | `CellStackProofs` |
| 3 | `Numbers`, which extends `CellStack`; `MCNumbers` | arithmetic, comparisons, shifts, signed mode | |
| 4 | `Library`, which implements `SearchOrder`; `MCLibrary` | dictionaries, words, what is forgotten | `LibraryProofs` |
| 5 | `Compiler`, which implements `StructuredCode`; `MCCompiler` | code, memory, control-flow words | `CompilerProofs` |
| 6 | `Image`, which instantiates `Library`; `MCImage` | save, relocate, load | |
| 7 | `Foreign`, `MCForeign` | shared libraries, declarations, calls | `ForeignProofs` |
| 8 | `Sources`, `MCSources` | texts, REFILL, comments, files, blocks | `SourcesProofs` |

`Lemmas` has what several proofs need about numbers, sequences and sets.

The core is modelled. What is left of the code, in this order: the debugger's line
buffer and the ring of traced errors; the number parser; the limits of the line
editor; LINE and EDIT of blocks.

An abstract specification still worth stating: calls and returns of a structured
program, implemented by `ThreadedVM` when words use neither EXECUTE nor a new
source.

Theorems still worth proving: `TypeOK` of `Image`, and what one pass over code does to it; `SeesCode`
of the compiler for code without strings. `Compiler`, `Image`, `Foreign` and `Sources` use folds and
recursive functions, no RECURSIVE operators, so that they can be proved about; `Numbers` uses Bitwise
and stays with TLC.

## 3. ThreadedVM

### State and code

| Variable | Code |
|---|---|
| `pc` | where the main loop, `askf_exec` or the debugger stands |
| `execs` | live C activations of `_askf_execute_threaded_frames`: its locals `word` (name and code), `ip`, its start depth, and whether it is inside a native call |
| `tframes` | `vm->tframes_stack` |
| `istack` | `vm->istack`; a source is a named text and a position in tokens |
| `outer`, `interp` | `vm->outer_state`, `vm->interpret_state` |
| `depth` | `askf_exec`'s `current_depth` |
| `cmds` | the rest of the debugger's line |
| `cont` | history, read by no guard: what the program text says is left to run |

There is one action per operation of the executor (`OpPlain` .. `OpEndWord`), one
for the code behind a native call (`AfterNative`), one per branch of the token
loop (`TokenNumber` .. `TokenThreaded`), and one per step of `askf_exec`'s end
(`NoMoreTokens`, `DrainFrame`, `FrameDrained`, `EndString`, `RefillFile`,
`RefillKeyboard`). `MainDispatch` is `main.c`'s switch. `DebuggerCommand` runs one
command of a line, because the loop runs all of them even when an earlier one
has left the failed state (`fallback_loop/fallback.c:591-607`).

A native word is abstracted to what it does to control: `work`, `:`, `;`, `[`, `]`,
EXECUTE, opening a string or block, opening a file, ABORT, BYE, and whether it may
fail. EXECUTE re-enters the executor: it adds an activation whose frames lie on
the same `tframes`. `AfterNative` is separate from `OpNative` because everything an
EXECUTEd word does happens between them. It compares the outer state and the
input depth with those at the activation's start (`forth_vm.c:174-182`).

### History

`cont` is a stack of contexts: a word at an operation, a source at a depth. The
innermost one must be what the machine runs next. When the machine runs anything
else the history is lost (`<< >>`) until an abort, and `InOrder` fails. A source with
nothing left is closed at once, so a call at the end of a text is a proper tail.

### What the passing runs show

| Run | Programs | Properties |
|---|---|---|
| `vm_careful` | words that call one another three deep and fail in a native word, a foreign word, a dispatch error; EVALUATE, LOAD and INCLUDE at the prompt, in one another and last in a word; first-level EXECUTE; compiling; 3 frames, 3 sources | `InOrder`, `ContextPreserved`, `ReadsOwnSource` |
| `vm_any` | programs that keep to no discipline; both stacks overflow | `TypeOK`, `ControlInCode`, `FailureStops`, `UnwindPreserves`, `Responsive` |

The two kinds of programs are on purpose. `InOrder`, `ContextPreserved` and
`ReadsOwnSource` are promises of the documentation that hold only of programs that
fail with nothing behind the failing word on its line, do not fail inside EXECUTE
and open no source in the middle of a word. `Disciplined` (module `Discipline`) states these
restrictions; `vm_careful` runs a program of which `MCThreadedVM` assumes, and TLC checks, that it keeps
them. The list of divergences below says why each one is needed. `vm_any` drops the
restrictions and checks what holds of every program. `ContextPreserved` relates the n-th frame to the n-th
word among the contexts left.

Bounds: words of at most six operations, call depth three, two or three frames (the
capacity is reached), up to three sources (the capacity is reached), texts of at
most seven tokens. Code and texts are finite and the user's lines are unlimited, so
the runs cover sessions of any length over their vocabulary: failures during
resumed words, aborts during nested sources, second failures. Every pair of
nested constructs occurs at the smallest depth at which it can, and a third
level is there to tell "the newest" from "all".

### Where the code departs from the documents

Run `vm_continue_order` violates `InOrder`: after `continue` the rest of the line runs before the failed
word goes on. `PROJECT.json` quotes the lines.

The model has these departures too (a program with one of them breaks the property
named), for which there is no run of their own:

- a failure in EXECUTE leaves the callee's frame below its caller's
  (`ContextPreserved`; `forth_vm.c:176`, README.md:113);
- a 0branch on an empty stack leaves no frame to continue from (`ContextPreserved`;
  `forth_vm.c:150`, README.md:113);
- a word goes on after the first line of the file it INCLUDEd (`InOrder`;
  `forth_vm.c:418`, GUIDE/06-input-and-blocks.md:32);
- a word goes on with the string it EVALUATEd still current (`ReadsOwnSource`;
  `forth_vm.c:446`, GUIDE/06-input-and-blocks.md:20);
- a word that was called from the prompt goes on behind its ABORT (`InOrder`; `askforth_words.c:2282`,
  `forth_vm.c:174`, examples.fs:308, "For this example we just abort execution!");
- a failed foreign word's frame bears its name and the caller's position
  (`forth_vm.c:187, 203`, fallback.c:477).

### Fairness and deadlock

`FairSpec` assumes weak fairness of `Machine`, all steps but the user's two: the
process is one thread that blocks only to read a line, so an enabled step is
eventually taken. No fairness of `User` is assumed: the user may leave. `Responsive`
says that the machine always returns to waiting for the user (or has ended). It is
claimed for code without a loop of its own; the runs' branches go forward. The
state `pc = "end"` has no successor, hence `CHECK_DEADLOCK FALSE` in these configurations.

### What is proved

`ThreadedVMProofs` proves for all words, texts, files, user lines and capacities:

- `TypeCorrect`: `Spec => []TypeOK`;
- `ControlStaysInCode`: `Spec => []ControlInCode`;
- `FailureStopsExecution`: `Spec => []FailureStops`;
- `FailurePreserves`: `Spec => UnwindPreserves`.

The assumptions are those of the module: compiled code ends with `endword`, branches stay
in their word (what `;` and the control-flow words produce), texts and lines are
what they are declared to be, the capacities are positive.

`FailureStops` and `ControlInCode` are not inductive. The invariant `IInv` adds:
`StackInv` (instruction pointers in code, and a native call is never the last operation,
so the one behind it exists), `ModeInv` (which `outer` values are possible at which
`pc`; an activation is live only where `askf_exec` called the executor) and `CallInv`
(every activation but the innermost is inside a native call, so a failure cannot
leave an outer one running). The frame lemma of `UnwindPreserves` needs `FailureStops`:
the only steps possible while `Failed` are those that unwind.

`OrderProofs` proves for all disciplined programs, of any size, as long as neither stack is full:

- `RunsInOrder`: `Spec /\ []NotFull => []InOrder`;
- `ReadsFromOwnSource`: `Spec /\ []NotFull => []ReadsOwnSource`;
- `PreservesContext`: `Spec /\ []NotFull => []ContextPreserved`.

A full frame stack or input stack drops what is pushed on it, so the hypothesis is needed; `vm_careful` reaches both
limits only in ways that lose nothing. The invariant `DInv` says which history goes with which
frames: `Expect` is the history of a machine whose input sources are all waiting below the words of
its frames. Frames are shared by all activations and only run at the end of a line, so the machine
is in one of three modes, with or without a live activation: *level* (every kept word was called from the
source on top), *opened* (the source on top was opened by the kept words, which are all at their
end) and *ending* (the source on top is used up, and so are the kept words). `Ordered` says where in
`tframes` a word may lie that EXECUTEs or opens a source. What the discipline forbids is what
leads out of the three modes.

## 4. ValueStack and CellStack

### State and code

`CellStack` keeps the data stack's bytes (`mem`), its `width` in bytes and its
`index`; the five registers as tuples of bytes (`reg`); the return stack, which always
has full width; and whether a word has failed. `Pop` writes the low bytes of a register
(`stack/stack.c:71-114`) and `Push` copies the low bytes and drops the value when the
stack is full. These two are functions of a record (array, index, registers), so that a
word is written as the composition of the pops and pushes its C function makes,
with the same registers.

Each word is an action; `Vocabulary` says which of them a run's program uses. `LineEnd`
and `FileEnd` are the end of a line for `askf_exec`, with REFILL's push and the
`index--` behind it. `Recover` is the debugger's continue or abort, which leave the
data stack as it is.

`ValueStack` says the same of a sequence of cells, without registers or bytes: a
word takes cells and leaves cells as its stack comment says, decisions are taken
on values, BITS cuts the sequence of bytes anew, what does not fit is dropped, and
of a word that fails for want of cells nothing is promised but the failure.
`Promise == INSTANCE ValueStack WITH stack <- Cells` maps one to the other; each property
says that the steps of a group of words are steps of the promise.

### What the passing runs show

One run, `numbers`, checks the properties of this module and of the next one; see
section 5. `MovesCells` (the words that move cells, numbers, BITS) and `ReturnsCells` (`>R` `R>`
`R@`) hold at every width and with stale registers. `DecidesByValue` (?DUP, =, <>, 0=, 0<>,
0branch, the ends of lines and files) is claimed at full width only, where a pop writes
all of a register; `cells_branch` shows what happens otherwise. `RecutsBytes` is about
a BITS that succeeds: with narrow cells and stale high bytes in its register it fails.

Two widths suffice to have every case of BITS (wider, narrower, the same,
rounding, the cap) and a pop that writes a part of a register. Four or five cells are
enough for every word to meet a stack that is too short, one that fits, and one that
overflows in the middle of its pushes (2DUP, 2OVER).

### Where the code departs from the documents

`cells_branch`: with narrow cells a zero cell counts as true when the branch's
register has stale high bytes. The same module has, without runs of their own:

- BITS to narrow cells loses the bytes beyond the new limit: sixteen cells of 64 bits
  are 64 of 16 bits, and the index is capped at 48 (`forth_vm.c:484`; README.md:48);
- `64 BITS` is rejected when BITS' register has stale high bytes
  (`askforth_words.c:1024`; README.md:43);
- DEPTH leaves the high bytes of an earlier value, of the flag of the line's REFILL for
  instance (`askforth_words.c:149, 3404`; GUIDE/CORE_WORDS.md:38);
- SWAP and OVER report a missing cell and push what the registers held before
  (`askforth_words.c:260`; GUIDE/02-the-stack.md:299);
- the end of a line takes a cell off a full stack, where REFILL's flag was dropped
  (`forth_vm.c:453`; the comment at 452).

### What is proved

`CellStackProofs` proves `StacksInBounds`: `Spec => []TypeOK`, for every byte, every set of
widths and every limit such that `Limit[w] * w <= Size`. `TypeOK` is inductive. The argument:
`CellInArray` (the bytes of a cell below the limit lie in the array) makes `Pop` and `Push`
maps of typed stacks to typed stacks (`PopTyped`, `PushTyped`); words are
compositions of them (`AfterTyped`); `RescaledTyped` is the cap of BITS; after
REFILL's push the index is at least 1, because a limit is, so the `index--` stays in range.

It proves, under the same assumptions, that `CellStack` implements `ValueStack` step by step:

- `ShufflesKept`: `Spec => MovesCells`;
- `ValuesDecide`: `Spec => DecidesByValue`;
- `RegistersReturn`: `Spec => ReturnsCells`;
- `BytesStay`: `Spec => RecutsBytes`.

`PopTakes` and `PushPuts` are the two facts about the array: a pop leaves a register whose low bytes are
the cell, a push appends the low bytes of one, or nothing. They are composed along the C function of
each word. Two registers hold equal numbers at full width exactly when their cells are equal, which is where
`DecidesByValue` needs the width. BITS is division: the n-th byte is byte `n % width` of cell `n \div width`
before and after (`QuotientBelow` of `Lemmas`).

## 5. Numbers

`Numbers` extends `CellStack` by the words that compute: `+ - * AND OR XOR LSHIFT RSHIFT`
(`Arithmetic`), `CELLS CELL+ CHARS CHAR+ INVERT` (`Change`), `< <= > >=` (`Order`), `0< 0>`
(`OrderZero`), `/MOD` and `SIGNED UNSIGNED`. `Next` of `CellStack` is one of its steps, so that each word
runs on the other's registers. The C code computes on all of a register (`Result`), whatever the
width of the cells is; the properties state what that means for cells.

| Property | Says |
|---|---|
| `WrapsAtWidth` | at every width and with any stale bytes, results are those of the cells, modulo the size of a cell |
| `OrdersByMode` | at full width comparisons order numbers, or numbers in two's complement, as the mode says |
| `DividesAndShifts` | at full width quotient and remainder fit their operands, a shift loses what is pushed out, and only division by zero ends the process |

Run `numbers` starts in every state of a small machine (both widths, both signs, every depth, cells
at the boundaries, clean and stale registers, a return stack empty or full) and runs one word. A byte has three bits:
that is enough for a carry between bytes, a sign and a borrow, and it keeps the number
of states small. One word is enough, because the properties are about single words and the registers
that any words before left are in the initial states.

Departures: `0<` and `0>` are reversed, since they take zero for the left
operand (`askforth_words.c:888, 953`; GUIDE/02-the-stack.md); narrow comparisons read stale bytes.
A division is unsigned in both modes. A shift by more bits than a register has is masked on x86-64.

## 6. StructuredCode and Compiler

`StructuredCode` says what a definition is to a programmer: a text of tokens whose meaning is
the graph of operations that IF .. ELSE .. THEN, BEGIN .. WHILE .. REPEAT and EXIT structure by their
nesting (`Program`), and a list of complete words whose meanings never change.

`Compiler` is what the code does: memory as a map from addresses to cells (`mem`), the
allocation index (`top`), `curr_compiling.here` (`here`), the control-flow stack (`cf`), the register
that its words use (`c00`). A value is stored at `here`, and the next cell is then allocated
(`Put`, `library/library.c:322-338`); THEN, ELSE and REPEAT store offsets at the addresses that
they pop. `Decoded` reads code the way the executor does and makes the graph of it; `Promise` maps
`programs` to the graphs of all complete words. An error message, a string while interpreting and
ALLOT take memory, too.

| Property | Says |
|---|---|
| `KeepsMeaning` | `Compiler` implements `StructuredCode`: what is complete means its text, for good |
| `OpenInOwnCode` | the addresses of what is open in the text are on top of `cf`, in its own code |
| `WritesNewest` | nothing is written below the definition compiled last, not even after one that was given up open |
| `SeesCode` | `see` names the operations that were compiled |

Run `compiler`: two definitions of seven units of effort (control flow counts one, other
tokens two), enough for a loop with a branch in it, an IF .. ELSE .. THEN in another one, and a second
word that calls or inlines the first; memory of 30 cells, so that it runs out at every point; a control-flow
stack of three cells. Strings have a length that is no multiple of a cell.

`Liberties` are what programs may do and the compiler does not expect; each one violates
a property, and the passing run has none of them:

| Liberty | What happens |
|---|---|
| `"unbalanced"` | THEN without IF patches where the register points; `;` with something open leaves its address to the next definition (`askforth_words.c:2451`) |
| `"continue"` | after an immediate word failed its message lies between two cells of code, and `continue` goes on compiling behind it (`error_thrower.c:91`, `library/library.c:330`; README.md:113 promises that "`continue` can skip the failed word and resume execution from the preserved execution context") |
| `"allocate"` | ALLOT or a string between `[` and `]` leaves a hole |
| `"nested"` | a definition begins inside another one |
| `"exit"` | an inline word is copied up to its first endword, which EXIT compiles, too |
| `"deep"` | more constructs are open than `cf` has cells, and the innermost are dropped |
| `"overrun"` | ALLOT of more than there is: the allocation index leaves memory, and HERE with it |

### What is proved

`CompilerProofs` proves for all sizes of memory, of what is put there, of texts and of the
control-flow stack, for programs that are `Orderly` (without the liberties `"unbalanced"`, `"nested"`, `"deep"` and
`"overrun"`; `"continue"`, `"allocate"` and `"exit"` are allowed):

- `CellsTyped`: `Spec => []TypeOK`;
- `OwnCode`: `Spec => []OpenInOwnCode`;
- `NewestWritten`: `Spec => WritesNewest`.

The invariant `IInv` adds to the types that the open text is one that the grammar accepts (`Grammar`), that the
cell allocated last lies in the newest definition (`Newest`), and that the newest `Owed` addresses on `cf` lie
in its code (`Own`). `Owed` counts a WHILE twice: BEGIN's address stays under WHILE's until REPEAT takes
both, while the nesting of the text counts the construct once. `OpenInOwnCode` speaks of the
nesting only, and is not inductive: after a REPEAT it needs the address below the two it took. The lemma under all
of it is that a sentence of the grammar nests (`Nests`), by induction over its length in the form of a least
counterexample (`Lemmas`).

`KeepsMeaning` and `SeesCode` decode code that is read by a fold over cells; what `Decoded` computes of every
text is an induction over data, and stays with TLC.

## 7. Image

PROGRAM turns every address in memory into an offset, writes the memory behind a copy of the
executable, and turns the offsets back. A process started from that file does the second half.
`Image` instantiates `Library` for the lists (`Lib`), so that what is saved was made by its operations, and adds to
each record the form of its addresses: of which process they are, an offset, or nothing. Code is
a sequence of cells: labels of the executor, numbers, addresses, native procedures. `OffsetCode`
and `RelocatedCode` are the passes over it (`ram_manager.c:173-302`), `OffsetRam` and `RelocatedRam` the walks along
the lists (355-522); a walk that follows an address which is none ends the process.
`op_literal_relocatable` and `op_literal` are labels of one statement (`forth_vm.c:125-126`), so the two operations
compile to one address (91-92) and to one label in the model (`Label`).

| Property | Says |
|---|---|
| `ImageKept` | a process started from an image has all dictionaries, used and forgotten, and of the words those that the walks meet, with the code they were compiled to, its labels and calls relocated to where memory is now; where the addresses of literals lead is left out |
| `SaveKeeps` | after a save the process has all links and all code as before, and the procedures of the native words that the walks do not meet; claimed while no code refers to a native word and no string fills its cells |

Run `image`: a core with a native word, three dictionaries, two threaded words with every kind of operation in
front of one that it could be taken for, a foreign word, two files, two processes, five requests: enough
to forget, remember or promote, to save twice, and to save into a file that has an image. Bodies put an
address behind a string, a call behind a branch, and so on, since a pass that loses count takes an operand for a label.
The threaded words, the dictionaries other than the core one and the saved files are symmetric: nothing tells them apart.

Run `image_literal` violates `LiteralsRelocated`, and is a finding: the pass looks for `op_literal` first
(`ram_manager.c:181`) and finds a relocatable literal under that address, too, so 185-188 are never reached and the
address in the literal stays one of the process that saved. The comment at 370 says "offset all addresses ( including
literals marked as relocatable )". A word with a string, or one that leaves an address, leaves a wrong one after a boot.

What else the properties leave out is what the code does not do:

- in each dictionary the walk starts at the newest word and follows `next`, so older words stay
  as they were (`ram_manager.c:380, 469`); the comment at 370 says that it "must do a one pass on all threaded code found";
- the pass counts skipped data one cell short of the executor, so the last cell of a string that
  fills its cells is taken for an operation, and a small number there becomes a label
  (`ram_manager.c:206, 272`; `forth_vm.c:144`) in the process that saves, too;
- the address in `error"` is not offset, because a label is taken for it (227); the label of
  foreign words has no case;
- a native word's number is looked up under its name in a table whose entries `NEW_NATIVE_WORD` has moved to the
  ends of the names (`askforth_words.c:3479-3485`), so none is found (`ram_manager.c:307`): one that the walks meet,
  because it is the newest of its dictionary or was forgotten, has no procedure after relocation (333), in the image and
  in the process that saved;
- a reference to a native word is looked up in the same table, and ends the save before the footer is
  written (259);
- a file saved by a process that was itself started from an image may not run: whether there is an
  image to cut off is decided the wrong way round (`loader.c:215`);
- a save to the file that runs opens no file and writes to the null pointer.

## 8. Foreign

`Foreign` models the memory in which the C library places objects (`node`, with links that are whatever
was there before), the two ends of the list, the one signature into which all declarations are
read (`sig`), the words with their copies of it, and the stack. FOREIGN, FREEFOREIGN and FUNCTION: read their names with
PARSE-NAME, which passes an address and a length over the program's stack (`askforth_words.c:2978, 3001, 3143`): when
they do not fit, the pops take cells of the program for a name, so any library may be meant, or the process ends (`NamePopped`,
`NameDies`). A declaration for a dictionary that is not found binds the function and adds no word, without a message
(`library/library.c:243-246`). `Search` is the walk along `prev` that
binding and freeing make; to read a freed object may end the process or find it as it was. `born` is
history: when an object was loaded.

| Property | Says |
|---|---|
| `WordsAsDeclared` | every word calls its function in a loaded library, with the number of arguments and the result its own declaration has |
| `NewestBinds` | as long as a loaded object has a function, a search for it ends well, and a declaration binds the one loaded last of those that have it |
| `PassesArguments` | the C function gets the cells its declaration names, the deepest first, on an aligned stack, and takes just those |

Run `foreign`: two libraries that share a function, three places in memory, so that a place is used
again; three declarations (none, two, a wrong one); two registers for arguments; a stack of three
cells, which PARSE-NAME overflows; four loads and frees. `Places` permutes addresses and values, neither of which anything
else tells apart. `ForeignAssumption` has every declaration name at most `MaxArgs` parameters (16 in the code).

Liberties, none of which the run has: `"ends"` (freeing the newest or the oldest of several objects leaves
`recent_obj`, `objects` or a link dangling; `load_extern_library.c:137-145`; an object that is alone may be freed when
its links are NULL, but when malloc left something else in them the ends of the list stay where they
were, and an object loaded later is linked to freed memory; 40-56), `"in use"` (freeing an
object whose words remain), `"unbound"` (FUNCTION: of an unknown function reports a failure and still
adds the word, with the handle that was bound before; `askforth_words.c:3204`), `"bare"` (`( )` keeps the result of the
declaration before), `"many"` (arguments beyond the registers are read from below the others, and an odd
number of them misaligns the stack; `load_extern_library.c:407`), `"full"` (a result is pushed without room; 171).

### What is proved

`ForeignProofs` proves for all libraries, functions, declarations, places in memory and sizes of the stack, for
programs without liberties:

- `ForeignTyped`: `Spec => []TypeOK`;
- `DeclarationsKept`: `Spec => []WordsAsDeclared`;
- `ArgumentsPassed`: `Spec => PassesArguments`;
- `BoundInNewest`: `Spec => NewestBinds`.

`WordsAsDeclared` is not inductive: it needs that a search finds what is loaded, and that needs the list. `IInv`
states the list by the ages of its members, so that no sequence of them is needed: `Aged` (no two are of
one age, the ends are the oldest and the newest) and `Linked` (before each object but the first stands the
next older one; what the first and the last have on their outer sides is anything). A search passes older and
older objects (`OlderAndOlder`), so it finds the newest of a set before it has
followed as many links as there are places, or it would have met more objects than fit (`Found`, by counting).
`MeaningRead` is the loop over the tokens of a declaration: after each token the
signature is that of the tokens so far.

The attempt to prove `NewestBinds` found the case of the liberty `"ends"` in which an object is alone: with three places
and four loads and frees TLC does not meet its consequences, with four and ten it does.

## 9. Sources

`Sources` has what `ThreadedVM` abstracts from: texts as symbols, the buffer of each source with `in`
and `in_max`, files read in lines of at most a buffer, blocks, and the data stack, over which
REFILL passes its flag and INCLUDE its file name. There is an action for each end of a text (`LineEnd`), for each step
of a comment, and for each word that reads or opens a source. `files` and `blocks` are chosen in the
initial state, so that a run has all of a set of files.

| Property | Says |
|---|---|
| `NothingSkipped` | what was taken from a source and what is left of it are the tokens of its text |
| `EndsAtEnd` | a source that is left is left at its end |
| `CommentInSource` | an open comment is in the current source |
| `LineEndKeepsStack` | the end of a line, string, block or file leaves the stack to the program |
| `Waits` | the user is asked again, or something failed |

`Tokens` is the reference: the tokens of a text by splitting it at its blanks (`Cut`), which says nothing
of buffers. History: `text` and `read` of a source.

Run `sources`: every file of up to three lines out of eight kinds (comments, an empty line, a
CRLF, a line that fills the buffer, lines that include, evaluate, load and refill), a second file that includes a third one, three
pairs of blocks, two lines typed. Input stack and data stack hold four, so that both overflow.

The texts of the run are `Tidy`: lines end in a line feed and fit the buffer, strings and blocks end in a
blank (`MCSources` assumes it, and TLC checks it). Files and strings close their comments, keyboard lines
may leave a comment open. Other texts violate a property:

| Text | What happens |
|---|---|
| last line without an end | its last token is dropped (`NothingSkipped`; `input_stack.c:53`; GUIDE/06-input-and-blocks.md:32, "The contents of the file are processed as if they had been entered as Forth source.") |
| a line longer than the buffer | a token is cut in two (`NothingSkipped`; `askforth_words.c:3337`) |
| a carriage return by itself | REFILL leaves no flag and a cell of the program is taken (`LineEndKeepsStack`; `forth_vm.c:453`) |
| `(` unclosed in a file | the comment goes on in the place of the source that was closed, and never ends (`CommentInSource`, `Waits`; `askforth_words.c:1494`) |
| `(` unclosed in a string | REFILL has nothing, and the loop does not end (`Waits`) |
| a file that is opened on a full input stack | the file is dropped, and the source that was current is made as long as its first line, past its buffer perhaps (`TypeOK`; `askforth_words.c:3343-3345`) |

A comment over lines leaves a flag of REFILL on the stack for each of them
(`RefillComment`; GUIDE/02-the-stack.md:95 says that "The contents of the comment are ignored by the interpreter").
`LineEndKeepsStack` is about ends of lines outside of comments. INCLUDE at the end of a line reads the null pointer,
and a `\` whose line ends in a blank passes over the next one: these are in the model.

Fairness: the interpreter is one thread that waits for nothing but the user, so an enabled
step of `System` is taken some time. This is weak fairness, but written with `Busy`, which says when `System` is enabled:
TLC computes ENABLED of so many disjuncts slowly. `tick` turns with every step of the machine, so that no step is
a stutter (a comment may refill a string for ever without a change). The user and the debugger are not fair.

### What is proved

`SourcesProofs` proves for all symbols, files, blocks, strings, lines, sizes of the buffer and of the input
stack, and for every data stack of at least two cells (INCLUDE passes two over it):

- `TypeCorrect`: `Spec /\ []Roomy => []TypeOK`;
- `ReadWhole`: `Spec /\ []Roomy => []NothingSkipped`, if texts are `Tidy`;
- `LeftAtEnd`: `Spec /\ []Roomy /\ []Closed => EndsAtEnd`, if texts are `Tidy`;
- `StackKept`: `Spec /\ []Roomy => LineEndKeepsStack`, if the lines of files end in a line feed (`LinesEnd`);
- `CommentsStay`: `Spec /\ []Roomy /\ []Closed => []CommentInSource`.

Each hypothesis is one of the rows of the table above, and no more than the property needs: the types do not
depend on how texts look, the stack does not depend on how long their lines are. `Roomy` says that no file is
opened on a full input stack, `Closed` that a comment which is open in a file is closed before the file ends. The
programs of run `sources` are `Tidy`, and all their states are `Roomy` and `Closed` (TLC agrees when the two
are added to the invariants of `sources.cfg`), although they fill the input stack and the data stack, and fail.

The invariant `IInv` says of each source by itself that it is `SourceOK`: its numbers are those of a keyboard, a
string, a block or a file (`Kind`), and, if texts are tidy, the last symbol of what is valid in its buffer is a
blank, and what was read, what is left of the buffer and what is left of the file are the text (`Right`).
`NothingSkipped` by itself is not inductive, because a token without a blank behind it in the buffer is none:
without the blank REFILL would drop it. On the stack `IInv` says what an address is the address of, since
EVALUATE takes its text from there. A failed machine has no open comment, or `continue` would go on in it.

The argument is about one function, `Tokens`. Its cut of a text is the only function that its recursion
describes (`CutExists`, `TokensAre`), and what was cut before a blank stays in front of what is cut behind it
(`CutAfter`), so a text may be cut in two behind any blank (`CutAt`). `TokenFound` is `askf_next_token`: it
takes the first token and its blank. `LineIs` is `_askf_custom_fgets`: behind its line are the tokens that were
not in it, when lines fit the buffer; where a carriage return or a full buffer ends a line it needs the text to
be tidy. `Moved` then says that every step only moves tokens from what is left to what was read, for `(`, `\`,
REFILL and the rest alike; a comment that looks for a token in a source without one takes the blanks (`Spent`), which are none. Sources below the current one do not change, except the one a comment is read from
(`ReplacedIs`).

`CommentInSource` needs `Closed`, because at the end of a file REFILL closes the source whose comment is still
open. `EndsAtEnd` needs it, too: once the source of an open comment is gone, REFILL closes others that have
not been read.

## 10. SearchOrder and Library

### State and code

| Variable | Code |
|---|---|
| `base`, `recent` | `lib->dictionaries_base`, `lib->recent_dic` |
| `dnext`, `dprev` | `next`, `prev` of every dictionary |
| `wbase`, `wrecent` | `words_base`, `recent_word` of every dictionary |
| `wnext`, `wprev`, `origin` | `next`, `prev`, `dict_origin` of every word |
| `sdbase`, `sdrecent`, `swbase`, `swrecent` | the ends of the shadow library's two lists |
| `dicts`, `words`, `listed`, `kept` | history: what was created, and what of it is in use |

One action per operation: `AddWord` (`:` and FUNCTION:, and how the core is filled),
`Forget` ([FORGET], by dictionary and name), `XtForget` (FORGET, by address), `NewDict`,
`ForgetDict`, `RememberDict`, `PromoteDict`. `Discard` is the code the two kinds of FORGET
have in common. `Reach` is what a walk along the links meets; it is a least set,
so that it is defined for rings too.

`SearchOrder` says the same of a sequence of dictionaries in the order in which they
are searched, a sequence of words for each, and two sets of what was forgotten.
`Promise` reads these off the links. `KeepsOrder` is the refinement.

### Liberties

Words on lists take an address from the stack and do not look at it. Three uses of
them ruin the lists, and the code accepts them:

| Use | What happens |
|---|---|
| `"stale xt"` | a word that was forgotten is forgotten again, or a forgotten dictionary is forgotten or promoted: the members of the shadow library are taken for neighbours in the library (`askforth_words.c:601, 2115, 2250`) |
| `"promote end"` | the first dictionary becomes its own successor; after the last one was promoted `recent_dic` is not the last (`askforth_words.c:2260`, `library/library.c:105`) |
| `"remember oldest"` | the oldest of several forgotten dictionaries is remembered, and the shadow library is empty (`askforth_words.c:2205`) |

`Liberties` says which of these a program makes. A search of a list with a ring does not
end, so states behind such a use are of no further interest; the passing run and the
theorems are about programs with `Liberties = {}`. Nothing in the documents forbids the
three uses. Under each of them `LinksAgree` and `NothingLost` fail, and under the first
two `OneLibrary` as well, although "a word/dictionary must not be inside the main library and inside the shadow library
at the same time" (`library/library.h:76`): a forgotten dictionary that is promoted is in both.

### What the runs show

| Run | Program | Properties |
|---|---|---|
| `library_careful` | four dictionaries, three words, two of one name; no liberties | `TypeOK`, `LinksAgree`, `OneLibrary`, `NothingLost`, `FindsNewest`, `KeepsOrder` |
| `library_remember` | three dictionaries; the oldest forgotten one is remembered | `NothingLost` is violated |

`library_remember` is a divergence: the shadow library is to be the "reliable source of
truth of what is in memory" (`library/library.h:71`), and forgetting two dictionaries
and remembering the one forgotten first leaves the other one in neither library.

`FindsNewest` relates the two directions of the links: a definition is appended through
`next`, the search goes back through `prev`, and the four operations on dictionaries
rewrite the two by different case distinctions.

Bounds: four dictionaries are enough for the library to have a first, a middle and a
last one while something is forgotten, or for the shadow library to have three; three
words are enough for a list with a middle, and two of one name for one definition to
hide another, in one dictionary or in two. A word is created once, so the sequences of
definitions are finite; dictionaries are forgotten and remembered without limit. The new
dictionaries are symmetric, and so are the two words of one name: no action, no
property and no constant tells them apart, and no property of the run is a liveness
property.

### What is proved

`LibraryProofs` proves for all sets of dictionaries, words and names, for programs
without liberties:

- `LinksTyped`: `Spec => []TypeOK`;
- `ListsLinked`: `Spec => []LinksAgree`;
- `LibrariesDisjoint`: `Spec => []OneLibrary`;
- `AllReachable`: `Spec => []NothingLost`;
- `OrderKept`: `Spec => KeepsOrder`, that `Library` implements `SearchOrder`;
- `NewestFound`: `Spec => []FindsNewest`.

The assumptions are those of the module: null is no address, the core dictionary is one.
The invariant `IInv` is `TypeOK`, that each list is a `Line`, and that a word's `dict_origin` is a dictionary,
which FORGET by address needs. `LinksAgree` (neighbours know one another) leaves room for a
ring beside a list, which no walk finds; a `Line` excludes it by `Spans`: every set that has the
first member and with each member its successor has all of them, and the same from the other end. This
is the induction that walks need, stated as a property of sets, so nothing has to be counted. The
operations are compositions of four changes to a list whatever its nodes are: `Without` (a member is taken
out), `Appended`, `Prepended` and `Same` (the links of the members did not change), each with its lemma
about `Spans`. A step shows for each of the four kinds of lists which of them it is. `WalksFind` (a walk from
either end of a list finds just its members) gives `OneLibrary` and `NothingLost`.

`OrderKept` and `NewestFound` speak of the order in which members are met, for which a list needs a sequence.
It gets one from the same invariant: a list has a `Path` (`PathExists`), a sequence of its members without
repetition, each followed by its successor, because a set that cannot be walked any further has all of
them. A path is no longer than there are nodes (`PathLength`, by counting), so `Chain` of the model
finds it (`ChainIs`). Each change to a list is then a change to its path: `GrownPath`, `LedPath` and
`ShrunkPath` are SearchOrder's append, prepend and remove, and each operation has a lemma (`NewDictMaps` ..
`DiscardMaps`) that its step is the step of its promise. `FindsNewest` follows since a walk back from
a member of a path meets just the members before it (`BackFrom`).

## 11. Only model-checked

- `Responsive` and `Waits` are liveness under fairness, out of the prover's reach.
- `KeepsMeaning` and `SeesCode` of the compiler: what code decodes to is an induction over data.
- `Numbers`, because Bitwise is a module of recursive operators.
- `Image`: the passes over code and memory are folds over data of any length, and `ImageKept` relates what
  they compute in one process to what they compute in another.
- Nothing of `Sources` but `Waits`; texts that are not tidy and programs that are not `Roomy` and `Closed`
  violate the properties that the proofs establish (section 9).
- Disciplined programs with a full stack, and programs without discipline, for the three theorems of `OrderProofs`;
  programs with liberties everywhere.

## 12. Not modelled

- Words that read and write memory (`!` `@` `C!` `C@` FILL COPY), NEGATE, printing. In `ThreadedVM` native
  words work or fail.
- Widths of the return and control-flow stacks: BITS changes the data stack only.
- A wrapping ALLOT; the first allocation of a process started from an image, which overwrites it
  (`loader.c:138`).
- SOURCE, >IN and PARSE-NAME as words of programs; files that cannot be closed or read; strings
  whose memory is used again.
- Declarations of more than 16 parameters: the seventeenth is written over the count behind the array
  (`ffi/load_extern_library.h:22`, `askforth_words.c:3054`).
- STARTER, `.FOREIGN`, binding again after an image was loaded (the functions that would
  relocate the list of objects are empty, `ram_manager.c:142-145`).
- The debugger's line buffer, which keeps the tail of a longer line (`fallback.c:587`), and the ring of
  traced errors, which only printing reads.
- The number parser: digits wrap at 64 bits (`tokenizer.c:118`). The editing of a line
  (`input_read_linux.c:186`), which is then copied from a larger into a smaller buffer (264).
- LINE, EDIT and FLUSH of blocks.
- EXECUTE of a foreign word: like a native word that works or fails.
- Windows: the same code with other system calls.
- Names in the library: a dictionary is found by its address (the comparison in
  `library/library.c:118-123` reads behind a token shorter than the dictionary's name); a FORGET of an unknown name ends the process (`askforth_words.c:597`).
- :NONAME words: they are on no list; FORGET of one dereferences a null dictionary.
- Drawing of the line editor, mapping of blocks, generated trampolines: I/O and
  machine code.
- The optimizer, a stub.

## Running

    tlc -config vm_any.cfg MCThreadedVM        (any vm_*.cfg)
    tlc -config cells_branch.cfg MCCellStack
    tlc -config numbers.cfg MCNumbers
    tlc -config library_careful.cfg MCLibrary  (any library_*.cfg)
    tlc -config compiler.cfg MCCompiler
    tlc -config image.cfg MCImage              (or image_literal.cfg)
    tlc -config foreign.cfg MCForeign
    tlc -config sources.cfg MCSources
    tlapm ThreadedVMProofs.tla
    tlapm CellStackProofs.tla
    tlapm LibraryProofs.tla
    tlapm OrderProofs.tla                      (any other *Proofs.tla, Lemmas.tla)
