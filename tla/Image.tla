-------------------------------- MODULE Image --------------------------------
(***************************************************************************)
(* The images of AskForth: PROGRAM copies the executable and appends what  *)
(* the process has in memory, all addresses turned into offsets; a process *)
(* started from that file turns them back.  Both passes walk the lists of  *)
(* the library, whose operations are those of Library, and rewrite the     *)
(* compiled code cell by cell.                                             *)
(*                                                                         *)
(* Processes have numbers.  The form of an address is the number of the    *)
(* process in which it is one, Offset in an image, or Lost when it is      *)
(* neither.                                                                *)
(***************************************************************************)
EXTENDS Integers, FiniteSets, Sequences, SequencesExt

CONSTANTS
  Dicts, Core, Null,   \* as in Library
  Natives,             \* the words of the core, in the order they are added
  Threaded, Foreigns,  \* the words a user may define
  Bodies,              \* what a user may compile: sequences of kinds of operations
  Plain, Saved,        \* the executable as it was built; the names of others
  MaxProcs,            \* a bound on the processes
  MaxEffort            \* a bound on what users ask for

Words == ToSet(Natives) \cup Threaded \cup Foreigns
Files == {Plain} \cup Saved

Offset == 0
Lost == -1
Forms == {Offset, Lost} \cup 1 .. MaxProcs

VARIABLES
  base, recent, dnext, dprev, wbase, wrecent, wnext, wprev, origin,
  sdbase, sdrecent, swbase, swrecent, dicts, words, listed, kept,
  ram,      \* the forms of the addresses in memory, and the code
  body,     \* history: the operations that each word was compiled from
  running,  \* the file of the process
  fresh,    \* the process found no image
  files,    \* what is in each file
  effort    \* how many operations users have asked for

Lib == INSTANCE Library WITH
  Names <- Words, NameOf <- [w \in Words |-> w], Liberties <- {}

linkVars == <<base, recent, dnext, dprev, wbase, wrecent, wnext, wprev, origin,
              sdbase, sdrecent, swbase, swrecent, dicts, words, listed, kept>>
vars == <<linkVars, ram, body, running, fresh, files, effort>>

-----------------------------------------------------------------------------
(* Compiled code.  A cell is a label of the executor, a number, an address *)
(* or a native procedure's, each with its form.                            *)

\* AskForthOPids
Id == [lit |-> 0, rlit |-> 1, word |-> 2, branch0 |-> 3, branch |-> 4,
       native |-> 5, skip |-> 7, error |-> 8, end |-> 9]
Large == 99

\* op_literal_relocatable and op_literal are labels of one statement, so they have
\* one address.
Label(k, p) == <<"label", IF k = "rlit" THEN "lit" ELSE k, p>>

Num(n)      == <<"num", n, 0>>
Addr(x, f)  == <<"addr", x, f>>
Proc(w, f)  == <<"proc", w, f>>
Redzone     == <<"redzone", 0, 0>>

\* The cells of an operation as process p compiles them.  x is the word that it
\* is about; the characters of a string have no other address than their word.
\* An operation that skips passes over a cell of data: characters, or, when the
\* string fills its cells, zeros behind its end.
OpCells(w, o, p) ==
  LET k == o[1]
      x == o[2]
      passed(n) == <<Label("skip", p), Num(1), Num(n)>>
      text == <<Label("rlit", p), Addr(w, p), Label("lit", p), Num(Large)>>
  IN  CASE k = "number"  -> <<Label("lit", p), Num(Large)>>
        [] k = "address" -> <<Label("rlit", p), Addr(x, p)>>
        [] k = "call"    -> <<Label("word", p), Addr(x, p), Addr(x, p)>>
        [] k = "native"  -> <<Label("native", p), Proc(x, p), Addr(x, p)>>
        [] k = "foreign" -> <<Label("foreign", p), Addr(x, p)>>
        [] k = "if"      -> <<Label("branch0", p), Num(Large)>>
        [] k = "string"  -> passed(Large) \o text
        [] k = "full string" -> passed(0) \o text
        [] k = "error"   -> passed(Large) \o <<Label("error", p), Label("lit", p), Addr(w, p),
                                               Label("lit", p), Num(Large)>>

Code(w, ops, p) == FlattenSeq([i \in 1 .. Len(ops) |-> OpCells(w, ops[i], p)])
                     \o <<Label("end", p), Redzone>>

-----------------------------------------------------------------------------
(* Offsetting and relocating, as functions of the memory s of process s.p. *)

\* __offset_address, __relocate_address: an address of another process becomes
\* one of nothing.
OffsetForm(s, f) == IF f = s.p THEN Offset ELSE Lost
RelocatedForm(s, f) == IF f = Offset THEN s.p ELSE Lost

\* Mutant: a call is taken for an operation with one operand.
OneCallOperand == <<"move">>

\* The code and the word.
CallOperands == <<"move", "move">>

\* What offsetting and relocating do to a cell that is taken for an address.  A
\* label is none of memory: what is left of it is one again in its process only.
OffsetCell(s, c) ==
  IF c[1] = "label" THEN <<"moved", c[2], c[3]>> ELSE <<c[1], c[2], OffsetForm(s, c[3])>>
RelocatedCell(s, c) ==
  IF c[1] = "moved" THEN Label(c[2], IF c[3] = s.p THEN s.p ELSE Lost)
  ELSE <<c[1], c[2], RelocatedForm(s, c[3])>>

\* What a pass does to the operands of an operation of kind k whose first operand
\* is c.  What is skipped is counted from there on, so the last cell of it is not
\* passed over, unlike in the executor; of an error a label is taken for the
\* address.
Operands(k, c) ==
  CASE k \in {"lit", "branch0", "branch"} -> <<"keep">>
    [] k = "rlit"   -> <<"move">>
    [] k = "word"   -> CallOperands
    [] k = "native" -> <<"procedure", "move">>
    [] k = "skip"   -> [i \in 1 .. c[2] |-> "keep"]
    [] k = "error"  -> <<"move", "keep">>
    [] OTHER        -> << >>

\* One pass over code: flag(c) is what becomes of a cell that an operation is
\* expected in, with its kind, which is null if it is none; operand(how, c) is
\* what becomes of an operand.
Pass(cells, flag(_), operand(_, _)) ==
  LET step(t, i) ==
        IF t.stop THEN t
        ELSE IF t.todo # << >>
        THEN [t EXCEPT !.out[i] = operand(Head(t.todo), @), !.todo = Tail(@),
                       !.procedures = IF Head(t.todo) = "procedure" THEN @ \cup {i} ELSE @]
        ELSE IF cells[i] = Redzone THEN [t EXCEPT !.stop = TRUE]
        ELSE LET f == flag(cells[i])
             IN  [t EXCEPT !.out[i] = f.cell,
                           !.todo = IF f.kind = Null THEN @ ELSE Operands(f.kind, cells[i + 1])]
  IN  FoldLeftDomain(step, [out |-> cells, todo |-> << >>, procedures |-> {}, stop |-> FALSE], cells)

\* __offset_threaded_code: the labels of the pass's process become numbers.  The
\* one of a foreign word does not.  That of a literal is first looked for as
\* op_literal, so the case of a relocatable one is never reached.
OffsetCode(s, cells) ==
  LET flag(c) == IF c[1] = "label" /\ c[2] \in DOMAIN Id /\ c[3] = s.p
                 THEN [cell |-> Num(Id[c[2]]), kind |-> c[2]] ELSE [cell |-> c, kind |-> Null]
      operand(how, c) == IF how = "move" THEN OffsetCell(s, c) ELSE c
  IN  Pass(cells, flag, operand).out

\* __relocate_threaded_code
RelocatedCode(s, cells) ==
  LET flag(c) ==
        IF c[1] = "num" /\ \E k \in DOMAIN Id : Id[k] = c[2]
        THEN LET k == CHOOSE k \in DOMAIN Id : Id[k] = c[2]
             IN  [cell |-> Label(k, s.p), kind |-> k]
        ELSE [cell |-> c, kind |-> Null]
      operand(how, c) == CASE how = "move" -> RelocatedCell(s, c)
                           [] how = "procedure" -> Proc(c[2], Lost)
                           [] how = "keep" -> c
  IN  Pass(cells, flag, operand)

\* Mutant: a word's links are forgotten.
OffsetWordUnlinked(w, s) ==
  [s EXCEPT !.code[w] = OffsetCode(s, @),
            !.native = IF w \in DOMAIN @ THEN [@ EXCEPT ![w] = Lost] ELSE @]

\* A record's links have one form; so have a word's name and, unless it is native,
\* the address of its code.  The number of a native word is looked for under its
\* name in a table whose entries adding the core words has moved to the ends of
\* the names, so none is found; what the number before the table's first is for
\* is lost.
OffsetWord(w, s) ==
  [s EXCEPT !.form[w] = OffsetForm(s, @), !.code[w] = OffsetCode(s, @),
            !.native = IF w \in DOMAIN @ THEN [@ EXCEPT ![w] = Lost] ELSE @]

\* A reference to a native word whose record still has its address in place of a
\* number is an access beyond the table and ends the process.
RelocatedWord(w, s) ==
  LET pass == RelocatedCode(s, s.code[w])
  IN  [s EXCEPT !.form[w] = RelocatedForm(s, @), !.code[w] = pass.out,
                !.ok = @ /\ \A i \in pass.procedures : s.native[s.code[w][i + 1][2]] = Lost]

OffsetDict(d, s) == [s EXCEPT !.form[d] = OffsetForm(s, @)]
RelocatedDict(d, s) == [s EXCEPT !.form[d] = RelocatedForm(s, @)]

\* The member behind x: a link that is no address of the process cannot be read.
Behind(next, x, s) == [at |-> next[x], ok |-> s.form[x] = s.p]

\* A walk from x that reads the link of a member before it visits it.
WalkBefore(Node, next, visit(_, _), x, s) ==
  LET step(t, i) ==
        IF t.at = Null \/ ~t.s.ok THEN t
        ELSE LET behind == Behind(next, t.at, t.s)
             IN  [at |-> behind.at, s |-> [visit(t.at, t.s) EXCEPT !.ok = @ /\ behind.ok]]
  IN  FoldLeft(step, [at |-> x, s |-> s], [i \in 1 .. Cardinality(Node) |-> i]).s

\* A walk that reads the link of a member after it visited it.
WalkBehind(Node, next, visit(_, _), x, s) ==
  LET step(t, i) ==
        IF t.at = Null \/ ~t.s.ok THEN t
        ELSE LET visited == visit(t.at, t.s)
                 behind  == Behind(next, t.at, visited)
             IN  [at |-> behind.at, s |-> [visited EXCEPT !.ok = @ /\ behind.ok]]
  IN  FoldLeft(step, [at |-> x, s |-> s], [i \in 1 .. Cardinality(Node) |-> i]).s

\* What links there are.
Links == [base |-> base, recent |-> recent, dnext |-> dnext, dprev |-> dprev,
          wbase |-> wbase, wrecent |-> wrecent, wnext |-> wnext, wprev |-> wprev,
          origin |-> origin, sdbase |-> sdbase, sdrecent |-> sdrecent,
          swbase |-> swbase, swrecent |-> swrecent,
          dicts |-> dicts, words |-> words, listed |-> listed, kept |-> kept]

\* Where the walk over the words of a dictionary starts.  It follows next.
FirstVisited(l, d) == l.wrecent[d]

\* Mutant: so does the walk over the forgotten words.
NewestForgotten(l) == l.swrecent

FirstForgotten(l) == l.swbase

\* ram_manager_ram_to_image_offsets: the library, the shadow library, the
\* forgotten words.
OffsetRam(l, s) ==
  LET dict(d, t) == OffsetDict(d, WalkBefore(Words, l.wnext, OffsetWord, FirstVisited(l, d), t))
      used      == WalkBefore(Dicts, l.dnext, dict, l.base, s)
      shadowed  == WalkBefore(Dicts, l.dnext, dict, l.sdbase, used)
      forgotten == WalkBefore(Words, l.wnext, OffsetWord, FirstForgotten(l), shadowed)
  IN  [forgotten EXCEPT !.lib = OffsetForm(s, @), !.slib = OffsetForm(s, @)]

\* ram_manager_relocate_ram
RelocatedRam(l, s) ==
  LET dict(d, t) == WalkBehind(Words, l.wnext, RelocatedWord, FirstVisited(l, d), RelocatedDict(d, t))
      ends      == [s EXCEPT !.lib = RelocatedForm(s, @), !.slib = RelocatedForm(s, @)]
      used      == WalkBehind(Dicts, l.dnext, dict, l.base, ends)
      shadowed  == WalkBehind(Dicts, l.dnext, dict, l.sdbase, used)
  IN  WalkBehind(Words, l.wnext, RelocatedWord, FirstForgotten(l), shadowed)

-----------------------------------------------------------------------------
(* A process that found no image.  Its words are of the core, so it goes on  *)
(* only while the core is in use.                                            *)

CoreAdded == ToSet(Natives) \subseteq words
CanWork == ram.ok /\ fresh /\ CoreAdded /\ Core \in listed

Tries == CanWork /\ effort < MaxEffort /\ effort' = effort + 1

\* askf_add_core_words
AddCoreWord ==
  /\ fresh /\ ram.ok /\ ~CoreAdded
  /\ \E i \in DOMAIN Natives :
       /\ Natives[i] \notin words /\ \A j \in 1 .. i - 1 : Natives[j] \in words
       /\ Lib!AddWord(Core, Natives[i])
  /\ UNCHANGED <<ram, body, running, fresh, files, effort>>

\* What kind of word an operation is about.
About(k) == CASE k \in {"address", "call"} -> Threaded \cap words
              [] k = "native" -> ToSet(Natives)
              [] k = "foreign" -> Foreigns \cap words
              [] OTHER -> {Null}

\* `:` .. `;`
Define(d, w) ==
  /\ Tries /\ w \in Threaded
  /\ Lib!AddWord(d, w)
  /\ \E b \in Bodies : \E ops \in [1 .. Len(b) -> ({Null} \cup words)] :
       /\ \A i \in 1 .. Len(b) : ops[i] \in About(b[i])
       /\ body' = [body EXCEPT ![w] = [i \in 1 .. Len(b) |-> <<b[i], ops[i]>>]]
  /\ ram' = [ram EXCEPT !.code[w] = Code(w, body'[w], ram.p)]
  /\ UNCHANGED <<running, fresh, files>>

\* FUNCTION:
Declare(d, w) ==
  /\ Tries /\ w \in Foreigns
  /\ Lib!AddWord(d, w)
  /\ UNCHANGED <<ram, body, running, fresh, files>>

Rearrange ==
  /\ Tries
  /\ \/ \E d \in Dicts : Lib!NewDict(d) \/ Lib!ForgetDict(d) \/ Lib!RememberDict(d) \/ Lib!PromoteDict(d)
     \/ \E w \in Words : Lib!XtForget(w)
  /\ UNCHANGED <<ram, body, running, fresh, files>>

\* PROGRAM: the memory is offset, written, and relocated again; then the footer
\* is written.  A process that ends before that leaves a file without a footer.
\* The running file cannot be written to, and the null pointer is not looked at.
\* A file without a footer has its end cut off by what the last bytes of it say.
Save(f) ==
  /\ Tries /\ f \in Saved
  /\ LET offset    == OffsetRam(Links, ram)
         relocated == RelocatedRam(Links, offset)
         image     == IF offset.ok /\ relocated.ok THEN [links |-> Links, ram |-> offset, body |-> body]
                      ELSE Null
     IN  IF f = running THEN ram' = [ram EXCEPT !.ok = FALSE] /\ UNCHANGED files
         ELSE /\ ram' = relocated
              /\ \E runs \in IF running = Plain THEN {TRUE} ELSE BOOLEAN :
                   files' = [files EXCEPT ![f] = [runs |-> runs, image |-> image]]
  /\ UNCHANGED <<linkVars, body, running, fresh>>

-----------------------------------------------------------------------------
(* A new process, when the one before has ended.                            *)

Memory(p) ==
  [p |-> p, ok |-> TRUE, lib |-> p, slib |-> p, form |-> [x \in Dicts \cup Words |-> p],
   native |-> [w \in ToSet(Natives) |-> p], code |-> [w \in Words |-> << >>]]

\* Mutant: recent_dic is not set.
NoneAtStart == Null

NewestAtStart == Core

\* askf_create_library, askf_create_shadowlibrary
NoLinks ==
  [base |-> Core, recent |-> NewestAtStart,
   dnext |-> [d \in Dicts |-> Null], dprev |-> [d \in Dicts |-> Null],
   wbase |-> [d \in Dicts |-> Null], wrecent |-> [d \in Dicts |-> Null],
   wnext |-> [w \in Words |-> Null], wprev |-> [w \in Words |-> Null],
   origin |-> [w \in Words |-> Null],
   sdbase |-> Null, sdrecent |-> Null, swbase |-> Null, swrecent |-> Null,
   dicts |-> {Core}, words |-> {}, listed |-> {Core}, kept |-> {}]

NoBodies == [w \in Words |-> << >>]

SetLinks(l) ==
  /\ base' = l.base /\ recent' = l.recent /\ dnext' = l.dnext /\ dprev' = l.dprev
  /\ wbase' = l.wbase /\ wrecent' = l.wrecent /\ wnext' = l.wnext /\ wprev' = l.wprev
  /\ origin' = l.origin /\ sdbase' = l.sdbase /\ sdrecent' = l.sdrecent
  /\ swbase' = l.swbase /\ swrecent' = l.swrecent
  /\ dicts' = l.dicts /\ words' = l.words /\ listed' = l.listed /\ kept' = l.kept

CanBoot(f) == ram.p < MaxProcs /\ f \in Files /\ files[f].runs

BootWithout(f) ==
  /\ CanBoot(f) /\ files[f].image = Null
  /\ SetLinks(NoLinks) /\ ram' = Memory(ram.p + 1) /\ body' = NoBodies
  /\ running' = f /\ fresh' = TRUE
  /\ UNCHANGED <<files, effort>>

\* askf_load_image
BootWith(f) ==
  /\ CanBoot(f) /\ files[f].image # Null
  /\ LET image == files[f].image
     IN  /\ SetLinks(image.links) /\ body' = image.body
         /\ ram' = RelocatedRam(image.links, [image.ram EXCEPT !.p = ram.p + 1])
  /\ running' = f /\ fresh' = FALSE
  /\ UNCHANGED <<files, effort>>

Init ==
  /\ base = Core /\ recent = NoLinks.recent
  /\ dnext = NoLinks.dnext /\ dprev = NoLinks.dprev
  /\ wbase = NoLinks.wbase /\ wrecent = NoLinks.wrecent
  /\ wnext = NoLinks.wnext /\ wprev = NoLinks.wprev /\ origin = NoLinks.origin
  /\ sdbase = Null /\ sdrecent = Null /\ swbase = Null /\ swrecent = Null
  /\ dicts = {Core} /\ words = {} /\ listed = {Core} /\ kept = {}
  /\ ram = Memory(1) /\ body = NoBodies
  /\ running = Plain /\ fresh = TRUE
  /\ files = [f \in Files |-> [runs |-> f = Plain, image |-> Null]]
  /\ effort = 0

Next ==
  \/ AddCoreWord
  \/ \E d \in Dicts, w \in Threaded : Define(d, w)
  \/ \E d \in Dicts, w \in Foreigns : Declare(d, w)
  \/ Rearrange
  \/ \E f \in Saved : Save(f)
  \/ \E f \in Files : BootWithout(f)
  \/ \E f \in Files : BootWith(f)

Spec == Init /\ [][Next]_vars

-----------------------------------------------------------------------------
(* Properties.                                                             *)

Cells ==
  {"label", "moved"} \X (DOMAIN Id \cup {"foreign"}) \X Forms
    \cup {"num"} \X (0 .. 9 \cup {Large}) \X {0}
    \cup {"addr", "proc"} \X Words \X Forms \cup {Redzone}

TypeOK ==
  /\ Lib!TypeOK
  /\ ram.p \in 1 .. MaxProcs /\ ram.ok \in BOOLEAN /\ {ram.lib, ram.slib} \subseteq Forms
  /\ ram.form \in [Dicts \cup Words -> Forms] /\ ram.native \in [ToSet(Natives) -> Forms]
  /\ DOMAIN ram.code = Words /\ \A w \in Words : ToSet(ram.code[w]) \subseteq Cells
  /\ running \in Files /\ fresh \in BOOLEAN
  /\ \A f \in Files : files[f].runs \in BOOLEAN

\* What a word was compiled from.
Kinds(w) == {body[w][i][1] : i \in DOMAIN body[w]}

\* What is compiled without a native or foreign word and without a message.
Movable == {"number", "address", "call", "if", "string"}

\* The code that w was compiled to, as it is in the process that runs.
CodeOf(w) == Code(w, body[w], ram.p)

\* The cells c are e but for where the addresses lead that are literals' operands.
SameButLiterals(c, e) ==
  LET literal(i) == e[i][1] = "addr" /\ i > 1 /\ e[i - 1][1] = "label" /\ e[i - 1][2] = "lit"
  IN  /\ Len(c) = Len(e)
      /\ \A i \in DOMAIN e : c[i] = e[i] \/ (literal(i) /\ c[i][2] = e[i][2])

\* The words that the walks meet.
Visited == ({wrecent[d] : d \in dicts} \ {Null}) \cup (words \ kept)

\* After a save the process has in memory what it had before, whatever was
\* rearranged and however often it saved (loader/loader.c:189-199): all links, all
\* code, and the procedures of the native words that the walks do not meet.  This
\* is claimed while no code refers to a native word, whose record is not prepared
\* for that, and no string fills its cells.
Harmful == {"native", "full string"}
SaveKeeps ==
  [][\A f \in Saved :
       Save(f) /\ f # running /\ (\A w \in words : Kinds(w) \cap Harmful = {}) =>
         /\ ram'.ok
         /\ [ram' EXCEPT !.native = ram.native] = ram
         /\ \A w \in ToSet(Natives) \ Visited : ram'.native[w] = ram.native[w]]_vars

\* A process started from an image has all dictionaries, used and forgotten, and
\* of the words those forgotten and the newest one of each dictionary, with the
\* code they had, its labels and its calls relocated to where it is now,
\* whatever was rearranged before the save (loader/ram_manager.c:5-6).
Booted == ram.ok /\ ~fresh
ImageKept ==
  Booted => /\ ram.lib = ram.p /\ ram.slib = ram.p
            /\ \A x \in dicts \cup Visited : ram.form[x] = ram.p
            /\ \A w \in Visited \cap Threaded :
                 Kinds(w) \subseteq Movable => SameButLiterals(ram.code[w], CodeOf(w))

\* "must do a one pass on all threaded code found and offset all addresses
\* ( including literals marked as relocatable )" (loader/ram_manager.c:370): in a
\* process started from an image the literals of the words that the walks meet
\* lead to where what they are about is now.
LiteralsRelocated ==
  Booted => \A w \in Visited \cap Threaded :
              Kinds(w) \subseteq Movable => ram.code[w] = CodeOf(w)
=============================================================================
