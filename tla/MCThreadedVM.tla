---------------------------- MODULE MCThreadedVM ----------------------------
(***************************************************************************)
(* Small programs, input texts and debugger lines for ThreadedVM.  Each    *)
(* group of definitions is the input of one configuration or of a few.     *)
(***************************************************************************)
EXTENDS ThreadedVM

Ok    == {"ok"}
Maybe == {"ok", "fail"}

Act(do, may)      == [do |-> do, may |-> may]
ExecuteOf(w, may) == [do |-> "execute", word |-> w, may |-> may]
OpenText(t, may)  == [do |-> "source", text |-> t, may |-> may]
OpenFile(f, may)  == [do |-> "include", file |-> f, may |-> may]

Plain      == [op |-> "plain"]
Error      == [op |-> "error"]
EndWord    == [op |-> "endword"]
Call(w)    == [op |-> "call", word |-> w]
Nat0(act)  == [op |-> "native", act |-> act]
Ffi(may)   == [op |-> "foreign", may |-> may]
Jump(to)   == [op |-> "branch", to |-> to]
If(to, may) == [op |-> "0branch", to |-> to, may |-> may]

TNumber      == [tok |-> "number"]
TUnknown     == [tok |-> "unknown"]
TWord(w)     == [tok |-> "word", word |-> w, imm |-> FALSE]
TNative(act) == [tok |-> "native", act |-> act, imm |-> FALSE]
TImm(act)    == [tok |-> "native", act |-> act, imm |-> TRUE]
TFfi(may)    == [tok |-> "foreign", may |-> may, imm |-> FALSE]

NoFiles == [f \in {} |-> << >>]

-----------------------------------------------------------------------------
(* careful: three words that call one another three deep and may fail in   *)
(* every way that leaves a frame; strings, files and blocks opened at the  *)
(* prompt, from each other and as the last act of a word; compiling;       *)
(* EXECUTE at the first level.  Nothing stands behind a word that may fail *)
(* on its line.                                                            *)

CarefulCode ==
  [leaf |-> << Nat0(Act("work", Maybe)), Plain, EndWord >>,
   mid  |-> << If(4, {"zero", "nonzero"}), Call("leaf"), Ffi(Maybe), Error, EndWord >>,
   top  |-> << Call("mid"), Nat0(Act("work", Maybe)), Jump(5), Plain, Call("leaf"), EndWord >>,
   a    |-> << Nat0(ExecuteOf("b", Maybe)), Plain, EndWord >>,
   b    |-> << Nat0(Act("work", Ok)), Call("c"), EndWord >>,
   c    |-> << Plain, EndWord >>,
   f    |-> << Nat0(Act("work", Maybe)), Plain, EndWord >>,
   load |-> << Nat0(OpenText("s2", Maybe)), EndWord >>]
CarefulText ==
  [none |-> << >>,
   l1 |-> << TWord("top") >>,
   l2 |-> << TNumber, TWord("mid") >>,
   k1 |-> << TNative(Act("colon", Maybe)), TWord("c"), TNumber, TImm(Act("[", Ok)),
             TWord("c"), TNative(Act("]", Ok)), TImm(Act("semicolon", Ok)) >>,
   k2 |-> << TNative(OpenFile("file", Maybe)), TNumber >>,
   k3 |-> << TNative(OpenText("s1", Maybe)), TWord("a") >>,
   k4 |-> << TWord("load") >>,
   k5 |-> << TUnknown, TNumber, TFfi(Maybe) >>,
   k6 |-> << TNative(Act("bye", Ok)) >>,
   s1 |-> << TNumber, TWord("f") >>,
   s2 |-> << TNumber, TNative(Act("work", Maybe)) >>,
   f1 |-> << TWord("c"), TNative(OpenText("s1", Ok)) >>,
   f2 |-> << TWord("c"), TNative(Act("work", Maybe)), TNative(Act("abort", Ok)), TNumber >>]
CarefulFile == [file |-> << "f1", "f2" >>, empty |-> << >>]
CarefulDebug ==
  { <<"inspect", "abort">>, <<"continue">>, <<"continue", "quit">>, <<"quit", "continue">> }

\* The careful program is one the order theorems are about.
Careful == INSTANCE Discipline WITH Sure <- {"b", "c"}, Opening <- {"load"}
ASSUME CarefulAssumption == Code = CarefulCode => Careful!Disciplined

-----------------------------------------------------------------------------
(* any: no care is taken.  Words fail inside EXECUTE, with tokens behind   *)
(* them, on an empty stack; ABORT, BYE, EVALUATE and INCLUDE run deep in   *)
(* words; the frame stack and the input stack overflow.                    *)

AnyCode ==
  [leaf |-> << Nat0(Act("work", Maybe)), If(3, {"zero", "nonzero", "empty"}), EndWord >>,
   deep |-> << Call("mid"), Nat0(Act("bye", Ok)), EndWord >>,
   mid  |-> << Nat0(ExecuteOf("leaf", Maybe)), Call("leaf"), EndWord >>,
   src  |-> << Nat0(OpenText("s1", Maybe)), Nat0(OpenFile("file", Ok)), Call("leaf"),
               Nat0(Act("abort", Ok)), Ffi(Maybe), Error, EndWord >>]
AnyText ==
  [none |-> << >>,
   k1 |-> << TWord("deep"), TWord("mid") >>,
   k2 |-> << TNative(Act("]", Ok)), TNative(Act("]", Ok)), TImm(Act("[", Ok)), TImm(Act("[", Ok)) >>,
   k3 |-> << TWord("src"), TWord("leaf") >>,
   k4 |-> << TNative(ExecuteOf("src", Ok)), TNative(OpenFile("file", Ok)) >>,
   k5 |-> << TNative(OpenText("s1", Ok)), TWord("deep") >>,
   s1 |-> << TWord("leaf"), TWord("mid") >>,
   f1 |-> << TWord("mid"), TNumber >>]
AnyKeys == {"k1", "k2", "k3", "k4", "k5"}
AnyFile == [file |-> << "f1", "none", "f1" >>]
AnyDebug == { <<"continue">>, <<"abort">>, <<"quit", "continue">>, <<"quit">> }

-----------------------------------------------------------------------------
(* docs: one short line of input, with something behind a word that fails. *)

DocCode == [fails |-> << Nat0(Act("work", Maybe)), Plain, EndWord >>]
DocText == [none |-> << >>, continue |-> << TWord("fails"), TNumber >>]
DocDebug == { <<"continue">> }
=============================================================================
