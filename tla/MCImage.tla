------------------------------- MODULE MCImage ------------------------------
(***************************************************************************)
(* A core of one word, and what users compile: each kind of operation, in  *)
(* front of one that its operands could be confused with.                  *)
(***************************************************************************)
EXTENDS Image, TLC

CONSTANT n1

OneNative == << n1 >>

Compiled ==
  { << "number", "call" >>, << "if", "call" >>, << "string", "address" >>, << "full string" >>,
    << "if", "native" >>, << "error", "foreign" >> }

Exchange == Permutations(Threaded) \cup Permutations(Dicts \ {Core}) \cup Permutations(Saved)
=============================================================================
