------------------------------ MODULE MCForeign ------------------------------
(***************************************************************************)
(* Two libraries, one function in both; a C ABI with two registers.        *)
(***************************************************************************)
EXTENDS Foreign, TLC

CONSTANTS libm, libc, sin, puts, place1, place2, place3, value1, value2

InLibraries == [o \in {libm, libc} |-> IF o = libm THEN {sin} ELSE {sin, puts}]

Declared == { << "void", "--", "void", ")" >>, << "u64", "u64", "--", "u64", ")" >>,
              << "u64", "void", "--", "u64", ")" >> }
Places == Permutations({place1, place2, place3}) \cup Permutations({value1, value2})
=============================================================================
