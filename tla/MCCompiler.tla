----------------------------- MODULE MCCompiler ------------------------------
(***************************************************************************)
(* A small memory for Compiler: a cell has two units.                      *)
(***************************************************************************)
EXTENDS Compiler

All == {"if", "else", "then", "begin", "while", "repeat", "lit", "exit", "noname", "native", "foreign",
        "word", "inline", "skip", "string", "error", "[", "allocate", "typo", "fails", "abort"}
=============================================================================
