------------------------------ MODULE MCSources ------------------------------
(***************************************************************************)
(* Every file of up to three of these lines, one of which fills the        *)
(* buffer, that includes a file that includes a file; three pairs of       *)
(* blocks.  Texts end their lines, files close their comments.             *)
(***************************************************************************)
EXTENDS Sources, TLC

SymbolsUsed == Blanks \cup
  { "x", "(", ")", "\\", "0", "1", "2", "drop", "refill", "abort", "evaluate", "load", "include",
    "included", "s", "n", "r", "f", "g", "h" }

FileLines ==
  { << "x", "\r", "\n" >>,
    << "(", " ", "x", " ", "x", ")", "x", ")", " ", "x", "\n" >>,
    << "\\", " ", "(", "\n" >>,
    << "include", " ", "g", " ", "x", "\n" >>,
    << "s", " ", "evaluate", " ", "x", "\n" >>,
    << "1", " ", "load", " ", "x", "\n" >>,
    << "x", " ", "refill", " ", "x", "\n" >>,
    << "\n" >> }

FileTexts == {FlattenSeq(t) : t \in UNION {[1 .. n -> FileLines] : n \in 0 .. 3}}

Files == { [f |-> t, g |-> << "n", " ", "included", "\n", "x", "x", "\n" >>,
            h |-> << "2", " ", "load", "\n" >>] : t \in FileTexts }

Disks == { << << "x", " ", "(", " ", "x", ")", " ", " " >>,
              << "s", " ", "evaluate", " ", "(", " ", "x", " " >> >>,
           << << "x", " ", "refill", " ", "x", " ", " ", " " >>,
              << "x", " ", "refill", " ", "x", " ", " ", " " >> >>,
           << << "n", " ", "included", " ", "x", " ", "\\", " " >>,
              << "\\", " ", "x", " ", "(", " ", "drop", " " >> >> }

Texts == [w \in {"s", "n", "r"} |->
            CASE w = "s" -> << "1", " ", "x", "\n", "drop", " " >>
              [] w = "n" -> << "h", "nul" >>
              [] w = "r" -> << "refill", " ", "x", "nul" >>]

Typed == { << "include", " ", "f", " ", "x", "\n" >>,
           << "1", " ", "2", " ", "load", " ", "x", "\n" >>,
           << "(", " ", "x", "\n" >>,
           << "x", ")", " ", "r", " ", "evaluate", " ", "include", "\n" >>,
           << "abort", " ", "x", "\n" >> }

\* They are texts as users write them, which proofs about Sources assume.
ASSUME TextsTidy == Tidy
=============================================================================
