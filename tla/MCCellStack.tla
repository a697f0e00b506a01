---------------------------- MODULE MCCellStack -----------------------------
(***************************************************************************)
(* Small machines for CellStack.  A register has two bytes; a cell has one *)
(* or two.  Only a few values of a byte occur, the byte being wide enough  *)
(* to count the cells.                                                     *)
(***************************************************************************)
EXTENDS CellStack

BitsOfTwo == [w \in {1, 2} |-> 2 - w]
Some == { <<0, 0>>, <<1, 0>>, <<0, 1>> }

\* IF with a register that has stale bytes.
BranchWords == {"number", "bits", "0branch"}
BranchLimit == [w \in {1, 2} |-> 3]
=============================================================================
