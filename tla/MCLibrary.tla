------------------------------ MODULE MCLibrary ------------------------------
(***************************************************************************)
(* Small libraries: three words, two of which have the same name.  The new *)
(* dictionaries may be exchanged for one another, and so may the words of  *)
(* one name.                                                               *)
(***************************************************************************)
EXTENDS Library, TLC

CONSTANTS w1, w2, w3

SameName == [w \in {w1, w2, w3} |-> IF w = w3 THEN "m" ELSE "n"]
Exchange == Permutations(Dicts \ {Core}) \cup Permutations({w1, w2})
=============================================================================
