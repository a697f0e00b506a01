----------------------------- MODULE MCNumbers ------------------------------
(***************************************************************************)
(* Any word from any state: a register has two bytes of three bits, of     *)
(* which the array's lowest four are zero, the lowest negative number or   *)
(* all ones; the highest wide cell asks BITS for narrow ones.              *)
(***************************************************************************)
EXTENDS Numbers

AllWords == Shuffles \cup Binary \cup Unary \cup Comparisons
  \cup {"number", "true", "depth", "whatbits", "?dup", "=", "0=", "0branch", ">r", "r>", "r@"}
  \cup {"bits", "0sp", "abort", "line", "eof", "0<", "0>", "/mod", "signed"}

Limits == [w \in {1, 2} |-> 6 - w]
BitsOfTwo == [w \in {1, 2} |-> IF w = 1 THEN 4 ELSE 0]
Boundaries == {0, 4, 7}
Above == <<2, 5, 4, 0>>

Seconds == { <<0, 0>>, <<4, 0>>, <<7, 7>>, <<0, 4>>, <<4, 7>> }
Arrays == { first \o second \o Above : first \in [1 .. 2 -> Boundaries], second \in Seconds }
Clean == [r \in Names |-> <<0, 0>>]
Used == [r \in Names |-> IF r = "c00" THEN <<1, 7>> ELSE <<3, 4>>]
Stale == {Clean, Used}
Returns == { << >>, << <<0, 4>>, <<5, 1>> >> }
Number25 == { <<2, 5>> }
=============================================================================
