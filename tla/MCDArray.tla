------------------------------- MODULE MCDArray -------------------------------
(****************************************************************************)
(* Arrays of up to MaxElems elements of two bytes in a size_t of five bits. *)
(* The capacities 1 and 3 double to 2, 4 and 8, and to 6: a write may need  *)
(* no round of the loop, one or more.  Two blocks let realloc move.         *)
(****************************************************************************)
EXTENDS DArray

CONSTANTS e1, e2, b1, b2

MCElems      == {e1, e2}
MCBlocks     == {b1, b2}
MCCapacities == {0, 1, 3}
MCWrites     == UNION {[1 .. n -> MCElems] : n \in 0 .. 2} \cup {<<e1, e2, e2, e1>>}

\* Writes so long that the bytes of the new block wrap (16 elements of two bytes
\* are 0 of 32), or that no doubling reaches their end.
LongWrites    == {[k \in 1 .. 16 |-> e1]}
EndlessWrites == {[k \in 1 .. 31 |-> e1]}
=============================================================================
