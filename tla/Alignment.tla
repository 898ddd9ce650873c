------------------------------ MODULE Alignment ------------------------------
(****************************************************************************)
(* The arithmetic of the memory helpers (src/memory/internal/helpers.c):    *)
(* which alignments the allocators accept and how sizes are rounded up.     *)
(*                                                                          *)
(* These are the definitions the allocators are specified with.  They say   *)
(* what the helpers compute with ordinary arithmetic; AlignmentBits writes  *)
(* the same helpers bit by bit, as the C does, and compares the two.        *)
(****************************************************************************)
EXTENDS Naturals

\* alignof(max_align_t), the strictest alignment malloc and the allocators give.
MaxAlign == 16

\* The powers of two a u8 can hold, the type of every alignment parameter.
PowersOfTwo == {1, 2, 4, 8, 16, 32, 64, 128}

ValidAlignment(alignment) ==
    /\ alignment \in PowersOfTwo
    /\ alignment <= MaxAlign

\* The least multiple of alignment that is not below value.
AlignUp(value, alignment) == alignment * ((value + alignment - 1) \div alignment)
=============================================================================
