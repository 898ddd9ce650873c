-------------------------- MODULE MCLinearAllocator --------------------------
(****************************************************************************)
(* Pages of 64 bytes, a header of 32 and a u32 of ten bits.  The larger     *)
(* reservation takes two growths, after which the data is no multiple of a  *)
(* power of two any more (64, 160, 224); an allocation of 30 bytes leaves   *)
(* rounding behind it under the larger alignments, one of 70 bytes is more  *)
(* than a page, one of 64 ends exactly where the first page of data does.   *)
(****************************************************************************)
EXTENDS LinearAllocator

Bits == INSTANCE AlignmentBits

\* libd_memory_align_up as the code computes it.
BitwiseAlignUp(v, a) == Bits!align_up(v, a)

MCReservations == {100, 200}
MCCapacities   == {0, 1, 64, 65}
MCAlignments   == {0, 1, 3, 16, 32}
MCSizes        == {0, 30, 64, 70}

\* A reservation that wraps when the header is added in u32.
WrapReservation == {240}
=============================================================================
