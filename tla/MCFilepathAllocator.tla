-------------------------- MODULE MCFilepathAllocator --------------------------
(****************************************************************************)
(* The code's own sizes: 8 KiB in pages of 4 KiB, or of 16 KiB, behind a    *)
(* header of 32 bytes.  The reservation takes one growth.  Allocations of   *)
(* 8191 and 8192 bytes use it up, one of 3000 bytes is rounded under an     *)
(* alignment of 16, one of 4096 ends where the first page of data does.     *)
(****************************************************************************)
EXTENDS FilepathAllocator

Bits == INSTANCE AlignmentBits

\* libd_memory_align_up as the code computes it.
BitwiseAlignUp(v, al) == Bits!align_up(v, al)

MCAlignments == {0, 1, 3, 8, 16}
MCSizes      == {0, 1001, 3000, 4096, 8191, 8192, 8193}
=============================================================================
