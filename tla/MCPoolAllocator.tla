--------------------------- MODULE MCPoolAllocator ---------------------------
(****************************************************************************)
(* Pools of up to four slots in a machine whose u32 holds six bits.  The    *)
(* sizes are chosen so that a slot is its request rounded up (5 to 8), or   *)
(* raised to a list node (1 to 4), and so that nothing wraps: the largest   *)
(* pool has 5 slots of 8 bytes.  The stray offsets are below the slots,     *)
(* between two of them, on the spare slot and beyond it.                    *)
(****************************************************************************)
EXTENDS PoolAllocator

MCU32            == 64
MCMaxAllocations == {0, 1, 4, 63}
MCBytesPerAlloc  == {0, 1, 5}
MCAlignments     == {0, 1, 3, 8, 32}
MCStrayOffsets   == {-8, -4, 2, 4, 12, 16, 20, 32, 40}
MCClientWords    == {2, 9}

\* A request that wraps in this u32: 4 slots of 16 bytes.
WrapMaxAllocations == {3}
WrapBytesPerAlloc  == {8, 16}
OneAlignment       == {8}

\* A pointer 2^32 slots of 8 bytes above slot 0.
FarOffsets == {U32 * 8}
=============================================================================
