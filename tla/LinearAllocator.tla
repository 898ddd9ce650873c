--------------------------- MODULE LinearAllocator ---------------------------
(****************************************************************************)
(* libd's linear allocator (src/memory/linear_allocator.c): a reservation   *)
(* of address space made with mmap, a prefix of it made accessible with     *)
(* mprotect as the arena grows, and a bump index into it.  The allocator's  *)
(* own header lies at the start of the reservation, the data behind it.     *)
(*                                                                          *)
(* Addresses are offsets: data offsets from the end of the header, mapping  *)
(* sizes from its start.  The kernel is in the model as far as the code     *)
(* depends on it: mapped is what mmap reserved, committed the prefix        *)
(* mprotect made accessible.                                                *)
(****************************************************************************)
EXTENDS Integers, Sequences, FiniteSets, Alignment

CONSTANTS
    U32,                  \* 2^32, the modulus of u32
    PageSize,             \* sysconf(_SC_PAGE_SIZE)
    HeaderSize,           \* sizeof(struct linear_allocator)
    RoundUp(_, _),        \* libd_memory_align_up
    MaxAddress,           \* no address computed exceeds it
    ReservationArgs,      \* values a client passes for data_reservation_size,
    CapacityArgs,         \*   starting_capacity,
    AlignmentArgs,        \*   alignment
    SizeArgs,             \*   and the size of an allocation
    MaxSavepoints,        \* most savepoints a client holds at a time
    GrowthMayFail         \* whether mprotect may fail when the arena grows

\* What is needed of libd_memory_align_up, whether or not the alignment is a
\* power of two: it does not round down, nor up by a whole alignment.
ASSUME AlignUpAssumption ==
    /\ \A v \in 0 .. MaxAddress, a \in 1 .. MaxAddress :
           RoundUp(v, a) \in v .. v + a - 1
    /\ \A v \in 0 .. MaxAddress, a \in PowersOfTwo \cup {PageSize} :
           RoundUp(v, a) = AlignUp(v, a)

ASSUME ConstantsAssumption ==
    /\ U32 \in Nat /\ U32 > PageSize /\ MaxAddress \in Nat
    /\ PageSize \in Nat \ {0} /\ HeaderSize \in Nat \ {0}
    /\ HeaderSize % MaxAlign = 0 /\ PageSize % HeaderSize = 0
    /\ HeaderSize < PageSize
    /\ ReservationArgs \subseteq 0 .. U32 - 1
    /\ CapacityArgs \subseteq 0 .. U32 - 1
    /\ AlignmentArgs \subseteq 0 .. 255
    /\ SizeArgs \subseteq 0 .. U32 - 1
    /\ MaxSavepoints \in Nat
    /\ GrowthMayFail \in BOOLEAN

VARIABLES
    curr_data_size,       \* fields of struct linear_allocator
    head_index,
    alignment,
    data_reservation_size,
    mapped,               \* bytes mmap reserved, 0 when there is no allocator
    committed,            \* bytes from the start of the mapping that are accessible
    savepoints,           \* data_index of the savepoints the client may restore
    blocks,               \* history: allocations not freed, [start, size]
    out,                  \* what the last call stored through its out parameter
    result                \* what the last call returned

fields == <<curr_data_size, head_index, alignment, data_reservation_size>>
vars == <<fields, mapped, committed, savepoints, blocks, out, result>>

NoValue == -1
-----------------------------------------------------------------------------
created == mapped > 0

\* _total_reservation_size, computed in usize.
total_reservation_size == RoundUp(HeaderSize + data_reservation_size, PageSize)

Init ==
    /\ curr_data_size = 0
    /\ head_index = 0
    /\ alignment = 1
    /\ data_reservation_size = 0
    /\ mapped = 0
    /\ committed = 0
    /\ savepoints = <<>>
    /\ blocks = <<>>
    /\ out = NoValue
    /\ result = "none"

\* A call that returns an error before it changed anything.
Refuse(error) ==
    /\ result' = error
    /\ out' = NoValue
    /\ UNCHANGED <<fields, mapped, committed, savepoints, blocks>>

Succeed(value) ==
    /\ result' = "ok"
    /\ out' = value
-----------------------------------------------------------------------------
\* Mutant: the header is not part of the mapping.
MappingWithoutHeader(reservation) == RoundUp(reservation % U32, PageSize)

\* The length create passes to mmap: header_size + data_reservation_size is
\* computed in u32.
MappingSize(reservation) == RoundUp((HeaderSize + reservation) % U32, PageSize)

\* mprotect succeeded.  If it reached past the mapping, something else is
\* mapped there and is now shared with it.
CreateArena(reservation, capacity, align) ==
    LET data_size  == RoundUp(capacity, PageSize)
        total_size == RoundUp(HeaderSize + data_size, PageSize)
    IN  /\ curr_data_size' = data_size
        /\ head_index' = 0
        /\ alignment' = align
        /\ data_reservation_size' = reservation
        /\ mapped' = MappingSize(reservation)
        /\ committed' = total_size
        /\ savepoints' = <<>>
        /\ blocks' = <<>>
        /\ Succeed(NoValue)

\* A create whose mprotect fails leaves its reservation mapped: it is lost to
\* the process, and nothing refers to it any more.
Create(null, reservation, capacity, align) ==
    /\ ~created
    /\ \/ /\ null \/ capacity = 0
          /\ Refuse("invalid_parameter")
       \/ /\ ~null /\ capacity # 0
          /\ ~ValidAlignment(align)
          /\ Refuse("invalid_alignment")
       \/ /\ ~null /\ capacity # 0
          /\ ValidAlignment(align)
          /\ Refuse("err")          \* sysconf, mmap or mprotect failed
       \/ /\ ~null /\ capacity # 0
          /\ ValidAlignment(align)
          /\ MappingSize(reservation) > 0     \* mmap refuses a length of 0
          /\ CreateArena(reservation, capacity, align)

\* Nothing refers to an arena any more.
NoArena ==
    /\ curr_data_size' = 0
    /\ head_index' = 0
    /\ alignment' = 1
    /\ data_reservation_size' = 0
    /\ mapped' = 0
    /\ committed' = 0
    /\ savepoints' = <<>>
    /\ blocks' = <<>>

Destroy(null) ==
    /\ created
    /\ \/ /\ null
          /\ Refuse("invalid_parameter")
       \/ /\ ~null
          /\ Refuse("err")          \* munmap failed
       \/ /\ ~null
          /\ NoArena
          /\ Succeed(NoValue)
-----------------------------------------------------------------------------
\* Mutant: the whole reservation is not a limit.
UnboundedTotal(need) ==
    RoundUp(HeaderSize + RoundUp(need, curr_data_size * 2), PageSize)

\* The prefix of the mapping a growth to need bytes of data makes accessible.
NewTotalSize(need) ==
    LET new_data_size  == RoundUp(need, curr_data_size * 2)
        new_total_size == RoundUp(HeaderSize + new_data_size, PageSize)
    IN  IF new_total_size < total_reservation_size THEN new_total_size
                                                   ELSE total_reservation_size

\* Mutant: the header is not taken off the accessible prefix.
GrowOverHeader(need) ==
    /\ curr_data_size' = NewTotalSize(need)
    /\ committed' = NewTotalSize(need)

\* The result of mprotect is ignored.
Grow(need) ==
    /\ curr_data_size' = NewTotalSize(need) - HeaderSize
    /\ \/ committed' = NewTotalSize(need)
       \/ GrowthMayFail /\ UNCHANGED committed

\* Mutant: the head is not rounded to the alignment.
CarveUnaligned(size) ==
    /\ head_index' = head_index + size
    /\ blocks' = IF size = 0 THEN blocks
                 ELSE Append(blocks, [start |-> head_index, size |-> size])
    /\ Succeed(head_index)

\* Mutant: the head is rounded past its size even when it is aligned.
CarvePadded(size) ==
    /\ head_index' = head_index + RoundUp(size + 1, alignment)
    /\ blocks' = IF size = 0 THEN blocks
                 ELSE Append(blocks, [start |-> head_index, size |-> size])
    /\ Succeed(head_index)

\* Hand out the bytes at the head.  An allocation of no bytes is no block.
Carve(size) ==
    /\ head_index' = head_index + RoundUp(size, alignment)
    /\ blocks' = IF size = 0 THEN blocks
                 ELSE Append(blocks, [start |-> head_index, size |-> size])
    /\ Succeed(head_index)

Alloc(null, size) ==
    /\ created
    /\ \/ /\ null
          /\ Refuse("invalid_parameter")
       \/ /\ ~null
          /\ curr_data_size < head_index + size
          /\ data_reservation_size < head_index + size
          /\ Refuse("no_memory")
       \/ /\ ~null
          /\ curr_data_size < head_index + size
          /\ data_reservation_size >= head_index + size
          /\ Grow(head_index + size)
          /\ Carve(size)
          /\ UNCHANGED <<alignment, data_reservation_size, mapped, savepoints>>
       \/ /\ ~null
          /\ curr_data_size >= head_index + size
          /\ Carve(size)
          /\ UNCHANGED <<curr_data_size, alignment, data_reservation_size, mapped,
                         committed, savepoints>>
-----------------------------------------------------------------------------
\* The blocks below a data offset, which is all the allocator knows of them; they
\* are in the order of their addresses.
BlocksBelow(index) ==
    SubSeq(blocks, 1, Cardinality({i \in DOMAIN blocks : blocks[i].start < index}))

SetSavepoint(null) ==
    /\ created
    /\ \/ /\ null
          /\ Refuse("invalid_parameter")
       \/ /\ ~null
          /\ Len(savepoints) < MaxSavepoints
          /\ savepoints' = Append(savepoints, head_index % U32)
          /\ Succeed(NoValue)
          /\ UNCHANGED <<fields, mapped, committed, blocks>>

\* Restoring a savepoint invalidates those set after it (memory.h:93-95).
RestoreSavepoint(null, k) ==
    /\ created
    /\ \/ /\ null
          /\ Refuse("invalid_parameter")
       \/ /\ ~null
          /\ head_index' = savepoints[k]
          /\ savepoints' = SubSeq(savepoints, 1, k)
          /\ blocks' = BlocksBelow(savepoints[k])
          /\ Succeed(NoValue)
          /\ UNCHANGED <<curr_data_size, alignment, data_reservation_size, mapped,
                         committed>>

\* Mutant: the head stays where it is.
ResetKeepsHead(null) ==
    /\ created
    /\ savepoints' = <<>>
    /\ blocks' = <<>>
    /\ Succeed(NoValue)
    /\ UNCHANGED <<fields, mapped, committed>>

Reset(null) ==
    /\ created
    /\ \/ /\ null
          /\ Refuse("invalid_parameter")
       \/ /\ ~null
          /\ head_index' = 0
          /\ savepoints' = <<>>
          /\ blocks' = <<>>
          /\ Succeed(NoValue)
          /\ UNCHANGED <<curr_data_size, alignment, data_reservation_size, mapped,
                         committed>>

\* Mutant: the difference is taken the wrong way round.
bytes_overdrawn == head_index - curr_data_size

bytes_free == curr_data_size - head_index

BytesFree(null) ==
    /\ created
    /\ \/ /\ null
          /\ Refuse("invalid_parameter")
       \/ /\ ~null
          /\ Succeed(bytes_free)
          /\ UNCHANGED <<fields, mapped, committed, savepoints, blocks>>

Next ==
    \/ \E null \in BOOLEAN, reservation \in ReservationArgs,
         capacity \in CapacityArgs, align \in AlignmentArgs :
           Create(null, reservation, capacity, align)
    \/ \E null \in BOOLEAN : Destroy(null)
    \/ \E null \in BOOLEAN, size \in SizeArgs : Alloc(null, size)
    \/ \E null \in BOOLEAN : SetSavepoint(null)
    \/ \E null \in BOOLEAN, k \in DOMAIN savepoints : RestoreSavepoint(null, k)
    \/ \E null \in BOOLEAN : Reset(null)
    \/ \E null \in BOOLEAN : BytesFree(null)

Spec == Init /\ [][Next]_vars
-----------------------------------------------------------------------------
End(b) == b.start + b.size

TypeOK ==
    /\ curr_data_size \in 0 .. MaxAddress
    /\ head_index \in 0 .. MaxAddress
    /\ ValidAlignment(alignment)
    /\ data_reservation_size \in 0 .. U32 - 1
    /\ mapped \in 0 .. MaxAddress
    /\ committed \in 0 .. MaxAddress
    /\ savepoints \in Seq(0 .. U32 - 1) /\ Len(savepoints) <= MaxSavepoints
    /\ blocks \in Seq([start : 0 .. MaxAddress, size : SizeArgs \ {0}])
    /\ out \in -1 .. MaxAddress
    /\ result \in {"none", "ok", "invalid_parameter", "invalid_alignment",
                   "no_memory", "err"}

(****************************************************************************)
(* The bump index never passes the end of the data, although an allocation   *)
(* is checked with its size and taken with its size rounded up; bytes_free   *)
(* would otherwise wrap (linear_allocator.c:111, 133, 189).                  *)
(****************************************************************************)
HeadWithinData == created => head_index <= curr_data_size

(****************************************************************************)
(* Every block the client holds is memory it may touch: mprotect made it     *)
(* accessible and nothing took it back                                       *)
(* (memory.h:71, "libd_ok on success, non-zero otherwise").                  *)
(****************************************************************************)
LiveCommitted ==
    \A i \in DOMAIN blocks : HeaderSize + End(blocks[i]) <= committed

(****************************************************************************)
(* The arena uses no address space but its own: what is made accessible, and *)
(* what the allocator believes to be its data, lies inside what mmap         *)
(* reserved, through every growth                                            *)
(* (memory.h:42-43, "The amount of virtual address space to reserve for the  *)
(* allocator").                                                              *)
(****************************************************************************)
CommittedWithinMapping ==
    created => committed <= mapped /\ HeaderSize + curr_data_size <= mapped

(****************************************************************************)
(* The mapping holds the header and the whole reservation, and destroy       *)
(* unmaps exactly what create mapped: the two compute its length separately, *)
(* one in u32 and one in usize (memory.h:42-43).                             *)
(****************************************************************************)
ReservationHonoured ==
    created =>
        /\ mapped >= HeaderSize + data_reservation_size
        /\ total_reservation_size = mapped

(****************************************************************************)
(* bytes_free tells how many bytes can be allocated (memory.h:114,           *)
(* "Introspects the number of availible bytes for allocation").              *)
(****************************************************************************)
BytesFreeCountsReservation ==
    [][ (created /\ BytesFree(FALSE)) =>
            out' >= data_reservation_size - head_index ]_vars

\* What the arena promises.  A savepoint, which is an offset here, stands for
\* the number of blocks below it.
Abstract == INSTANCE Arena WITH
    Sizes      <- SizeArgs,
    reserve    <- data_reservation_size,
    align      <- alignment,
    savepoints <- [k \in DOMAIN savepoints |-> Len(BlocksBelow(savepoints[k]))]

\* The linear allocator implements Arena: blocks are aligned and never overlap,
\* a restore frees exactly the blocks allocated after its savepoint, and an
\* allocation fails only when the reservation is used up.
ImplementsArena == Abstract!Spec
=============================================================================
