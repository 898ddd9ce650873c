---------------------------- MODULE PoolAllocator ----------------------------
(****************************************************************************)
(* libd's pool allocator (src/memory/pool_allocator.c): max_allocations     *)
(* slots of bytes_per_alloc bytes in one malloc'd block, plus one spare.    *)
(* Free slots form a list threaded through the slots themselves: the first  *)
(* word of a free slot is the index of the next free one, and the terminal  *)
(* index, max_allocations, ends the list.  A freed slot is pushed in front  *)
(* when its index is below the head and appended at the tail otherwise.     *)
(*                                                                          *)
(* The first word of every slot is kept in data, because a slot the client  *)
(* holds carries the client's own bytes where the link used to be.          *)
(* Arithmetic the C code does in u32 wraps at U32.                          *)
(****************************************************************************)
EXTENDS Integers, FiniteSets, Alignment

CONSTANTS
    U32,                 \* 2^32, the modulus of u32
    MaxAllocationsArgs,  \* values a client passes for max_allocations,
    BytesPerAllocArgs,   \*   bytes_per_alloc
    AlignmentArgs,       \*   and alignment
    StrayOffsets,        \* offsets from data of pointers no alloc returned
    ClientWords          \* first words a client may store in its own slot

HeaderSize   == 16       \* sizeof(struct pool_allocator): four u32
NodeSize     == 4        \* _aligned_sizeof_free_node()
NoPointer    == -1

ASSUME ConstantsAssumption ==
    /\ U32 \in Nat /\ U32 > 2 * MaxAlign
    /\ MaxAllocationsArgs \subseteq 0 .. U32 - 1
    /\ BytesPerAllocArgs \subseteq 0 .. U32 - 1
    /\ AlignmentArgs \subseteq 0 .. 255
    /\ StrayOffsets \subseteq Int
    /\ ClientWords \subseteq 0 .. U32 - 1 /\ ClientWords # {}

VARIABLES
    max_allocations,     \* fields of struct pool_allocator; there is no pool
    bytes_per_alloc,     \*   while max_allocations is 0
    head_index,
    tail_index,
    data,                \* first word of each slot, the spare one included
    block_size,          \* bytes malloc was asked for
    request,             \* history: the size and alignment the client asked for
    live,                \* history: slots allocated and not freed
    out,                 \* offset from data of the pointer alloc returned
    result               \* what the last call returned

pool == <<max_allocations, bytes_per_alloc, head_index, tail_index,
          block_size, request>>
vars == <<pool, data, live, out, result>>
-----------------------------------------------------------------------------
created        == max_allocations > 0
Slots          == 0 .. max_allocations - 1
terminal_index == max_allocations
FreeSlots      == Slots \ live

byte_index(i) == (i * bytes_per_alloc) % U32

LivePointers == {byte_index(i) : i \in live}

(****************************************************************************)
(* The block really holds the slots: it is as long as the header and every  *)
(* slot, the spare one included, and a slot is long enough for the request  *)
(* and for a list node and starts on the requested alignment.  A pool for   *)
(* which this fails has been written to outside its block before create     *)
(* returns; nothing it does after that is defined, and no action below is   *)
(* enabled.                                                                 *)
(****************************************************************************)
SlotsFitBlock ==
    created =>
        /\ HeaderSize + (max_allocations + 1) * bytes_per_alloc <= block_size
        /\ bytes_per_alloc >= request.bytes
        /\ bytes_per_alloc >= NodeSize
        /\ bytes_per_alloc % request.alignment = 0

Ready == created /\ SlotsFitBlock

Init ==
    /\ max_allocations = 0
    /\ bytes_per_alloc = 0
    /\ head_index = 0
    /\ tail_index = 0
    /\ data = [i \in {} |-> 0]
    /\ block_size = 0
    /\ request = [bytes |-> 0, alignment |-> 1]
    /\ live = {}
    /\ out = NoPointer
    /\ result = "none"

\* A call that returns an error before it changed anything.
Refuse(error) ==
    /\ result' = error
    /\ out' = NoPointer
    /\ UNCHANGED <<pool, data, live>>

Succeed(p) ==
    /\ result' = "ok"
    /\ out' = p
-----------------------------------------------------------------------------
\* Mutant: the initialisation loop runs past the spare slot, out of the block.
LinksPastSpare(n, old) == [i \in 0 .. n + 1 |-> i + 1]

\* The links _initialize_free_list stores; what it does not write (the spare
\* slot) keeps its value in old.
InitialLinks(n, old) ==
    [i \in 0 .. n |-> IF i < n THEN i + 1 ELSE old]

\* u32 aligned_bytes_per_alloc, at least one free_node.
SlotSize(bytes, alignment) ==
    LET aligned == AlignUp(bytes, alignment) % U32
    IN  IF aligned < NodeSize THEN NodeSize ELSE aligned

\* Mutant: no room for the spare slot.
BlockWithoutSpare(n, slotSize, alignment) ==
    HeaderSize + ((n * slotSize) % U32) + alignment - 1

\* The argument of malloc: the data part is computed in u32.
BlockSize(n, slotSize, alignment) ==
    HeaderSize + (((n + 1) * slotSize) % U32) + alignment - 1

BadParameters(null, n, bytes) == null \/ n = 0 \/ bytes = 0

\* malloc returned a block: its content is undefined, so the spare slot holds
\* any word.
CreatePool(n, bytes, alignment) ==
    LET slotSize == SlotSize(bytes, alignment)
    IN  /\ max_allocations' = n
        /\ bytes_per_alloc' = slotSize
        /\ block_size' = BlockSize(n, slotSize, alignment)
        /\ request' = [bytes |-> bytes, alignment |-> alignment]
        /\ head_index' = 0
        /\ tail_index' = n - 1
        /\ \E junk \in ClientWords : data' = InitialLinks(n, junk)
        /\ live' = {}
        /\ Succeed(NoPointer)

Create(null, n, bytes, alignment) ==
    /\ ~created
    /\ \/ /\ BadParameters(null, n, bytes)
          /\ Refuse("invalid_parameter")
       \/ /\ ~BadParameters(null, n, bytes)
          /\ ~ValidAlignment(alignment)
          /\ Refuse("invalid_alignment")
       \/ /\ ~BadParameters(null, n, bytes)
          /\ ValidAlignment(alignment)
          /\ Refuse("no_memory")       \* no room for the terminal, or malloc failed
       \/ /\ ~BadParameters(null, n, bytes)
          /\ ValidAlignment(alignment)
          /\ n # U32 - 1
          /\ CreatePool(n, bytes, alignment)

\* The block is gone and with it everything that was stored in it.
FreePool ==
    /\ max_allocations' = 0
    /\ bytes_per_alloc' = 0
    /\ head_index' = 0
    /\ tail_index' = 0
    /\ data' = [i \in {} |-> 0]
    /\ block_size' = 0
    /\ request' = [bytes |-> 0, alignment |-> 1]
    /\ live' = {}
    /\ Succeed(NoPointer)

Destroy(null) ==
    /\ Ready
    /\ \/ /\ null
          /\ Refuse("invalid_parameter")
       \/ /\ ~null
          /\ FreePool
-----------------------------------------------------------------------------
Alloc(null) ==
    /\ Ready
    /\ \/ /\ null
          /\ Refuse("invalid_parameter")
       \/ /\ ~null
          /\ head_index = terminal_index
          /\ Refuse("no_memory")
       \/ /\ ~null
          /\ head_index # terminal_index
          /\ head_index' = data[head_index]
          /\ tail_index' = IF head_index' = terminal_index THEN terminal_index
                                                           ELSE tail_index
          /\ live' = live \cup {head_index}
          /\ Succeed(byte_index(head_index))
          /\ UNCHANGED <<max_allocations, bytes_per_alloc, data, block_size,
                         request>>

\* The u32 index libd_pool_allocator_free derives from a pointer.
FreeIndex(p) == (p \div bytes_per_alloc) % U32

\* Mutant: the bound is the spare slot.
IsSlotOrSparePointer(p) ==
    /\ p >= 0
    /\ p % bytes_per_alloc = 0
    /\ FreeIndex(p) <= max_allocations

IsSlotPointer(p) ==
    /\ p >= 0
    /\ p % bytes_per_alloc = 0
    /\ FreeIndex(p) < max_allocations

\* Mutant: the tail of an empty list is not repaired.
PushFrontKeepsTail(i) ==
    /\ i < head_index
    /\ data' = [data EXCEPT ![i] = head_index]
    /\ head_index' = i
    /\ UNCHANGED tail_index

\* Link a freed slot before the head.
PushFront(i) ==
    /\ i < head_index
    /\ data' = [data EXCEPT ![i] = head_index]
    /\ head_index' = i
    /\ tail_index' = IF tail_index = terminal_index THEN i ELSE tail_index

\* Link a freed slot after the tail; the code tests the tail again afterwards,
\* which by then is the freed slot.
PushBack(i) ==
    /\ i >= head_index
    /\ data' = [data EXCEPT ![tail_index] = i, ![i] = terminal_index]
    /\ tail_index' = i
    /\ UNCHANGED head_index

Free(null, p) ==
    /\ Ready
    /\ \/ /\ null
          /\ Refuse("invalid_parameter")
       \/ /\ ~null
          /\ ~IsSlotPointer(p)
          /\ Refuse("invalid_pointer")
       \/ /\ ~null
          /\ IsSlotPointer(p)
          /\ PushFront(FreeIndex(p)) \/ PushBack(FreeIndex(p))
          /\ live' = live \ {FreeIndex(p)}
          /\ Succeed(NoPointer)
          /\ UNCHANGED <<max_allocations, bytes_per_alloc, block_size, request>>

Reset ==
    /\ Ready
    /\ head_index' = 0
    /\ tail_index' = terminal_index - 1
    /\ data' = InitialLinks(max_allocations, data[terminal_index])
    /\ live' = {}
    /\ Succeed(NoPointer)
    /\ UNCHANGED <<max_allocations, bytes_per_alloc, block_size, request>>

\* The client writes to memory it holds.
ClientWrite(i, word) ==
    /\ Ready
    /\ i \in live
    /\ data' = [data EXCEPT ![i] = word]
    /\ UNCHANGED <<pool, live, out, result>>
-----------------------------------------------------------------------------
(****************************************************************************)
(* The client's side of the contract: it frees what it holds, and may also  *)
(* pass a pointer that is no slot at all, which free promises to refuse.    *)
(* It does not free a slot twice.                                           *)
(****************************************************************************)
NoSlotAt(p) == \A i \in Slots : p # i * bytes_per_alloc

FreeablePointers == LivePointers \cup {p \in StrayOffsets : NoSlotAt(p)}

AllocatorStep ==
    \/ \E null \in BOOLEAN, n \in MaxAllocationsArgs, bytes \in BytesPerAllocArgs,
         alignment \in AlignmentArgs : Create(null, n, bytes, alignment)
    \/ \E null \in BOOLEAN : Destroy(null)
    \/ \E null \in BOOLEAN : Alloc(null)
    \/ \E null \in BOOLEAN, p \in FreeablePointers : Free(null, p)
    \/ Reset

Next ==
    \/ AllocatorStep
    \/ \E i \in live, word \in ClientWords : ClientWrite(i, word)

Spec == Init /\ [][Next]_vars

\* The same allocator, used by a client that also frees slots it does not hold.
CarelessNext ==
    \/ Next
    \/ \E i \in Slots : Free(FALSE, byte_index(i))

CarelessSpec == Init /\ [][CarelessNext]_vars
-----------------------------------------------------------------------------
TypeOK ==
    /\ max_allocations \in 0 .. U32 - 1
    /\ bytes_per_alloc \in 0 .. U32 - 1
    /\ created => bytes_per_alloc > 0
    /\ head_index \in 0 .. U32 - 1
    /\ tail_index \in 0 .. U32 - 1
    /\ data \in [{i \in 0 .. max_allocations : created} -> 0 .. U32 - 1]
    /\ block_size \in Nat
    /\ request \in [bytes : 0 .. U32 - 1, alignment : 1 .. MaxAlign]
    /\ live \subseteq Slots
    /\ out \in -1 .. U32 - 1
    /\ result \in {"none", "ok", "invalid_parameter", "invalid_alignment",
                   "no_memory", "invalid_pointer"}

(****************************************************************************)
(* s is the free list: it starts at head_index, follows the links stored in *)
(* the slots, ends at tail_index with the terminal, and visits every slot   *)
(* the client does not hold exactly once.                                   *)
(****************************************************************************)
IsFreeList(s, n) ==
    /\ \A i, j \in 1 .. n : s[i] = s[j] => i = j
    /\ \A x \in FreeSlots : \E i \in 1 .. n : s[i] = x
    /\ \A i \in 1 .. n - 1 : data[s[i]] = s[i + 1]
    /\ n = 0 => head_index = terminal_index /\ tail_index = terminal_index
    /\ n > 0 => /\ head_index = s[1]
                /\ tail_index = s[n]
                /\ data[s[n]] = terminal_index

(****************************************************************************)
(* However allocations, frees and client writes are mixed, the list threaded *)
(* through the slots holds exactly the slots the client does not: none is    *)
(* lost, none is listed twice, none is listed while the client holds it, and *)
(* head_index and tail_index are its two ends (pool_allocator.c, alloc and   *)
(* free).  Pushing below the head and appending above it, with the tail      *)
(* repaired separately when the list was empty, is what could break it.      *)
(****************************************************************************)
FreeListExact ==
    created =>
        LET n == Cardinality(FreeSlots)
        IN  \E s \in [1 .. n -> FreeSlots] : IsFreeList(s, n)

(****************************************************************************)
(* An allocator call stores only into slots that are free once it returns:   *)
(* the bytes of a slot the client keeps, and the spare slot behind the last  *)
(* one, are never overwritten by list links.                                 *)
(****************************************************************************)
WritesOnlyFreeSlots ==
    [][ (AllocatorStep /\ created /\ created') =>
          \A i \in 0 .. max_allocations :
              data'[i] # data[i] => i \in Slots \ live' ]_vars

(****************************************************************************)
(* free refuses every pointer that is not the address of a slot and leaves   *)
(* the pool alone (pool_allocator.c:145-152: "below bounds or not block      *)
(* aligned", "above bounds").                                                *)
(****************************************************************************)
StrayPointersRefused ==
    [][ \A p \in StrayOffsets :
          (Ready /\ NoSlotAt(p) /\ Free(FALSE, p)) =>
              /\ result' = "invalid_pointer"
              /\ UNCHANGED <<pool, data, live>> ]_vars

(****************************************************************************)
(* free reports a free of memory the pool has not handed out                 *)
(* (common.h:93, libd_invalid_free: "Tried to free memory from an arena that *)
(* has no allocations").                                                     *)
(****************************************************************************)
FreeOfNothingRefused ==
    [][ (Ready /\ live = {} /\ \E i \in Slots : Free(FALSE, byte_index(i))) =>
            result' # "ok" ]_vars

\* What the pool promises, with the pointer alloc returned read as a slot.
Abstract == INSTANCE FixedPool WITH
    capacity <- max_allocations,
    held     <- live,
    granted  <- IF out = NoPointer THEN NoPointer ELSE out \div bytes_per_alloc

\* The pool allocator implements FixedPool: alloc grants a slot nobody holds,
\* fails only when all are held, and every other call does what it promises.
ImplementsFixedPool == Abstract!Spec
=============================================================================
