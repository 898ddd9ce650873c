-------------------------------- MODULE DArray --------------------------------
(****************************************************************************)
(* libd's dynamic array (include/libd/utils/darray.h): elements in one      *)
(* malloc'd block whose capacity is doubled until a write fits.  append,    *)
(* append_n and insert_at are all memcpy_at, a write at a position that may *)
(* overwrite what is there and go on behind the end.                        *)
(*                                                                          *)
(* The heap is in the model as far as the code depends on it: realloc may   *)
(* move the block, and then the old one is gone.  size_t wraps at SizeMod.  *)
(* An access to memory that is not the array's or the client's ends the     *)
(* model as "undefined".                                                    *)
(****************************************************************************)
EXTENDS Integers, Sequences

CONSTANTS
    SizeMod,            \* 2^64, the modulus of size_t
    ElemSize,           \* sizeof(type)
    Elems,              \* what the array holds
    JUNK,               \* an element nobody wrote
    Blocks,             \* addresses malloc and realloc return
    NULL,
    Capacities,         \* values a client passes for capacity
    Writes,             \* the sequences a client writes from memory of its own
    MaxElems            \* bound: a client writes no element behind this many

ASSUME ConstantsAssumption ==
    /\ SizeMod \in Nat \ {0} /\ ElemSize \in Nat \ {0}
    /\ Capacities \subseteq 0 .. SizeMod - 1
    /\ Writes \subseteq Seq(Elems) /\ \A d \in Writes : Len(d) < SizeMod
    /\ MaxElems \in Nat
    /\ JUNK \notin Elems
    /\ NULL \notin Blocks /\ NULL \notin Seq(Elems \cup {JUNK})

VARIABLES
    capacity, size, dat,    \* fields of the array; dat is NULL without one
    heap,                   \* heap[b]: the elements block b has room for, NULL
                            \*   when it is free
    pc,                     \* "idle", "grow" inside memcpy_at, or "undefined"
    call,                   \* the arguments of memcpy_at and its new_cap
    out,                    \* the element at returned
    result                  \* the code the last call returned; create and at
                            \*   return a pointer, which is NullPointer or Ok

array == <<capacity, size, dat>>
vars == <<array, heap, pc, call, out, result>>

Ok          == 0
NoMemory    == -1
OutOfRange  == -2
NullPointer == -3

NoElem == NULL

\* n elements at position i, from memory of the client's (items) or from a
\* block, from an element of it on.
Call(i, n, items, from, first, new_cap) ==
    [i |-> i, n |-> n, items |-> items, from |-> from, first |-> first, new_cap |-> new_cap]

NoCall == Call(0, 0, <<>>, NULL, 0, 0)

created    == dat # NULL
Idle       == pc = "idle"
FreeBlocks == {b \in Blocks : heap[b] = NULL}

Init ==
    /\ capacity = 0
    /\ size = 0
    /\ dat = NULL
    /\ heap = [b \in Blocks |-> NULL]
    /\ pc = "idle"
    /\ call = NoCall
    /\ out = NoElem
    /\ result = Ok

Return(code, element) ==
    /\ result' = code
    /\ out' = element
    /\ pc' = "idle"
    /\ call' = NoCall

Refuse(code) ==
    /\ Return(code, NoElem)
    /\ UNCHANGED <<array, heap>>
-----------------------------------------------------------------------------
\* How many elements the bytes malloc or memcpy is given for n of them make.
Whole(n) == ((n * ElemSize) % SizeMod) \div ElemSize

\* create returns NULL for a capacity of 0 and when malloc fails, the second
\* time too: the struct is freed again.
Create(cap) ==
    /\ Idle /\ ~created
    /\ \/ Refuse(NullPointer)
       \/ /\ cap # 0
          /\ \E b \in FreeBlocks :
                /\ dat' = b
                /\ heap' = [heap EXCEPT ![b] = [k \in 1 .. Whole(cap) |-> JUNK]]
          /\ capacity' = cap
          /\ size' = 0
          /\ Return(Ok, NoElem)

Destroy ==
    /\ Idle /\ created
    /\ heap' = [heap EXCEPT ![dat] = NULL]
    /\ capacity' = 0
    /\ size' = 0
    /\ dat' = NULL
    /\ Return(Ok, NoElem)

HasElement(i) == i < size

\* at returns a pointer; out is what it points to.
At(null, i) ==
    /\ Idle /\ created
    /\ \/ /\ null \/ ~HasElement(i)
          /\ Refuse(NullPointer)
       \/ /\ ~null /\ HasElement(i)
          /\ Return(Ok, heap[dat][i + 1])
          /\ UNCHANGED <<array, heap>>
-----------------------------------------------------------------------------
\* Mutant: a position in the spare capacity is accepted.
PastCapacity(i) == i > capacity

PastEnd(i) == i > size

\* The tests memcpy_at begins with.
MemcpyAt(null, i, n, items, from, first) ==
    /\ Idle /\ created
    /\ \/ /\ null
          /\ Refuse(NullPointer)
       \/ /\ ~null /\ PastEnd(i)
          /\ Refuse(OutOfRange)
       \/ /\ ~null /\ ~PastEnd(i)
          /\ pc' = "grow"
          /\ call' = Call(i, n, items, from, first, capacity)
          /\ UNCHANGED <<array, heap, out, result>>

AppendN(null, items) == MemcpyAt(null, size, Len(items), items, NULL, 0)

\* Where the write ends, computed in size_t.
End == (call.i + call.n) % SizeMod

\* Mutant: the element behind the last is not counted.
FitsOnePast(new_cap) == End <= new_cap + 1

Fits(new_cap) == End <= new_cap

\* Mutant: the capacity grows by four times.
Quadrupled(new_cap) == (new_cap * 4) % SizeMod

\* Mutant: nothing happens to it.
Undoubled(new_cap) == new_cap

Doubled(new_cap) == (new_cap * 2) % SizeMod

\* One round of the loop.
Double ==
    /\ pc = "grow"
    /\ ~Fits(call.new_cap)
    /\ call' = [call EXCEPT !.new_cap = Doubled(@)]
    /\ UNCHANGED <<array, heap, pc, out, result>>
-----------------------------------------------------------------------------
\* The elements memcpy copies, of the heap h.
Copied(h) == IF call.from = NULL THEN SubSeq(call.items, 1, Whole(call.n))
             ELSE SubSeq(h[call.from], call.first + 1, call.first + Whole(call.n))

\* memcpy stays inside the array's block, reads from one that is not freed, and
\* its two ranges do not overlap.
CopyDefined(h, b) ==
    /\ call.i + Whole(call.n) <= Len(h[b])
    /\ call.from # NULL =>
          /\ h[call.from] # NULL
          /\ call.from = b => \/ call.first + Whole(call.n) <= call.i
                              \/ call.i + Whole(call.n) <= call.first

\* Mutant: the array ends where the write ends.
EndOfWrite == End

EndOfArray == IF End > size THEN End ELSE size

\* memcpy into block b of the heap h, and the new size.  A copy that is not
\* defined comes after the array has the block and the capacity.
Copy(h, b) ==
    IF CopyDefined(h, b)
    THEN /\ heap' = [h EXCEPT ![b] =
                        [k \in DOMAIN @ |->
                            IF k \in call.i + 1 .. call.i + Whole(call.n)
                            THEN Copied(h)[k - call.i] ELSE @[k]]]
         /\ dat' = b
         /\ capacity' = call.new_cap
         /\ size' = EndOfArray
         /\ Return(Ok, NoElem)
    ELSE /\ pc' = "undefined"
         /\ heap' = h
         /\ dat' = b
         /\ capacity' = call.new_cap
         /\ UNCHANGED <<size, call, out, result>>

\* Mutant: the old block is not freed.
CopiedBlock(b) ==
    [heap EXCEPT ![b] = [k \in 1 .. Whole(call.new_cap) |->
                            IF k \in DOMAIN heap[dat] THEN heap[dat][k] ELSE JUNK]]

\* realloc: the block lies at b now and the old one, if it is another, is free.
Resized(b) ==
    [heap EXCEPT ![dat] = NULL,
                 ![b] = [k \in 1 .. Whole(call.new_cap) |->
                            IF k \in DOMAIN heap[dat] THEN heap[dat][k] ELSE JUNK]]

Grow ==
    /\ pc = "grow"
    /\ Fits(call.new_cap)
    /\ call.new_cap # capacity
    /\ \/ Refuse(NoMemory)
       \/ \E b \in FreeBlocks \cup {dat} : Copy(Resized(b), b)

StoreInPlace ==
    /\ pc = "grow"
    /\ Fits(call.new_cap)
    /\ call.new_cap = capacity
    /\ Copy(heap, dat)

\* The rest of a call that has begun.
Step == Double \/ Grow \/ StoreInPlace
-----------------------------------------------------------------------------
\* A client that writes from memory of its own, or from elements of the array
\* (a pointer at returned), wherever they are.
ClientCall ==
    \/ \E cap \in Capacities : Create(cap)
    \/ Destroy
    \/ \E null \in BOOLEAN, i \in 0 .. MaxElems : At(null, i)
    \/ \E null \in BOOLEAN, d \in Writes :
          size + Len(d) <= MaxElems /\ AppendN(null, d)
    \/ \E null \in BOOLEAN, i \in 0 .. MaxElems, d \in Writes :
          i + Len(d) <= MaxElems /\ MemcpyAt(null, i, Len(d), d, NULL, 0)
    \/ \E i \in 0 .. size, first \in 0 .. size - 1 : \E n \in 1 .. size - first :
          /\ i + n <= MaxElems
          /\ MemcpyAt(FALSE, i, n, <<>>, dat, first)

Next == ClientCall \/ Step

\* A call that has begun is executed.
Spec == Init /\ [][Next]_vars /\ WF_vars(Step)
-----------------------------------------------------------------------------
TypeOK ==
    /\ capacity \in 0 .. SizeMod - 1
    /\ size \in 0 .. SizeMod - 1
    /\ dat \in Blocks \cup {NULL}
    /\ created <=> capacity > 0
    /\ \A b \in Blocks : heap[b] # NULL => heap[b] \in Seq(Elems \cup {JUNK})
    /\ pc \in {"idle", "grow", "undefined"}
    /\ call.new_cap \in 0 .. SizeMod - 1
    /\ out \in Elems \cup {NoElem}
    /\ result \in {Ok, NoMemory, OutOfRange, NullPointer}

(****************************************************************************)
(* The block really has room for the capacity the array believes in, the     *)
(* array's elements lie within it, and each of them was written by a client: *)
(* no growth loses or invents one (darray.h:76-92, memcpy_at).               *)
(****************************************************************************)
BlockHoldsElements ==
    created => /\ size <= capacity
               /\ capacity <= Len(heap[dat])
               /\ \A k \in 1 .. size : heap[dat][k] \in Elems

(****************************************************************************)
(* Every copy reads memory that is still allocated and writes inside the     *)
(* array's block, although the block may move between the test and the copy. *)
(* It is so for every source but the array's own elements: darray.h:82-90    *)
(* calls realloc, then memcpy from a pointer taken before it.                *)
(****************************************************************************)
CopiesDefined == pc # "undefined"

\* The source was in the array's block, and that has moved away.
SourceMoved == call.from # NULL /\ call.from # dat

\* The source is in the array's block, and the write goes over some of it.
SourceOverwritten ==
    /\ call.from = dat
    /\ call.i < call.first + call.n
    /\ call.first < call.i + call.n

(****************************************************************************)
(* A copy is undefined only for a write from the array's own elements, when  *)
(* realloc has moved them or when the write goes over them: a copy from the  *)
(* client's memory never leaves the block, however often that moves, and one *)
(* from the array itself is right as well when the block stays and the       *)
(* elements are elsewhere in it (darray.h:77-90).                            *)
(****************************************************************************)
UndefinedOnlyAliased == pc = "undefined" => SourceMoved \/ SourceOverwritten

(****************************************************************************)
(* The array's block is the only one allocated: none is lost when realloc    *)
(* moves it or fails, or when create gives up half way                       *)
(* (darray.h:32-42, 82-88).                                                  *)
(****************************************************************************)
NothingLeaks == \A b \in Blocks : heap[b] # NULL => b = dat

(****************************************************************************)
(* Growth is no more than asked for: a new capacity is less than twice the   *)
(* end of the write it is made for, and a write that fits leaves the         *)
(* capacity alone (darray.h:77-81).                                          *)
(****************************************************************************)
GrowthTight ==
    [][ (created /\ dat' # NULL /\ capacity' # capacity) =>
            /\ capacity' > capacity
            /\ call.i + call.n > capacity
            /\ capacity' < 2 * (call.i + call.n) ]_vars

(****************************************************************************)
(* Every write returns: doubling reaches the end of the write                *)
(* (darray.h:77-80).                                                         *)
(****************************************************************************)
Returns == pc = "grow" ~> pc # "grow"

\* What the array promises.
Abstract == INSTANCE Vector WITH
    exists   <- created,
    contents <- IF created THEN SubSeq(heap[dat], 1, size) ELSE <<>>,
    answer   <- out,
    status   <- IF result = Ok THEN "ok" ELSE "failed"

\* The dynamic array implements Vector: a write that succeeds stores exactly
\* what its source held and nothing else changes, one that fails changes
\* nothing, and at answers with what is there.
ImplementsVector == Abstract!Spec
=============================================================================
