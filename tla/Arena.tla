-------------------------------- MODULE Arena --------------------------------
(****************************************************************************)
(* What a linear allocator promises, without pages or a bump index: a stack *)
(* of aligned blocks that do not overlap.  A block stays until the arena is *)
(* reset or restored to a savepoint set before the block was allocated; a   *)
(* restore frees exactly the blocks allocated after its savepoint.          *)
(* LinearAllocator implements this specification.                           *)
(****************************************************************************)
EXTENDS Integers, Sequences, Alignment

CONSTANT Sizes      \* sizes a client may ask for

VARIABLES
    reserve,        \* bytes the arena was created with, 0 when there is none
    align,          \* alignment of every block
    blocks,         \* live blocks, [start, size], oldest first
    savepoints,     \* how many blocks were live when each savepoint was set
    result          \* what the last call returned

vars == <<reserve, align, blocks, savepoints, result>>

Errors == {"invalid_parameter", "invalid_alignment", "no_memory", "err"}

End(b) == b.start + b.size
Overlap(b, c) == b.start < End(c) /\ c.start < End(b)

\* Bytes taken by the live blocks, which a new one is placed behind.
Used == IF blocks = <<>> THEN 0 ELSE AlignUp(End(blocks[Len(blocks)]), align)

Init ==
    /\ reserve = 0
    /\ align = 1
    /\ blocks = <<>>
    /\ savepoints = <<>>
    /\ result = "none"

Create ==
    /\ reserve = 0
    /\ reserve' \in Nat \ {0}
    /\ ValidAlignment(align')
    /\ result' = "ok"
    /\ UNCHANGED <<blocks, savepoints>>

Destroy ==
    /\ reserve > 0
    /\ reserve' = 0
    /\ align' = 1
    /\ blocks' = <<>>
    /\ savepoints' = <<>>
    /\ result' = "ok"

Alloc ==
    /\ Len(blocks') = Len(blocks) + 1
    /\ SubSeq(blocks', 1, Len(blocks)) = blocks
    /\ LET new == blocks'[Len(blocks')]
       IN  /\ new.size \in Sizes \ {0}
           /\ new.start % align = 0
           /\ \A i \in DOMAIN blocks : ~Overlap(blocks[i], new)
    /\ result' = "ok"
    /\ UNCHANGED <<reserve, align, savepoints>>

SetSavepoint ==
    /\ savepoints' = Append(savepoints, Len(blocks))
    /\ result' = "ok"
    /\ UNCHANGED <<reserve, align, blocks>>

\* Restoring a savepoint invalidates the ones set after it.
Restore(k) ==
    /\ blocks' = SubSeq(blocks, 1, savepoints[k])
    /\ savepoints' = SubSeq(savepoints, 1, k)
    /\ result' = "ok"
    /\ UNCHANGED <<reserve, align>>

Reset ==
    /\ blocks' = <<>>
    /\ savepoints' = <<>>
    /\ result' = "ok"
    /\ UNCHANGED <<reserve, align>>

\* An empty allocation, or a question: no block changes.
Observe ==
    /\ result' = "ok"
    /\ UNCHANGED <<reserve, align, blocks, savepoints>>

\* A call that fails changes nothing, and an allocation fails only when it does
\* not fit behind the live blocks.
Fail(error) ==
    /\ error = "no_memory" => \E size \in Sizes : Used + size > reserve
    /\ result' = error
    /\ UNCHANGED <<reserve, align, blocks, savepoints>>

Next ==
    \/ Create
    \/ Destroy
    \/ Alloc
    \/ SetSavepoint
    \/ \E k \in DOMAIN savepoints : Restore(k)
    \/ Reset
    \/ Observe
    \/ \E error \in Errors : Fail(error)

Spec == Init /\ [][Next]_vars
=============================================================================
