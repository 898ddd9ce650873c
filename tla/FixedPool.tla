------------------------------ MODULE FixedPool ------------------------------
(****************************************************************************)
(* What a pool allocator promises, without free lists: a fixed number of    *)
(* blocks, each either held by the client or free.  An allocation grants a  *)
(* block nobody holds and fails only when every block is held; a free       *)
(* returns one held block and touches no other; a reset returns them all.   *)
(* PoolAllocator implements this specification.                             *)
(****************************************************************************)
EXTENDS Integers

VARIABLES
    capacity,   \* number of blocks, 0 when there is no pool
    held,       \* blocks the client holds
    granted,    \* the block the last successful Alloc returned, or NoBlock
    result      \* what the last call returned

vars == <<capacity, held, granted, result>>

NoBlock == -1
Blocks  == 0 .. capacity - 1
Errors  == {"invalid_parameter", "invalid_alignment", "no_memory", "invalid_pointer"}

Init ==
    /\ capacity = 0
    /\ held = {}
    /\ granted = NoBlock
    /\ result = "none"

Create ==
    /\ capacity = 0
    /\ capacity' \in Nat \ {0}
    /\ granted' = NoBlock
    /\ result' = "ok"
    /\ UNCHANGED held

Destroy ==
    /\ capacity > 0
    /\ capacity' = 0
    /\ held' = {}
    /\ granted' = NoBlock
    /\ result' = "ok"

Alloc(b) ==
    /\ b \in Blocks \ held
    /\ held' = held \cup {b}
    /\ granted' = b
    /\ result' = "ok"
    /\ UNCHANGED capacity

Free(b) ==
    /\ b \in held
    /\ held' = held \ {b}
    /\ granted' = NoBlock
    /\ result' = "ok"
    /\ UNCHANGED capacity

Reset ==
    /\ capacity > 0
    /\ held' = {}
    /\ granted' = NoBlock
    /\ result' = "ok"
    /\ UNCHANGED capacity

\* A call that fails changes nothing, and a pool is out of memory only when
\* every block is held (or when it could not be created).
Fail(error) ==
    /\ error = "no_memory" => held = Blocks
    /\ result' = error
    /\ granted' = NoBlock
    /\ UNCHANGED <<capacity, held>>

Next ==
    \/ Create
    \/ Destroy
    \/ \E b \in Blocks : Alloc(b)
    \/ \E b \in held : Free(b)
    \/ Reset
    \/ \E error \in Errors : Fail(error)

Spec == Init /\ [][Next]_vars
=============================================================================
