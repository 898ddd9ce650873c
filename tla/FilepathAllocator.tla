--------------------------- MODULE FilepathAllocator ---------------------------
(****************************************************************************)
(* The file path allocator (src/filesystem/filepath_allocator.c and         *)
(* internal/allocator_wrap.c): a linear allocator of 8 KiB behind a handle  *)
(* and two function pointers, whose callers see no result codes: every      *)
(* failure of create is out of memory, a failing alloc is a null pointer,   *)
(* and reset and destroy return nothing.                                    *)
(*                                                                          *)
(* The linear allocator is LinearAllocator itself, with the sizes this code *)
(* gives it; its variables are declared here to be shared with it.          *)
(****************************************************************************)
EXTENDS Naturals, Sequences

CONSTANTS
    U32, PageSize, HeaderSize, RoundUp(_, _), MaxAddress,   \* see LinearAllocator
    AlignmentArgs,      \* what a client passes for alignment
    SizeArgs,           \*   and for bytes
    NULL, ARENA         \* values of the handle

KiB         == 1024
Reservation == 8 * KiB

VARIABLES
    a,                  \* wrapper.a: ARENA, or NULL when there is none
    methods,            \* whether the alloc and reset pointers are set
    returned,           \* what the last call returned; "ok" for reset and destroy
    curr_data_size, head_index, alignment, data_reservation_size,
    mapped, committed, savepoints, blocks, out, result

ASSUME ConstantsAssumption ==
    /\ PageSize \in Nat \ {0} /\ HeaderSize \in Nat \ {0}
    /\ HeaderSize % 16 = 0 /\ PageSize % HeaderSize = 0 /\ HeaderSize < PageSize
    /\ U32 \in Nat /\ HeaderSize + Reservation + PageSize <= U32
    /\ MaxAddress \in Nat /\ HeaderSize + 3 * Reservation + PageSize <= MaxAddress
    /\ AlignmentArgs \subseteq 0 .. 255
    /\ SizeArgs \subseteq 0 .. U32 - 1 /\ SizeArgs \ {0} # {}
    /\ NULL # ARENA

LA == INSTANCE LinearAllocator WITH
    ReservationArgs <- {Reservation},
    CapacityArgs    <- {KiB},
    MaxSavepoints   <- 0,
    GrowthMayFail   <- FALSE

arena == <<curr_data_size, head_index, alignment, data_reservation_size, mapped,
           committed, savepoints, blocks, out, result>>
vars == <<a, methods, returned, arena>>

\* A client that zeroes the struct before it uses it.
Init ==
    /\ a = NULL
    /\ methods = FALSE
    /\ returned = "none"
    /\ LA!Init
-----------------------------------------------------------------------------
\* Mutant: the result of the linear allocator is passed on.
CodeAsIs(code) == code

\* The codes of create.
Code(code) == IF code = "ok" THEN "ok" ELSE "no_memory"

\* A create that fails leaves the handle as it was; if mprotect failed, a mapping
\* nothing refers to is left over.
Create(align) ==
    /\ a = NULL
    /\ LA!Create(FALSE, Reservation, KiB, align)
    /\ returned' = Code(result')
    /\ \/ /\ result' = "ok"
          /\ a' = ARENA
          /\ methods' = TRUE
       \/ /\ result' # "ok"
          /\ UNCHANGED <<a, methods>>

\* The linear allocator refuses a null handle.
Alloc(bytes) ==
    /\ methods
    /\ \/ a = NULL /\ LA!Refuse("invalid_parameter")
       \/ a # NULL /\ LA!Alloc(FALSE, bytes)
    /\ returned' = IF result' = "ok" THEN "pointer" ELSE "null"
    /\ UNCHANGED <<a, methods>>

Reset ==
    /\ methods
    /\ \/ a = NULL /\ LA!Refuse("invalid_parameter")
       \/ a # NULL /\ LA!Reset(FALSE)
    /\ returned' = "ok"
    /\ UNCHANGED <<a, methods>>

\* Mutant: the handle is kept.
DestroyKeepsHandle ==
    /\ a # NULL
    /\ LA!Destroy(FALSE)
    /\ returned' = "ok"
    /\ UNCHANGED <<a, methods>>

\* The handle is set to NULL whether or not munmap succeeded; if it did not, a
\* mapping nothing refers to is left over.
Destroy ==
    /\ \/ /\ a = NULL
          /\ LA!Refuse("invalid_parameter")
       \/ /\ a # NULL
          /\ LA!Destroy(FALSE) /\ result' = "ok"
       \/ /\ a # NULL
          /\ LA!NoArena
          /\ result' = "err" /\ out' = LA!NoValue
    /\ a' = NULL
    /\ returned' = "ok"
    /\ UNCHANGED methods

Next ==
    \/ \E align \in AlignmentArgs : Create(align)
    \/ \E bytes \in SizeArgs : Alloc(bytes)
    \/ Reset
    \/ Destroy

Spec == Init /\ [][Next]_vars
-----------------------------------------------------------------------------
TypeOK ==
    /\ LA!TypeOK
    /\ a \in {NULL, ARENA}
    /\ methods \in BOOLEAN
    /\ returned \in {"none", "ok", "no_memory", "pointer", "null"}

(****************************************************************************)
(* The handle never refers to memory that was unmapped, or not mapped, in    *)
(* particular after a create or destroy that failed without telling: the     *)
(* calls on it would read its header (allocator_wrap.c:44-45).               *)
(****************************************************************************)
HandleValid == a # NULL => LA!created /\ committed >= HeaderSize

(****************************************************************************)
(* The sizes this allocator is created with fit each other: the first        *)
(* kibibyte, rounded to pages and with its header, lies within what the      *)
(* reservation of 8 KiB maps (memory.h:42-43, "The amount of virtual address *)
(* space to reserve for the allocator").                                     *)
(****************************************************************************)
OwnMemoryOnly == LA!CommittedWithinMapping

\* Bytes the live blocks take with their rounding.
Used == LET end == blocks[Len(blocks)].start + blocks[Len(blocks)].size
        IN  IF blocks = <<>> THEN 0 ELSE RoundUp(end, alignment)

(****************************************************************************)
(* The client gets the whole reservation: alloc returns a null pointer only  *)
(* when the live blocks and the new one do not fit in 8 KiB, whatever was    *)
(* grown, allocated and reset before (filepath_allocator.c:9).               *)
(****************************************************************************)
ServesReservation ==
    [][ \A bytes \in SizeArgs :
          (a # NULL /\ Alloc(bytes) /\ returned' = "null") =>
              Used + bytes > Reservation ]_vars

\* What a client sees of it, as an arena.
Abstract == INSTANCE Arena WITH
    Sizes   <- SizeArgs,
    reserve <- IF a = NULL THEN 0 ELSE Reservation,
    align   <- alignment,
    result  <- CASE returned \in {"ok", "pointer"} -> "ok"
                 [] returned \in {"no_memory", "null"} -> "no_memory"
                 [] OTHER -> returned

\* The file path allocator implements Arena, without savepoints, although it
\* drops every code of the allocator behind it and accepts calls after destroy:
\* blocks stay aligned and disjoint, and a failing call changes nothing.
ImplementsArena == Abstract!Spec
=============================================================================
