--------------------------- MODULE MCAlignmentBits ---------------------------
(****************************************************************************)
(* The bitwise helpers compared with the arithmetic of Alignment, over all  *)
(* arguments up to the bounds.  The alignments go past 128, the largest     *)
(* power of two a u8 holds, and past alignof(max_align_t).                  *)
(****************************************************************************)
EXTENDS AlignmentBits

CONSTANTS MaxValue, MaxAlignment     \* bounds of the inputs compared

ASSUME BoundsAssumption == MaxValue \in Nat /\ MaxAlignment \in 1 .. 255

VARIABLES value, unit    \* the arguments of one call: a size or an address, and the
                         \* alignment or page size it is rounded to

arguments == <<value, unit>>

FirstCall == value = 0 /\ unit = 1

\* The steps walk through all arguments.
NextValue ==
    /\ value' = (value + 1) % (MaxValue + 1)
    /\ UNCHANGED unit

NextUnit ==
    /\ unit' = (unit + 1) % (MaxAlignment + 1)
    /\ UNCHANGED value

NextCall == NextValue \/ NextUnit

HelperCalls == FirstCall /\ [][NextCall]_arguments
-----------------------------------------------------------------------------
(****************************************************************************)
(* The bit test accepts exactly the powers of two up to alignof(max_align_t) *)
(* (helpers.c, libd_memory_is_valid_alignment: "Must be a non-zero power of  *)
(* 2 that doesn't exceed the max alignment").                                *)
(****************************************************************************)
ValidityAgrees == is_valid_alignment(unit) <=> ValidAlignment(unit)

(****************************************************************************)
(* For a power of two, clearing the low bits gives the least multiple that   *)
(* is not below the value (helpers.c, libd_memory_align_up).                 *)
(****************************************************************************)
AlignUpAgrees ==
    unit \in PowersOfTwo => align_up(value, unit) = AlignUp(value, unit)

(****************************************************************************)
(* For any alignment at all the result is never below the value and less     *)
(* than one alignment above it.  The linear allocator relies on it: after    *)
(* its first growth it rounds to a size that is no power of two.             *)
(****************************************************************************)
AlignUpBounded ==
    unit > 0 => align_up(value, unit) \in value .. value + unit - 1
=============================================================================
