---------------------------- MODULE AlignmentBits ----------------------------
(****************************************************************************)
(* The memory helpers bit by bit, as src/memory/internal/helpers.c computes *)
(* them.  uptr never wraps here: no caller rounds a value near 2^64.        *)
(****************************************************************************)
EXTENDS Alignment

\* x & y: what x and y have in common without their last bits, and the last bit
\* if both have it.
And(x, y) ==
    LET and[n \in 0 .. x] ==
            [m \in Nat |-> IF n = 0 THEN 0
                           ELSE 2 * and[n \div 2][m \div 2] + (n % 2) * (m % 2)]
    IN  and[x][y]

\* (offset & (offset - 1)) == 0
is_power_of_two(offset) ==
    IF offset = 0 THEN TRUE ELSE And(offset, offset - 1) = 0

\* Mutant: zero passes, as it does in the power-of-two test.
ZeroIsValid(a) == is_power_of_two(a) /\ a <= MaxAlign

is_valid_alignment(a) == a # 0 /\ is_power_of_two(a) /\ a <= MaxAlign

\* Mutant: rounding starts from value + alignment.
AlignPastUp(v, a) == (v + a) - And(v + a, a - 1)

\* (value + alignment - 1) & ~(alignment - 1): what is left of the sum when
\* the bits of alignment - 1 are taken out of it.
align_up(v, a) == (v + a - 1) - And(v + a - 1, a - 1)
=============================================================================
