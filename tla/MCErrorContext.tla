---------------------------- MODULE MCErrorContext ----------------------------
(****************************************************************************)
(* Two threads with the static slot and one handle more, over two keys and  *)
(* three buffers, and two errors, one with a message that does not fit.     *)
(****************************************************************************)
EXTENDS ErrorContext, TLC

CONSTANTS t1, t2, h1, h2, k1, k2, b1, b2, b3, c

MCThreads == {t1, t2}
MCHandles == {h1, h2}
MCKeys    == {k1, k2}
MCBuffers == {b1, b2, b3}
MCErrors  == {[code |-> 1, msg |-> <<c>>], [code |-> 2, msg |-> <<c, c, c>>]}

Addresses == Permutations(MCHandles) \cup Permutations(MCKeys) \cup Permutations(MCBuffers)
=============================================================================
