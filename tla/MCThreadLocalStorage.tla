------------------------ MODULE MCThreadLocalStorage ------------------------
(****************************************************************************)
(* Two threads, two handles over two keys and three buffers: enough for a   *)
(* handle and the static slot side by side, for keys, addresses and buffers *)
(* to be reused, and for malloc to run out of buffers.                      *)
(****************************************************************************)
EXTENDS ThreadLocalStorage, TLC

CONSTANTS t1, t2, h1, h2, k1, k2, b1, b2, b3, v1, v2

MCThreads == {t1, t2}
MCHandles == {h1, h2}
MCKeys    == {k1, k2}
MCBuffers == {b1, b2, b3}
MCValues  == {v1, v2}

Addresses ==
    Permutations(MCHandles) \cup Permutations(MCKeys) \cup Permutations(MCBuffers)
        \cup Permutations(MCValues)
=============================================================================
