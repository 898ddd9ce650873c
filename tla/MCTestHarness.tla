----------------------------- MODULE MCTestHarness -----------------------------
(****************************************************************************)
(* Three tests of up to two assertions each, in words of three bits: every  *)
(* order of registration, every pair of integers under every comparison.    *)
(****************************************************************************)
EXTENDS TestHarness

CONSTANTS test1, test2, test3

MCEntries == {test1, test2, test3}
=============================================================================
