--------------------------- MODULE MCTokenManager ---------------------------
(***************************************************************************)
(* TokenManager for TLC: threads are interchangeable.                      *)
(***************************************************************************)
EXTENDS TokenManager, TLC

Symmetry == Permutations(Thread)
=============================================================================
