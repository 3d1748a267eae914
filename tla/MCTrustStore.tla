--------------------------- MODULE MCTrustStore ----------------------------
(* Roots, ids and calls are interchangeable.                               *)
EXTENDS TrustStore, TLC

Symmetry == Permutations(Roots) \union Permutations(TrustIds) \union Permutations(Calls)
=============================================================================
