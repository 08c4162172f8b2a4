--------------------------- MODULE MCFswBlockCache ---------------------------
(* A small instance of FswBlockCache: three pins at most against a first     *)
(* table of two slots, so that hits, evictions and growth all happen.        *)
EXTENDS FswBlockCache, TLC

Symmetry == Permutations(Clients) \cup Permutations(Blocks)
=============================================================================
