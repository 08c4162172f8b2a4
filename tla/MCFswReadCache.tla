--------------------------- MODULE MCFswReadCache ---------------------------
(* Two drives and two structures: an address is reused for another volume,   *)
(* the medium of a live volume is replaced, a window reaches past the end    *)
(* of the medium and over a bad spot.                                        *)
EXTENDS FswReadCache, TLC

Symmetry == Permutations(Addrs) \cup Permutations(Handles) \cup Permutations(Media)
=============================================================================
