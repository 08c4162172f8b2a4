----------------------------- MODULE MCBootOrder -----------------------------
(* A small instance of BootOrder: four boot numbers of which one is in the   *)
(* window that is searched first, two load options.                          *)
EXTENDS BootOrder

\* The copying loop is SelectSeq.
ASSUME KeptIsSelectSeq ==
    \A len \in 0..4 : \A s \in [1..len -> Nums], S \in SUBSET Nums :
        Kept(s, S) = SelectSeq(s, LAMBDA n : n \in S)
=============================================================================
