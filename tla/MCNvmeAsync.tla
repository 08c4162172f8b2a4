---------------------------- MODULE MCNvmeAsync ----------------------------
(* Instances of NvmeAsync for TLC. *)
EXTENDS NvmeAsync

CONSTANTS r1, r2

TwoRequests == {r1, r2}

\* One request of two parts and one of a single part.
TwoAndOne == r1 :> 2 @@ r2 :> 1

\* Failing transfers; blocking commands that time out; everything that tears
\* the rings down.
Situations == { {"media", "map"}, {"timeout"},
                {"memory", "timeout", "dead", "reset", "resetEx"} }

=============================================================================
