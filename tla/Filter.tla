-------------------------------- MODULE Filter --------------------------------
(***************************************************************************)
(* The loop that copies the wanted elements of an array into a new one, as *)
(* SetBootDefault and DeleteInvalidBootEntries do with BootOrder and the   *)
(* scan with what it finds.  It is SelectSeq, written as a recursive       *)
(* function, of which, unlike of SelectSeq, something can be proved.       *)
(***************************************************************************)
EXTENDS Integers, Sequences

\* The elements of s that are in S, in their order.
Kept(s, S) ==
    LET upto[n \in 0..Len(s)] ==
            IF n = 0 THEN <<>>
            ELSE IF s[n] \in S THEN Append(upto[n - 1], s[n])
            ELSE upto[n - 1]
    IN  upto[Len(s)]
=============================================================================
