------------------------------ MODULE AutoBoot ------------------------------
(***************************************************************************)
(* What the boot menu promises about its countdown, without keys, screens  *)
(* or configuration: it is armed with a number of seconds, goes down by    *)
(* one each second, and either is stopped or expires after exactly that    *)
(* many seconds.  After it has expired it is not armed again while the     *)
(* machine is on, so that a default that does not boot is not tried for    *)
(* ever with nobody in front of the machine.                               *)
(***************************************************************************)
EXTENDS Naturals

VARIABLES
    left,     \* seconds to go, 0 when nothing is counted down
    expired   \* a countdown has run out since the machine was switched on

vars == <<left, expired>>

Init == left = 0 /\ expired = FALSE

Arm ==
    /\ left = 0
    /\ ~expired
    /\ left' \in Nat \ {0}
    /\ UNCHANGED expired

Second ==
    /\ left > 1
    /\ left' = left - 1
    /\ UNCHANGED expired

Expire ==
    /\ left = 1
    /\ left' = 0
    /\ expired' = TRUE

Stop ==
    /\ left > 0
    /\ left' = 0
    /\ UNCHANGED expired

Next == Arm \/ Second \/ Expire \/ Stop

Safety == Init /\ [][Next]_vars

Spec == Safety /\ WF_vars(Second \/ Expire)
=============================================================================
