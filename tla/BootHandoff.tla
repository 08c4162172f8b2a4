----------------------------- MODULE BootHandoff -----------------------------
(***************************************************************************)
(* Handing the machine over through the firmware: reboot into a firmware   *)
(* boot option (RebootIntoLoader), into the firmware's setup screen        *)
(* (RebootIntoFirmware), into APFS recovery (RecoveryBootAPFS) and into a  *)
(* loader in the native trust chain (RunTrustSync).  Each of them prepares *)
(* NVRAM variables one write at a time and then resets; EfivarSetRaw       *)
(* reports a variable that already has the value as an error, a write may  *)
(* fail, ResetSystem may return, and the power may go at any point.        *)
(* StoreLoaderName and StoreLoaderIdentity, which two of them call before  *)
(* the reset, return nothing and are modelled in PreviousBoot.             *)
(***************************************************************************)
EXTENDS BootTable, FiniteSets

CONSTANTS
    Nothing,       \* no value: BootNext does not exist, nothing was asked for
    MaxUnreadable  \* bound on the variables that cannot be read at one time

Places == {"firmware", "setup", "meridian"}

ASSUME BootHandoffAssumption ==
    /\ Options \cap Places = {}
    /\ Nothing \notin Options /\ Nothing \notin Places /\ Nothing \notin Nums

VARIABLES
    table,       \* the Boot#### variables
    bootNext,    \* BootNext
    fwUI,        \* EFI_OS_INDICATIONS_BOOT_TO_FW_UI in OsIndications
    recMode,     \* internet-recovery-mode is RecoveryModeDisk
    recInit,     \* RecoveryBootInitiator has been written
    unreadable,  \* boot numbers that GetVariable fails to return at the moment
    running,     \* what has the machine: a place, or the system of an option
    op,          \* the request Meridian is carrying out
    asked,       \* what the last reset was to start
    stray        \* one-shot requests that a reset that returned has left behind

nvram == <<table, bootNext, fwUI, recMode, recInit>>
vars == <<table, bootNext, fwUI, recMode, recInit, unreadable, running, op, asked, stray>>

\* "blind" is history: what could not be read when FindBootNum chose the number.
NoOp == [kind |-> "none", pc |-> "menu", num |-> 0, entry |-> Absent, blind |-> {}]

Faults == {S \in SUBSET Nums : Cardinality(S) <= MaxUnreadable}

Init ==
    /\ table \in Tables
    /\ unreadable \in Faults
    /\ bootNext = Nothing
    /\ fwUI = FALSE /\ recMode = FALSE /\ recInit = FALSE
    /\ running = "firmware"
    /\ op = NoOp
    /\ asked = Nothing
    /\ stray = {}

AtMenu == running = "meridian" /\ op = NoOp

ToMenu == op' = NoOp /\ UNCHANGED <<running, asked, stray>>
GoTo(pc) == op' = [op EXCEPT !.pc = pc, !.blind = {}] /\ UNCHANGED <<running, asked, stray>>

Begin(kind, pc, num, e) ==
    /\ AtMenu
    /\ op' = [kind |-> kind, pc |-> pc, num |-> num, entry |-> e,
              blind |-> IF pc = "bootvar" THEN unreadable ELSE {}]
    /\ UNCHANGED <<nvram, unreadable, running, asked, stray>>
-----------------------------------------------------------------------------
(* Requests from the menu *)

\* RebootIntoLoader: the boot number comes with the entry, nothing checks it.
Native(n) == Begin("native", "next", n, Absent)

\* RebootIntoFirmware
IntoSetup == Begin("setup", "osind", 0, Absent)

\* RecoveryBootAPFS
Recovery(e) == Begin("recovery", "recmode", 0, e)

\* Mutant: a number that does not hold the entry yet is used as it is.
AfterFind_Skip(found) == "next"
AfterFind(found) == IF found.exists THEN "next" ELSE "bootvar"

\* RunTrustSync: the loader is valid, the load option is built and has a number.
\* (An invalid loader or a failed ConstructBootEntry halts with nothing done.)
Trust(e) ==
    \E found \in {FindBootNum(table, unreadable, e)} :
       Begin("trust", AfterFind(found), found.num, e)
-----------------------------------------------------------------------------
(* Writes, each by EfivarSetRaw *)

WriteRecMode ==
    /\ op.pc = "recmode"
    /\ \/ ~recMode /\ recMode' = TRUE /\ GoTo("recinit")
       \/ UNCHANGED recMode /\ ToMenu
    /\ UNCHANGED <<table, bootNext, fwUI, recInit, unreadable>>

\* RecoveryBootInitiator is written from the entry's memory, which differs from
\* one run to the next: an old value may match or not.  Then the load option is
\* built, which may fail, and gets its number.
WriteRecInit ==
    /\ op.pc = "recinit"
    /\ recInit' \in {recInit, TRUE}
    /\ \/ /\ recInit' = TRUE
          /\ \E found \in {FindBootNum(table, unreadable, op.entry)} :
                op' = [op EXCEPT !.pc = AfterFind(found), !.num = found.num,
                                 !.blind = IF found.exists THEN {} ELSE unreadable]
          /\ UNCHANGED <<running, asked, stray>>
       \/ ToMenu
    /\ UNCHANGED <<table, bootNext, fwUI, recMode, unreadable>>

\* Boot#### is written unless it can be read and holds the option already.
WriteBootVar ==
    /\ op.pc = "bootvar"
    /\ \/ /\ ~Matches(table, unreadable, op.entry, op.num)
          /\ table' = [table EXCEPT ![op.num] = op.entry]
          /\ GoTo("next")
       \/ UNCHANGED table /\ ToMenu
    /\ UNCHANGED <<bootNext, fwUI, recMode, recInit, unreadable>>

\* Mutant: the status of the write is not looked at.
WriteBootNext_IgnoreError ==
    /\ op.pc = "next"
    /\ bootNext' \in {bootNext, op.num}
    /\ GoTo("reset")
    /\ UNCHANGED <<table, fwUI, recMode, recInit, unreadable>>

\* BootNext with the value it already has is refused as well.
WriteBootNext ==
    /\ op.pc = "next"
    /\ \/ bootNext # op.num /\ bootNext' = op.num /\ GoTo("reset")
       \/ UNCHANGED bootNext /\ ToMenu
    /\ UNCHANGED <<table, fwUI, recMode, recInit, unreadable>>

WriteOsIndications ==
    /\ op.pc = "osind"
    /\ \/ ~fwUI /\ fwUI' = TRUE /\ GoTo("reset")
       \/ UNCHANGED fwUI /\ ToMenu
    /\ UNCHANGED <<table, bootNext, recMode, recInit, unreadable>>

\* What the machine is to start when the reset takes effect.
Target == IF op.kind = "setup" THEN "setup"
          ELSE IF table[op.num] # Absent THEN table[op.num] ELSE Nothing

\* ResetSystem resets the machine.
Resets ==
    /\ op.pc = "reset"
    /\ running' = "firmware"
    /\ asked' = Target
    /\ op' = NoOp
    /\ UNCHANGED <<nvram, unreadable, stray>>

\* Mutant: RebootIntoLoader goes back to the menu without undoing BootNext.
ResetReturns_NoUndo ==
    /\ op.pc = "reset"
    /\ op' = NoOp
    /\ stray' = stray \cup (IF op.kind = "setup" THEN {"setup"}
                            ELSE IF op.kind = "native" THEN {} ELSE {"next"})
    /\ UNCHANGED <<nvram, unreadable, running, asked>>

\* ResetSystem returns: only RebootIntoLoader takes its request back.
ResetReturns ==
    /\ op.pc = "reset"
    /\ IF op.kind = "native"
       THEN op' = [op EXCEPT !.pc = "undo"] /\ UNCHANGED stray
       ELSE /\ op' = NoOp
            /\ stray' = stray \cup {IF op.kind = "setup" THEN "setup" ELSE "next"}
    /\ UNCHANGED <<nvram, unreadable, running, asked>>

\* RebootIntoLoader deletes BootNext and ignores the status.
Undo ==
    /\ op.pc = "undo"
    /\ op' = NoOp
    /\ \/ bootNext' = Nothing /\ stray' = stray \ {"next"}
       \/ UNCHANGED bootNext /\ stray' = stray \cup {"next"}
    /\ UNCHANGED <<table, fwUI, recMode, recInit, unreadable, running, asked>>
-----------------------------------------------------------------------------
(* The other ways out of Meridian, and the firmware *)

\* StartLoader hands over directly; the loader does not come back.
DirectBoot(e) ==
    /\ AtMenu
    /\ running' = e
    /\ UNCHANGED <<nvram, unreadable, op, asked, stray>>

\* Restart from the menu, or the power goes.
PowerCycle ==
    /\ running = "meridian"
    /\ running' = "firmware"
    /\ op' = NoOp
    /\ UNCHANGED <<nvram, unreadable, asked, stray>>

\* The firmware honours the setup bit, then BootNext, then BootOrder.
EnterSetup ==
    /\ running = "firmware" /\ fwUI
    /\ fwUI' = FALSE
    /\ running' = "setup"
    /\ stray' = stray \ {"setup"}
    /\ UNCHANGED <<table, bootNext, recMode, recInit, unreadable, op, asked>>

LeaveSetup ==
    /\ running = "setup"
    /\ running' = "firmware"
    /\ asked' = IF asked = "setup" THEN Nothing ELSE asked
    /\ UNCHANGED <<nvram, unreadable, op, stray>>

\* An option that cannot be loaded leads on to BootOrder, that is to Meridian.
TakeBootNext ==
    /\ running = "firmware" /\ ~fwUI /\ bootNext # Nothing
    /\ bootNext' = Nothing
    /\ stray' = stray \ {"next"}
    /\ \/ /\ table[bootNext] # Absent
          /\ running' = table[bootNext]
          /\ UNCHANGED asked
       \/ running' = "meridian" /\ asked' = Nothing
    /\ UNCHANGED <<table, fwUI, recMode, recInit, unreadable, op>>

TakeBootOrder ==
    /\ running = "firmware" /\ ~fwUI /\ bootNext = Nothing
    /\ running' = "meridian"
    /\ UNCHANGED <<nvram, unreadable, op, asked, stray>>

\* Another system edits the boot options, consumes the recovery request, reboots.
SystemReboots ==
    /\ running \in Options
    /\ running' = "firmware"
    /\ asked' = Nothing
    /\ \/ UNCHANGED table
       \/ \E n \in Nums, x \in Options \cup {Absent} : table' = [table EXCEPT ![n] = x]
    /\ recMode' \in {recMode, FALSE}
    /\ recInit' \in {recInit, FALSE}
    /\ UNCHANGED <<bootNext, fwUI, unreadable, op, stray>>

\* The firmware fails to read other variables than before, at any time.
ReadsChange ==
    /\ unreadable' \in Faults \ {unreadable}
    /\ UNCHANGED <<nvram, running, op, asked, stray>>

Next ==
    \/ \E n \in Nums : Native(n)
    \/ IntoSetup
    \/ \E e \in Options : Recovery(e) \/ Trust(e) \/ DirectBoot(e)
    \/ WriteRecMode \/ WriteRecInit \/ WriteBootVar \/ WriteBootNext
    \/ WriteOsIndications
    \/ Resets \/ ResetReturns \/ Undo
    \/ PowerCycle
    \/ EnterSetup \/ LeaveSetup \/ TakeBootNext \/ TakeBootOrder \/ SystemReboots
    \/ ReadsChange

Spec == Init /\ [][Next]_vars
-----------------------------------------------------------------------------
(* Properties *)

Op == [kind : {"none", "native", "setup", "recovery", "trust"},
       pc : {"menu", "recmode", "recinit", "bootvar", "next", "osind", "reset", "undo"},
       num : Nums, entry : Options \cup {Absent}, blind : SUBSET Nums]

\* Types of the NVRAM variables and of the request under way in launch_efi.c and
\* nvram_helpers.c.
TypeOK ==
    /\ table \in Tables
    /\ bootNext \in Nums \cup {Nothing}
    /\ fwUI \in BOOLEAN /\ recMode \in BOOLEAN /\ recInit \in BOOLEAN
    /\ unreadable \subseteq Nums
    /\ running \in Options \cup Places
    /\ op \in Op
    /\ asked \in Options \cup {"setup", Nothing}
    /\ stray \subseteq {"next", "setup"}

\* ResetSystem is only called when everything the request needs is in NVRAM, even
\* if a write failed on the way: BootNext names the option, the option holds the
\* loader that was picked, recovery has its two variables, setup has its bit.
ResetIsComplete ==
    op.pc = "reset" =>
        /\ op.kind = "setup" => fwUI
        /\ op.kind # "setup" => bootNext = op.num
        /\ op.kind \in {"recovery", "trust"} => table[op.num] = op.entry
        /\ op.kind = "recovery" => recMode /\ recInit

\* After such a reset the first system that runs is the one that was asked for:
\* no other system, and not Meridian, unless the firmware cannot load it.
AskedIsStarted ==
    /\ asked \in Options => running \in {"firmware", "setup", asked}
    /\ asked = "setup" => running \in {"firmware", "setup"}

\* At the menu, and while another system runs, no one-shot request is pending
\* that the next restart would take for the user's wish, except after a reset
\* that returned (or an undo of RebootIntoLoader that failed).
PendingOnlyAfterFailedReset ==
    (AtMenu \/ running \in Options) =>
        /\ bootNext # Nothing => "next" \in stray
        /\ fwUI => "setup" \in stray

Full(e) == \A n \in Nums : Readable(table, op.blind, n) /\ table[n] # e

\* RunTrustSync and RecoveryBootAPFS overwrite another system's Boot#### only where it
\* could not be read when FindBootNum chose its number (and took it for free), or where
\* all numbers are taken, whatever can be read when it is written; and they never touch
\* another number than the one they chose.
SetUpKeepsOthers ==
    [][\A n \in Nums :
          (running = "meridian" /\ table[n] # Absent /\ table'[n] # table[n])
          => n = op.num /\ (n \in op.blind \/ Full(op.entry))]_vars
=============================================================================
