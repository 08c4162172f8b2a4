------------------------------ MODULE BootOrder ------------------------------
(***************************************************************************)
(* The installer's firmware boot entries (install/install.c): registering  *)
(* Meridian as the default boot option, promoting and deleting options in  *)
(* the BootOrder manager.  Every NVRAM write is a step of its own, so that *)
(* a write may fail and the power may go between any two of them.          *)
(***************************************************************************)
EXTENDS BootTable, Filter, FiniteSets

CONSTANTS
    MaxUnreadable  \* bound on the variables that cannot be read at one time

VARIABLES
    table,       \* the Boot#### variables
    order,       \* BootOrder; a variable of no bytes does not exist: <<>>
    unreadable,  \* boot numbers that GetVariable fails to return at the moment
    op,          \* the operation of the menu that is under way
    screen       \* the message the last operation left on the screen

vars == <<table, order, unreadable, op, screen>>

\* "blind" is history: what could not be read when FindBootNum chose the number.
NoOp == [kind |-> "none", pc |-> "idle", num |-> 0, entry |-> Absent, copied |-> FALSE,
         blind |-> {}]

Blank == [text |-> "none", op |-> NoOp, short |-> FALSE]

Members(o) == {o[i] : i \in 1..Len(o)}

Faults == {S \in SUBSET Nums : Cardinality(S) <= MaxUnreadable}

Init ==
    /\ unreadable \in Faults
    /\ table \in Tables
    /\ \E o \in {<<>>} \cup {<<n>> : n \in Nums} :
          order = o /\ \A n \in Members(o) : table[n] # Absent
    /\ op = NoOp
    /\ screen = Blank

Ends(text, short) ==
    /\ op' = NoOp
    /\ screen' = [text |-> text, op |-> op, short |-> short]

\* InstallMeridian: an ESP is picked and CopyMeridianFiles runs.  Its BOOLEAN
\* result drops the error bit of the status, so the registration goes ahead
\* whether or not the files were copied.
Install(e) ==
    /\ op = NoOp
    /\ \E copied \in BOOLEAN, found \in {FindBootNum(table, unreadable, e)} :
          op' = [kind |-> "install", pc |-> IF found.exists THEN "default" ELSE "write",
                 num |-> found.num, entry |-> e, copied |-> copied,
                 blind |-> IF found.exists THEN {} ELSE unreadable]
    /\ screen' = Blank
    /\ UNCHANGED <<table, order, unreadable>>

\* No ESP, or ConstructBootEntry runs out of memory.
InstallFails ==
    /\ op = NoOp
    /\ screen' = [text |-> "problems", op |-> NoOp, short |-> FALSE]
    /\ UNCHANGED <<table, order, unreadable, op>>

Registered ==
    /\ table' = [table EXCEPT ![op.num] = op.entry]
    /\ op' = [op EXCEPT !.pc = "default", !.blind = {}]
    /\ UNCHANGED screen

\* CreateNvramEntry writes Boot####.  SetHardwareNvramVariable refuses, with an error,
\* what the variable holds already.  A variable whose size it cannot learn is "not
\* found" and is written; one whose data it cannot read after that is refused.
WriteOption ==
    /\ op.pc = "write"
    /\ \/ /\ ~Matches(table, unreadable, op.entry, op.num)
          /\ Registered
       \/ Ends("problems", FALSE) /\ UNCHANGED table
    /\ UNCHANGED <<order, unreadable>>

\* Mutants: any place in the list counts as first; the number is swapped with the
\* first one.
AlreadyFirst_Anywhere(o, n) == n \in Members(o)
AlreadyFirst(o, n) == Len(o) > 0 /\ o[1] = n

Promoted_Swapped(o, n) ==
    IF n \in Members(o)
    THEN [i \in 1..Len(o) |-> IF i = 1 THEN n ELSE IF o[i] = n THEN o[1] ELSE o[i]]
    ELSE <<n>> \o o
Promoted(o, n) == <<n>> \o Kept(o, Nums \ {n})

Success == IF op.kind = "install" THEN "installed" ELSE "promoted"

\* ManageBootorder announces success whatever SetBootDefault returned.
Failure == IF op.kind = "install" THEN "problems" ELSE "promoted"

\* SetBootDefault: BootOrder missing or unreadable; already first; no memory for
\* the new list, which returns the status of the read; the write, which may fail.
SetBootDefault ==
    /\ op.pc = "default"
    /\ \/ UNCHANGED order /\ Ends(Failure, FALSE)
       \/ /\ order # <<>> /\ AlreadyFirst(order, op.num)
          /\ UNCHANGED order /\ Ends(Success, FALSE)
       \/ /\ order # <<>> /\ ~AlreadyFirst(order, op.num)
          /\ \/ UNCHANGED order /\ Ends(Success, TRUE)
             \/ order' = Promoted(order, op.num) /\ Ends(Success, FALSE)
    /\ UNCHANGED <<table, unreadable>>

\* FindBootOrderEntries: the options PickOneBootOption offers.
Listed == {n \in Members(order) : Readable(table, unreadable, n)}

\* ManageBootorder, Enter or Delete on an option, confirmed.
Promote(n) ==
    /\ op = NoOp /\ n \in Listed
    /\ op' = [NoOp EXCEPT !.kind = "promote", !.pc = "default", !.num = n]
    /\ screen' = Blank
    /\ UNCHANGED <<table, order, unreadable>>

Delete(n) ==
    /\ op = NoOp /\ n \in Listed
    /\ op' = [NoOp EXCEPT !.kind = "delete", !.pc = "erase", !.num = n]
    /\ screen' = Blank
    /\ UNCHANGED <<table, order, unreadable>>

\* ManageBootorder deletes Boot#### and ignores the status.
Erase ==
    /\ op.pc = "erase"
    /\ table' \in {table, [table EXCEPT ![op.num] = Absent]}
    /\ op' = [op EXCEPT !.pc = "prune"]
    /\ UNCHANGED <<order, unreadable, screen>>

Pruned(o) == Kept(o, {m \in Nums : Readable(table, unreadable, m)})

\* DeleteInvalidBootEntries; an unchanged list is not written, the write may fail.
Prune ==
    /\ op.pc = "prune"
    /\ order' \in {order, Pruned(order)}
    /\ Ends("deleted", FALSE)
    /\ UNCHANGED <<table, unreadable>>

PowerOff ==
    /\ op # NoOp
    /\ op' = NoOp /\ screen' = Blank
    /\ UNCHANGED <<table, order, unreadable>>

\* Between two runs of Meridian another system removes an option without mending
\* BootOrder, or adds one at the end of it.
OtherSystem ==
    /\ op = NoOp
    /\ \/ \E n \in Nums : /\ table[n] # Absent
                          /\ table' = [table EXCEPT ![n] = Absent]
                          /\ UNCHANGED order
       \/ \E n \in Nums, e \in Options :
             /\ table[n] = Absent
             /\ table' = [table EXCEPT ![n] = e]
             /\ order' = IF n \in Members(order) THEN order ELSE Append(order, n)
    /\ screen' = Blank
    /\ UNCHANGED <<unreadable, op>>

\* The firmware fails to read other variables than before, at any time.
ReadsChange ==
    /\ unreadable' \in Faults \ {unreadable}
    /\ UNCHANGED <<table, order, op, screen>>

Next ==
    \/ \E e \in Options : Install(e)
    \/ InstallFails
    \/ WriteOption
    \/ SetBootDefault
    \/ \E n \in Nums : Promote(n) \/ Delete(n)
    \/ Erase
    \/ Prune
    \/ PowerOff
    \/ OtherSystem
    \/ ReadsChange

Spec == Init /\ [][Next]_vars
-----------------------------------------------------------------------------
(* Properties *)

Op == [kind : {"none", "install", "promote", "delete"},
       pc : {"idle", "write", "default", "erase", "prune"},
       num : Nums, entry : Options \cup {Absent}, copied : BOOLEAN, blind : SUBSET Nums]

OrderHasNoDuplicates ==
    \A i, j \in 1..Len(order) : order[i] = order[j] => i = j

\* Types of the NVRAM state and of install.c's operations on it.
TypeOK ==
    /\ table \in Tables
    /\ order \in Seq(Nums) /\ OrderHasNoDuplicates
    /\ unreadable \subseteq Nums
    /\ op \in Op
    /\ screen \in [text : {"none", "problems", "installed", "promoted", "deleted"},
                   op : Op, short : BOOLEAN]

Full(e) == \A n \in Nums : Readable(table, op.blind, n) /\ table[n] # e

\* Registering Meridian (FindBootNum, CreateNvramEntry) overwrites another system's
\* Boot#### only where its number could not be read when FindBootNum chose it, and was
\* taken for free (lib.c:593), or where all of them are taken; deleting an option
\* touches no other one, whatever can be read meanwhile.
OthersKeepTheirOptions ==
    [][\A n \in Nums : (op # NoOp /\ table[n] # Absent /\ table'[n] # table[n])
          => /\ n = op.num
             /\ \/ op.kind = "delete" /\ table'[n] = Absent
                \/ op.kind = "install" /\ (n \in op.blind \/ Full(op.entry))]_vars

OthersOf(o) == Kept(o, {n \in Nums \ {op.num} : Readable(table, unreadable, n)})

Dangling == {n \in Members(order) : table[n] = Absent}

\* Promoting, deleting and registering keep every other option readable then in
\* BootOrder and in its place among the others; the list names only Boot#### of
\* four digits (FindBootNum at its last number), none of them twice (the copies of
\* SetBootDefault and DeleteInvalidBootEntries), and never comes to name an option
\* that does not exist, failed writes and power loss included, except the one being
\* deleted until the list is pruned.
OrderKeepsOthers ==
    [][op # NoOp =>
          /\ order' \in Seq(Nums) /\ OrderHasNoDuplicates'
          /\ OthersOf(order') = OthersOf(order)
          /\ Dangling' \subseteq
                Dangling \cup (IF op.kind = "delete" THEN {op.num} ELSE {})]_vars

\* "Meridian Successfully Installed" means that the option is first in BootOrder
\* and holds Meridian's loader, unless SetBootDefault had no memory for the list.
InstalledIsDefault ==
    (screen.text = "installed" /\ ~screen.short) =>
        /\ order # <<>> /\ Head(order) = screen.op.num
        /\ table[screen.op.num] = screen.op.entry

\* An option that FindBootNum could see when it chose a number (in the window it
\* searches first, or with no gap below it) is not registered a second time, whatever
\* can be read when the number is written.
NoSecondRegistration ==
    [][\A m \in Nums :
          /\ op.kind = "install" /\ table' # table
          /\ Matches(table, op.blind, op.entry, m)
          => /\ m \notin Window
             /\ \E k \in 0..m : ~Readable(table, op.blind, k)]_vars

\* "Installation has Failed!!" (install.c, CopyFiles) when the binary could not be
\* copied: then the installer must not announce success.
InstalledMeansCopied == screen.text = "installed" => screen.op.copied
=============================================================================
