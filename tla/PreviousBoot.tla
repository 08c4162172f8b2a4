----------------------------- MODULE PreviousBoot -----------------------------
(***************************************************************************)
(* What Meridian remembers of the last boot: the files PreviousBoot (a     *)
(* name) and PreviousBootId (partition and loader path) of its vars        *)
(* folder, from StartLoader through StartEFIImage to the next launch, where *)
(* AdjustDefaultSelection and ConnDefaultEntry turn them into the default  *)
(* entry.  Each file is deleted and then written, a write may fail or be   *)
(* cut short, and the power may go between any two steps.                  *)
(***************************************************************************)
EXTENDS Integers, Sequences

CONSTANTS
    Names,       \* names and titles of entries
    Ids,         \* identities: partition GUID and loader path
    Included,    \* the pairs <<t, n>> with MrdStrIncludesCI(t, n)
    Menus,       \* main menus a scan may produce
    SubOptions,  \* entries of the submenus
    Selections,  \* values of default_selection: lists of names and "+"
    Absent,      \* no file, no name, no identity
    Torn         \* a file that is empty or cut short

Entries == [tag : {"loader", "option", "tool", "firmware"},
            name : Names \cup {Absent},  \* Entry->Title
            title : Names,               \* Entry->me.Title
            id : Ids \cup {Absent}]      \* BuildEntryIdentity

ASSUME PreviousBootAssumption ==
    /\ Menus \subseteq Seq(Entries) /\ <<>> \notin Menus
    /\ SubOptions \subseteq Entries
    /\ Selections \subseteq Seq(Names \cup {"+"})
    /\ Absent \notin Names \cup Ids /\ Torn \notin Names \cup Ids
    /\ "+" \notin Names /\ Absent \notin Entries

VARIABLES
    prevName,   \* the file PreviousBoot
    prevId,     \* the file PreviousBootId
    menu,       \* MainMenu
    transient,  \* GlobalConfig.TransientBoot
    isPrev,     \* DefaultIsPreviousBoot
    selName,    \* SelectionName of the main loop
    isBoot,     \* IsBoot
    bootSel,    \* BootSelection
    bootEntry,  \* BootSelectionEntry
    pc, op,     \* where the main loop is, and with which entry
    loaded,     \* names and identities of what was loaded or handed to the firmware
    last        \* the boot that is on record, with both files written

files == <<prevName, prevId>>
session == <<menu, transient, isPrev>>
selection == <<isBoot, bootSel, bootEntry>>
vars == <<prevName, prevId, menu, transient, isPrev, selName, isBoot, bootSel, bootEntry,
          pc, op, loaded, last>>

NoOp == [kind |-> "none", entry |-> Absent, name |-> Absent]
Nobody == [entry |-> Absent, name |-> Absent]
Members(m) == {m[i] : i \in DOMAIN m}

Init ==
    /\ prevName = Absent /\ prevId = Absent
    /\ menu \in Menus
    /\ transient = FALSE /\ isPrev = FALSE /\ selName = Absent
    /\ isBoot = FALSE /\ bootSel = Absent /\ bootEntry = Absent
    /\ pc = "off" /\ op = NoOp
    /\ loaded = {} /\ last = Nobody
-----------------------------------------------------------------------------
(* The default entry *)

Least(S) == CHOOSE k \in S : \A j \in S : k <= j
FirstOf(m, S) == m[Least(S)]

\* "+" stands for the name on file, unless TransientBoot offers something else.
Usable(sel, i, name, tr) ==
    sel[i] = "+" => ~(tr /\ Len(sel) > 1) /\ name # Absent

\* AdjustDefaultSelection
Adjusted(sel, name, tr) ==
    LET S == {i \in DOMAIN sel : Usable(sel, i, name, tr)}
        i == Least(S)
    IN  IF S = {} THEN [name |-> Absent, prev |-> FALSE]
        ELSE IF sel[i] = "+" THEN [name |-> name, prev |-> TRUE]
        ELSE [name |-> sel[i], prev |-> FALSE]

Titled(e, name) == name # Absent /\ <<e.title, name>> \in Included

\* EntryMatchesIdentity
Identified(e, id) == e.tag = "loader" /\ e.id # Absent /\ e.id = id

\* Mutant: the identity is not looked at.
DefaultEntry_NameOnly(m, name, id) ==
    LET named == {i \in DOMAIN m : Titled(m[i], name)}
        loaders == {i \in DOMAIN m : m[i].tag = "loader"}
    IN  IF named # {} THEN FirstOf(m, named)
        ELSE IF loaders # {} THEN FirstOf(m, loaders)
        ELSE m[1]

\* ConnDefaultEntry, and the same search in ConnRunMainMenu.
DefaultEntry(m, name, id) ==
    LET named == {i \in DOMAIN m : Titled(m[i], name)}
        exact == {i \in named : Identified(m[i], id)}
        loaders == {i \in DOMAIN m : m[i].tag = "loader"}
    IN  IF exact # {} THEN FirstOf(m, exact)
        ELSE IF named # {} THEN FirstOf(m, named)
        ELSE IF loaders # {} THEN FirstOf(m, loaders)
        ELSE m[1]

\* GetPreviousBootIdentity checks that the file ends where a string ends;
\* ConnPreviousBootIdentity asks for it only if the default is the previous boot.
IdOnFile == IF isPrev /\ prevId # Torn THEN prevId ELSE Absent

\* The name is read without that check: a torn file gives any name or none.
NameOnFile == IF prevName = Torn THEN Names \cup {Absent} ELSE {prevName}

Launch ==
    /\ pc = "off"
    /\ menu' \in Menus /\ transient' \in BOOLEAN
    /\ \E sel \in Selections, name \in NameOnFile :
          \E a \in {Adjusted(sel, name, transient')} :
             selName' = a.name /\ isPrev' = a.prev
    /\ isBoot' = FALSE /\ bootSel' = Absent /\ bootEntry' = Absent
    /\ pc' = "menu" /\ op' = NoOp
    /\ UNCHANGED <<files, loaded, last>>
-----------------------------------------------------------------------------
(* The main loop *)

\* The entry the menu returns: one the user picked, whose title becomes the
\* selection, or the default if the menu cannot be shown.
Chosen(e) ==
    /\ pc = "menu"
    /\ \/ e \in Members(menu) \cup SubOptions /\ selName' = e.title
       \/ e = DefaultEntry(menu, selName, IdOnFile) /\ UNCHANGED selName

\* StartLoader.  A Limine kernel is started by LaunchLimineKernel, which stores
\* nothing and comes back only if it fails.
StartLoader(e) ==
    /\ Chosen(e) /\ e.tag \in {"loader", "option"}
    /\ isBoot' = TRUE
    /\ bootSel' = IF e.name # Absent THEN e.name ELSE selName'
    /\ bootEntry' = e
    /\ pc' \in {"load", "top", "off"}
    /\ op' = [kind |-> "loader", entry |-> e, name |-> Absent]
    /\ UNCHANGED <<files, session, loaded, last>>

StartTool(e) ==
    /\ Chosen(e) /\ e.tag = "tool"
    /\ isBoot' = FALSE
    /\ pc' = "load"
    /\ op' = [kind |-> "tool", entry |-> e, name |-> Absent]
    /\ UNCHANGED <<files, session, bootSel, bootEntry, loaded, last>>

\* RunTrustSync and RebootIntoLoader store the names when the firmware has its
\* orders (BootHandoff), or come back without.
HandOver(e) ==
    /\ Chosen(e) /\ e.tag # "tool"
    /\ \/ /\ pc' = "name"
          /\ op' = [kind |-> "handoff", entry |-> e,
                    name |-> IF e.name # Absent THEN e.name ELSE e.title]
          /\ loaded' = loaded \cup {[name |-> op'.name, id |-> e.id]}
          /\ last' = Nobody
       \/ pc' = "top" /\ UNCHANGED <<op, loaded, last>>
    /\ UNCHANGED <<files, session, selection>>

Rescan ==
    /\ pc = "menu"
    /\ menu' \in Menus /\ transient' \in BOOLEAN
    /\ pc' = "top"
    /\ UNCHANGED <<files, isPrev, selName, selection, op, loaded, last>>

LoopTop ==
    /\ pc = "top"
    /\ isBoot' = FALSE
    /\ pc' = "menu" /\ op' = NoOp
    /\ UNCHANGED <<files, session, selName, bootSel, bootEntry, loaded, last>>
-----------------------------------------------------------------------------
(* StartEFIImage and the stores *)

\* No volume, no device path, LoadImage or HandleProtocol fails; or IsValidLoader
\* says no and clears IsBoot.
LoadFails ==
    /\ pc = "load"
    /\ isBoot' \in {isBoot, FALSE}
    /\ pc' = "top"
    /\ UNCHANGED <<files, session, selName, bootSel, bootEntry, op, loaded, last>>

Stores == op' = [op EXCEPT !.name = bootSel, !.entry = bootEntry] /\ pc' = "name" /\ last' = Nobody

\* Mutants: IsBoot is not looked at; the names are stored before the image loads.
Loads_AnyImage ==
    /\ pc = "load"
    /\ loaded' = IF op.kind = "loader"
                 THEN loaded \cup {[name |-> bootSel, id |-> bootEntry.id]} ELSE loaded
    /\ IF bootSel # Absent THEN Stores /\ UNCHANGED <<bootSel, bootEntry>>
       ELSE pc' = "start" /\ UNCHANGED <<bootSel, bootEntry, op, last>>
    /\ UNCHANGED <<files, session, selName, isBoot>>
Loads_StoreFirst ==
    /\ pc = "load"
    /\ UNCHANGED loaded
    /\ IF bootSel # Absent /\ isBoot THEN Stores /\ UNCHANGED <<bootSel, bootEntry>>
       ELSE pc' = "start" /\ bootSel' = Absent /\ bootEntry' = Absent /\ UNCHANGED <<op, last>>
    /\ UNCHANGED <<files, session, selName, isBoot>>

\* The image is loaded: a boot is stored, anything else forgets the selection that
\* an earlier boot may have left behind.
Loads ==
    /\ pc = "load"
    /\ loaded' = IF op.kind = "loader"
                 THEN loaded \cup {[name |-> bootSel, id |-> bootEntry.id]} ELSE loaded
    /\ IF bootSel # Absent /\ isBoot THEN Stores /\ UNCHANGED <<bootSel, bootEntry>>
       ELSE pc' = "start" /\ bootSel' = Absent /\ bootEntry' = Absent /\ UNCHANGED <<op, last>>
    /\ UNCHANGED <<files, session, selName, isBoot>>

\* EfivarSetRaw on a file: equal content is left alone; otherwise the file is
\* deleted and written, and any of it may fail.
Written(old, new) == IF new # Absent /\ old = new THEN {old} ELSE {old, new, Absent, Torn}

\* StoreLoaderName.  TransientBoot deletes the file.
StoreLoaderName ==
    /\ pc = "name"
    /\ prevName' \in IF transient THEN Written(prevName, Absent)
                     ELSE IF op.name = Absent THEN {prevName}
                     ELSE Written(prevName, op.name)
    /\ pc' = "id"
    /\ UNCHANGED <<prevId, session, selName, selection, op, loaded, last>>

\* Mutant: BootSelectionEntry alone is cleared.
StoreLoaderIdentity_KeepsName ==
    /\ pc = "id"
    /\ prevId' \in IF transient THEN Written(prevId, Absent) ELSE Written(prevId, op.entry.id)
    /\ pc' = IF op.kind = "handoff" THEN "reset" ELSE "start"
    /\ IF op.kind = "handoff" THEN UNCHANGED bootEntry ELSE bootEntry' = Absent
    /\ last' = IF ~transient /\ prevName = op.name /\ prevId' = op.entry.id
               THEN [entry |-> op.entry, name |-> op.name] ELSE Nobody
    /\ UNCHANGED <<prevName, session, selName, isBoot, bootSel, op, loaded>>

\* StoreLoaderIdentity, after which StartEFIImage clears the selection.  An entry
\* without an identity deletes the file.
StoreLoaderIdentity ==
    /\ pc = "id"
    /\ prevId' \in IF transient THEN Written(prevId, Absent) ELSE Written(prevId, op.entry.id)
    /\ pc' = IF op.kind = "handoff" THEN "reset" ELSE "start"
    /\ IF op.kind = "handoff" THEN UNCHANGED <<bootSel, bootEntry>>
       ELSE bootSel' = Absent /\ bootEntry' = Absent
    /\ last' = IF ~transient /\ prevName = op.name /\ prevId' = op.entry.id
               THEN [entry |-> op.entry, name |-> op.name] ELSE Nobody
    /\ UNCHANGED <<prevName, session, selName, isBoot, op, loaded>>

\* StartImage or ResetSystem: the machine is gone, or it comes back.
Starts ==
    /\ pc \in {"start", "reset"}
    /\ pc' \in {"off", "top"}
    /\ isBoot' \in {isBoot, FALSE}
    /\ UNCHANGED <<files, session, selName, bootSel, bootEntry, op, loaded, last>>

PowerOff ==
    /\ pc # "off"
    /\ pc' = "off"
    /\ UNCHANGED <<files, session, selName, selection, op, loaded, last>>

Next ==
    \/ Launch
    \/ \E e \in Members(menu) \cup SubOptions : StartLoader(e) \/ StartTool(e) \/ HandOver(e)
    \/ Rescan \/ LoopTop
    \/ LoadFails \/ Loads \/ StoreLoaderName \/ StoreLoaderIdentity \/ Starts
    \/ PowerOff

Spec == Init /\ [][Next]_vars
-----------------------------------------------------------------------------
(* Properties *)

Op == [kind : {"none", "loader", "tool", "handoff"},
       entry : Entries \cup {Absent}, name : Names \cup {Absent}]

\* Types of the files and of the boot selection; BootSelection and the entry it
\* belongs to (launch_efi.c) are set and cleared together.
TypeOK ==
    /\ prevName \in Names \cup {Absent, Torn}
    /\ prevId \in Ids \cup {Absent, Torn}
    /\ menu \in Menus /\ transient \in BOOLEAN /\ isPrev \in BOOLEAN
    /\ selName \in Names \cup {Absent}
    /\ isBoot \in BOOLEAN
    /\ bootSel \in Names \cup {Absent} /\ bootEntry \in Entries \cup {Absent}
    /\ bootSel # Absent => bootEntry # Absent
    /\ pc \in {"off", "menu", "load", "name", "id", "start", "reset", "top"}
    /\ op \in Op

\* A name on file is the name of an entry whose image was loaded by StartLoader or
\* that the firmware was told to start: a loader that never loaded is not remembered.
RememberedWasLoaded ==
    /\ prevName \in Names => \E x \in loaded : x.name = prevName
    /\ prevId \in Ids => \E x \in loaded : x.id = prevId

\* A tool (StartTool) changes neither file, whatever boot failed before it.
ToolsAreNotRemembered ==
    [][op.kind = "tool" => UNCHANGED files]_vars

\* At a launch that takes the previous boot for the default, the boot on record
\* being an entry of the new menu.
ReturnsTo(e) ==
    /\ pc = "off" /\ pc' = "menu" /\ isPrev'
    /\ last # Nobody /\ e = last.entry
    /\ e \in Members(menu') /\ e.tag = "loader" /\ e.id # Absent

NewDefault == DefaultEntry(menu', selName', IdOnFile')

\* Then the default entry has the identity and the name of that boot, wherever the
\* scan has put it and whatever other entries share its name.
DefaultIsLastBooted ==
    [][\A e \in {last.entry} :
          ReturnsTo(e) /\ Titled(e, last.name)
          => Identified(NewDefault, e.id) /\ Titled(NewDefault, last.name)]_vars

\* "Changed to Previous Selection" (AdjustDefaultSelection): the default is the
\* previous selection, also if its title in the menu is not made from its name.
PreviousSelectionIsDefault ==
    [][\A e \in {last.entry} : ReturnsTo(e) => Identified(NewDefault, e.id)]_vars
=============================================================================
