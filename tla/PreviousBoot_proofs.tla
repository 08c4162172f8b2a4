-------------------------- MODULE PreviousBoot_proofs --------------------------
(***************************************************************************)
(* The memory of the last boot, for every menu a scan may produce and every *)
(* set of names.  The invariant says where a name that is about to be      *)
(* stored comes from (Sources) and that the boot on record is the one both *)
(* files name (OnRecord).                                                  *)
(***************************************************************************)
EXTENDS PreviousBoot, WellFoundedInduction, TLAPS

Sources ==
    /\ op.kind = "tool" => ~isBoot /\ pc \in {"load", "start", "top", "off"}
    /\ (pc = "load" /\ isBoot) => op.kind = "loader" /\ op.entry = bootEntry
    /\ (pc = "load" /\ op.kind = "loader") => bootEntry \in Entries
    /\ pc \in {"name", "id"} =>
          /\ op.name \in Names /\ op.entry \in Entries
          /\ op.kind \in {"loader", "handoff"}
          /\ [name |-> op.name, id |-> op.entry.id] \in loaded

OnRecord ==
    last # Nobody =>
       /\ pc \notin {"name", "id"}
       /\ last.entry \in Entries /\ last.name \in Names
       /\ prevName = last.name /\ prevId = last.entry.id

IInv == TypeOK /\ Sources /\ RememberedWasLoaded /\ OnRecord

LEMMA EntryOfMenu ==
    ASSUME TypeOK, NEW e \in Members(menu) \cup SubOptions
    PROVE  e \in Entries /\ e.title \in Names
<1>1. CASE e \in SubOptions
  BY <1>1, PreviousBootAssumption DEF Entries
<1>2. CASE e \in Members(menu)
  <2>1. menu \in Seq(Entries)
    BY PreviousBootAssumption DEF TypeOK
  <2>2. PICK i \in DOMAIN menu : e = menu[i]
    BY <1>2 DEF Members
  <2>3. e \in Entries
    BY <2>1, <2>2
  <2>. QED BY <2>3 DEF Entries
<1>. QED BY <1>1, <1>2

LEMMA AbsentIsNothing ==
    /\ Absent \notin Names /\ Absent \notin Ids /\ Torn \notin Names /\ Torn \notin Ids
    /\ Absent \notin Entries
    /\ \A e \in Entries : e.id \in Ids \cup {Absent} /\ e.name \in Names \cup {Absent}
<1>1. \A e \in Entries : e.id \in Ids \cup {Absent} /\ e.name \in Names \cup {Absent}
  BY DEF Entries
<1>. QED BY <1>1, PreviousBootAssumption

LEMMA InitIInv == Init => IInv
<1> SUFFICES ASSUME Init
             PROVE  IInv
  OBVIOUS
<1>1. op \in Op /\ op.kind = "none"
  BY DEF Init, NoOp, Op
<1>2. TypeOK
  BY <1>1 DEF Init, TypeOK
<1>3. Sources /\ OnRecord
  BY <1>1 DEF Init, Sources, OnRecord
<1>4. RememberedWasLoaded
  BY AbsentIsNothing DEF Init, RememberedWasLoaded
<1>. QED BY <1>2, <1>3, <1>4 DEF IInv
-----------------------------------------------------------------------------
LEMMA NatLess ==
    IsWellFoundedOn({ss \in Nat \X Nat : ss[1] < ss[2]}, Nat)
BY NatLessThanWellFounded DEF OpToRel

LEMMA LeastIsMember ==
    ASSUME NEW S \in SUBSET Nat, S # {}
    PROVE  Least(S) \in S
<1> DEFINE R == {ss \in Nat \X Nat : ss[1] < ss[2]}
<1>1. PICK n \in S : \A j \in S : ~(<<j, n>> \in R)
  <2>. HIDE DEF R
  <2>1. IsWellFoundedOn(R, Nat)
    BY NatLess DEF R
  <2>. QED BY <2>1, WFMin
<1>2. \A j \in S : n <= j
  <2> TAKE j \in S
  <2>1. <<j, n>> \in R <=> j < n
    OBVIOUS
  <2>. QED BY <1>1, <2>1
<1>. HIDE DEF R
<1>. QED BY <1>2 DEF Least

\* AdjustDefaultSelection finds a name or none, and the name on file if it says so.
LEMMA AdjustedType ==
    ASSUME NEW sel \in Selections, NEW name \in Names \cup {Absent}, NEW tr
    PROVE  /\ Adjusted(sel, name, tr).name \in Names \cup {Absent}
           /\ Adjusted(sel, name, tr).prev \in BOOLEAN
           /\ Adjusted(sel, name, tr).prev => Adjusted(sel, name, tr).name = name
<1>1. sel \in Seq(Names \cup {"+"})
  BY PreviousBootAssumption
<1> DEFINE S == {i \in DOMAIN sel : Usable(sel, i, name, tr)}
<1>2. CASE S = {}
  BY <1>2 DEF Adjusted
<1>3. CASE S # {}
  <2>1. S \in SUBSET Nat
    BY <1>1
  <2>2. Least(S) \in DOMAIN sel
    BY <1>3, <2>1, LeastIsMember
  <2>3. sel[Least(S)] \in Names \cup {"+"}
    BY <1>1, <2>2
  <2>4. Adjusted(sel, name, tr) = IF sel[Least(S)] = "+" THEN [name |-> name, prev |-> TRUE]
                                  ELSE [name |-> sel[Least(S)], prev |-> FALSE]
    BY <1>3 DEF Adjusted
  <2>. QED BY <2>3, <2>4
<1>. QED BY <1>2, <1>3

LEMMA LaunchStep == IInv /\ Launch => IInv'
<1> SUFFICES ASSUME IInv, Launch
             PROVE  IInv'
  OBVIOUS
<1>1. PICK sel \in Selections, name \in NameOnFile :
         /\ selName' = Adjusted(sel, name, transient').name
         /\ isPrev' = Adjusted(sel, name, transient').prev
  BY DEF Launch
<1>2. name \in Names \cup {Absent}
  BY <1>1 DEF NameOnFile, IInv, TypeOK
<1>3. selName' \in Names \cup {Absent} /\ isPrev' \in BOOLEAN
  BY <1>1, <1>2, AdjustedType
<1>4. TypeOK'
  BY <1>3 DEF Launch, files, IInv, TypeOK, NoOp, Op
<1>5. Sources' /\ RememberedWasLoaded' /\ OnRecord'
  BY DEF Launch, files, IInv, Sources, RememberedWasLoaded, OnRecord, NoOp, Nobody
<1>. QED BY <1>4, <1>5 DEF IInv

\* A full menu and the entries of the submenus hold entries, and the default is
\* one of the menu's.
LEMMA ChosenType ==
    ASSUME TypeOK, NEW e \in Members(menu) \cup SubOptions, Chosen(e)
    PROVE  e \in Entries /\ selName' \in Names \cup {Absent}
BY EntryOfMenu DEF Chosen, TypeOK

LEMMA StartLoaderStep ==
    ASSUME IInv, NEW e \in Members(menu) \cup SubOptions, StartLoader(e)
    PROVE  IInv'
<1>1. e \in Entries /\ selName' \in Names \cup {Absent}
  BY ChosenType DEF StartLoader, IInv
<1>2. bootSel' \in Names \cup {Absent} /\ bootEntry' = e
  BY <1>1, AbsentIsNothing DEF StartLoader
<1>3. op' = [kind |-> "loader", entry |-> e, name |-> Absent] /\ op' \in Op
  BY <1>1 DEF StartLoader, Op
<1>4. TypeOK'
  BY <1>1, <1>2, <1>3, AbsentIsNothing DEF StartLoader, files, session, IInv, TypeOK
<1>5. Sources'
  BY <1>1, <1>2, <1>3 DEF StartLoader, Sources
<1>6. RememberedWasLoaded' /\ OnRecord'
  BY DEF StartLoader, files, IInv, RememberedWasLoaded, OnRecord, Nobody
<1>. QED BY <1>4, <1>5, <1>6 DEF IInv

LEMMA StartToolStep ==
    ASSUME IInv, NEW e \in Members(menu) \cup SubOptions, StartTool(e)
    PROVE  IInv'
<1>1. e \in Entries /\ selName' \in Names \cup {Absent}
  BY ChosenType DEF StartTool, IInv
<1>2. op' = [kind |-> "tool", entry |-> e, name |-> Absent] /\ op' \in Op
  BY <1>1 DEF StartTool, Op
<1>3. TypeOK'
  BY <1>1, <1>2 DEF StartTool, files, session, IInv, TypeOK
<1>4. Sources'
  BY <1>2 DEF StartTool, Sources
<1>5. RememberedWasLoaded' /\ OnRecord'
  BY DEF StartTool, files, IInv, RememberedWasLoaded, OnRecord, Nobody
<1>. QED BY <1>3, <1>4, <1>5 DEF IInv

LEMMA HandOverStep ==
    ASSUME IInv, NEW e \in Members(menu) \cup SubOptions, HandOver(e)
    PROVE  IInv'
<1>1. e \in Entries /\ selName' \in Names \cup {Absent} /\ pc = "menu"
  BY ChosenType DEF HandOver, Chosen, IInv
<1> DEFINE n == IF e.name # Absent THEN e.name ELSE e.title
<1>2. n \in Names
  BY <1>1 DEF Entries
<1>3. CASE /\ pc' = "name"
           /\ op' = [kind |-> "handoff", entry |-> e, name |-> n]
           /\ loaded' = loaded \cup {[name |-> op'.name, id |-> e.id]}
           /\ last' = Nobody
  <2> HIDE DEF n
  <2>1. op' \in Op /\ op'.kind = "handoff" /\ op'.entry = e /\ op'.name = n
    BY <1>1, <1>2, <1>3 DEF Op
  <2>2. TypeOK'
    BY <1>1, <1>3, <2>1 DEF HandOver, files, session, selection, IInv, TypeOK
  <2>3. Sources'
    BY <1>1, <1>2, <1>3, <2>1 DEF Sources
  <2>4. RememberedWasLoaded' /\ OnRecord'
    BY <1>3 DEF HandOver, files, IInv, RememberedWasLoaded, OnRecord
  <2>. QED BY <2>2, <2>3, <2>4 DEF IInv
<1>4. CASE pc' = "top" /\ UNCHANGED <<op, loaded, last>>
  <2>1. TypeOK'
    BY <1>1, <1>4 DEF HandOver, files, session, selection, IInv, TypeOK
  <2>2. Sources' /\ RememberedWasLoaded' /\ OnRecord'
    BY <1>1, <1>4 DEF HandOver, files, selection, IInv, Sources, RememberedWasLoaded, OnRecord
  <2>. QED BY <2>1, <2>2 DEF IInv
<1>. QED BY <1>3, <1>4 DEF HandOver
-----------------------------------------------------------------------------
LEMMA MenuStep == IInv /\ (Rescan \/ LoopTop \/ PowerOff) => IInv'
<1> SUFFICES ASSUME IInv, Rescan \/ LoopTop \/ PowerOff
             PROVE  IInv'
  OBVIOUS
<1>1. NoOp \in Op /\ NoOp.kind = "none"
  BY DEF NoOp, Op
<1>2. TypeOK'
  BY <1>1 DEF Rescan, LoopTop, PowerOff, files, session, selection, IInv, TypeOK
<1>3. Sources'
  BY <1>1 DEF Rescan, LoopTop, PowerOff, selection, IInv, Sources
<1>4. RememberedWasLoaded' /\ OnRecord'
  BY DEF Rescan, LoopTop, PowerOff, files, IInv, RememberedWasLoaded, OnRecord
<1>. QED BY <1>2, <1>3, <1>4 DEF IInv

LEMMA LoadFailsStep == IInv /\ LoadFails => IInv'
<1> SUFFICES ASSUME IInv, LoadFails
             PROVE  IInv'
  OBVIOUS
<1>1. TypeOK'
  BY DEF LoadFails, files, session, IInv, TypeOK
<1>2. ~isBoot => ~isBoot'
  <2>1. isBoot' = isBoot \/ isBoot' = FALSE
    BY DEF LoadFails
  <2>. QED BY <2>1
<1>3. Sources'
  BY <1>2 DEF LoadFails, IInv, Sources
<1>4. RememberedWasLoaded' /\ OnRecord'
  BY DEF LoadFails, files, IInv, RememberedWasLoaded, OnRecord
<1>. QED BY <1>1, <1>3, <1>4 DEF IInv

LEMMA LoadsStep == IInv /\ Loads => IInv'
<1> SUFFICES ASSUME IInv, Loads
             PROVE  IInv'
  OBVIOUS
<1>1. CASE bootSel # Absent /\ isBoot
  <2>1. /\ op' = [op EXCEPT !.name = bootSel, !.entry = bootEntry] /\ pc' = "name"
        /\ last' = Nobody /\ UNCHANGED <<bootSel, bootEntry>>
    BY <1>1 DEF Loads, Stores
  <2>2. op.kind = "loader" /\ bootEntry \in Entries /\ bootSel \in Names
    BY <1>1 DEF Loads, IInv, Sources, TypeOK
  <2>3. /\ op' \in Op /\ op'.kind = "loader" /\ op'.name = bootSel /\ op'.entry = bootEntry
        /\ loaded' = loaded \cup {[name |-> bootSel, id |-> bootEntry.id]}
    BY <2>1, <2>2 DEF Loads, IInv, TypeOK, Op
  <2>4. TypeOK'
    BY <2>1, <2>3 DEF Loads, files, session, IInv, TypeOK
  <2>5. Sources'
    BY <2>1, <2>2, <2>3 DEF Sources
  <2>6. RememberedWasLoaded' /\ OnRecord'
    BY <2>1, <2>3 DEF Loads, files, IInv, RememberedWasLoaded, OnRecord
  <2>. QED BY <2>4, <2>5, <2>6 DEF IInv
<1>2. CASE ~(bootSel # Absent /\ isBoot)
  <2>1. /\ pc = "load" /\ pc' = "start" /\ bootSel' = Absent /\ bootEntry' = Absent
        /\ UNCHANGED <<op, last, isBoot>> /\ loaded \subseteq loaded'
    BY <1>2 DEF Loads
  <2>2. TypeOK'
    BY <2>1 DEF Loads, files, session, IInv, TypeOK
  <2>3. Sources' /\ RememberedWasLoaded' /\ OnRecord'
    BY <2>1 DEF Loads, files, IInv, Sources, RememberedWasLoaded, OnRecord
  <2>. QED BY <2>2, <2>3 DEF IInv
<1>. QED BY <1>1, <1>2

LEMMA StoreLoaderNameStep == IInv /\ StoreLoaderName => IInv'
<1> SUFFICES ASSUME IInv, StoreLoaderName
             PROVE  IInv'
  OBVIOUS
<1>1. /\ pc = "name" /\ op.name \in Names
      /\ [name |-> op.name, id |-> op.entry.id] \in loaded
      /\ last = Nobody /\ prevName' \in {prevName, op.name, Absent, Torn}
  BY DEF StoreLoaderName, Written, IInv, Sources, OnRecord
<1>2. TypeOK'
  BY <1>1 DEF StoreLoaderName, session, selection, IInv, TypeOK
<1>3. Sources' /\ OnRecord'
  BY <1>1 DEF StoreLoaderName, selection, IInv, Sources, OnRecord
<1>4. RememberedWasLoaded'
  BY <1>1, AbsentIsNothing DEF StoreLoaderName, IInv, RememberedWasLoaded
<1>. QED BY <1>2, <1>3, <1>4 DEF IInv

LEMMA StoreLoaderIdentityStep == IInv /\ StoreLoaderIdentity => IInv'
<1> SUFFICES ASSUME IInv, StoreLoaderIdentity
             PROVE  IInv'
  OBVIOUS
<1>1. /\ pc = "id" /\ op.name \in Names /\ op.entry \in Entries
      /\ op.kind \in {"loader", "handoff"}
      /\ [name |-> op.name, id |-> op.entry.id] \in loaded
      /\ prevId' \in {prevId, op.entry.id, Absent, Torn}
      /\ pc' \in {"start", "reset"}
  BY DEF StoreLoaderIdentity, Written, IInv, Sources
<1>2. op.entry.id \in Ids \cup {Absent}
  BY <1>1, AbsentIsNothing
<1>3. TypeOK'
  BY <1>1, <1>2 DEF StoreLoaderIdentity, session, IInv, TypeOK
<1>4. Sources'
  BY <1>1 DEF StoreLoaderIdentity, Sources
<1>5. RememberedWasLoaded'
  BY <1>1, AbsentIsNothing DEF StoreLoaderIdentity, IInv, RememberedWasLoaded
<1>6. OnRecord'
  <2>1. CASE prevName = op.name /\ prevId' = op.entry.id
             /\ last' = [entry |-> op.entry, name |-> op.name]
    BY <1>1, <2>1 DEF StoreLoaderIdentity, OnRecord
  <2>2. CASE last' = Nobody
    BY <2>2 DEF OnRecord
  <2>. QED BY <2>1, <2>2 DEF StoreLoaderIdentity
<1>. QED BY <1>3, <1>4, <1>5, <1>6 DEF IInv

LEMMA StartsStep == IInv /\ Starts => IInv'
<1> SUFFICES ASSUME IInv, Starts
             PROVE  IInv'
  OBVIOUS
<1>1. TypeOK'
  BY ZenonT(60) DEF Starts, files, session, IInv, TypeOK
<1>2. ~isBoot => ~isBoot'
  <2>1. isBoot' = isBoot \/ isBoot' = FALSE
    BY DEF Starts
  <2>. QED BY <2>1
<1>3. Sources'
  BY <1>2 DEF Starts, IInv, Sources
<1>4. RememberedWasLoaded' /\ OnRecord'
  BY DEF Starts, files, IInv, RememberedWasLoaded, OnRecord
<1>. QED BY <1>1, <1>3, <1>4 DEF IInv

LEMMA StepIInv == IInv /\ [Next]_vars => IInv'
<1> SUFFICES ASSUME IInv, [Next]_vars
             PROVE  IInv'
  OBVIOUS
<1>1. CASE Launch
  BY <1>1, LaunchStep
<1>2. ASSUME NEW e \in Members(menu) \cup SubOptions, StartLoader(e) \/ StartTool(e) \/ HandOver(e)
      PROVE  IInv'
  BY <1>2, StartLoaderStep, StartToolStep, HandOverStep
<1>3. CASE Rescan \/ LoopTop \/ PowerOff
  BY <1>3, MenuStep
<1>4. CASE LoadFails \/ Loads \/ Starts
  BY <1>4, LoadFailsStep, LoadsStep, StartsStep
<1>5. CASE StoreLoaderName \/ StoreLoaderIdentity
  BY <1>5, StoreLoaderNameStep, StoreLoaderIdentityStep
<1>6. CASE UNCHANGED vars
  BY <1>6 DEF vars, IInv, TypeOK, Sources, RememberedWasLoaded, OnRecord
<1>. QED BY <1>1, <1>2, <1>3, <1>4, <1>5, <1>6 DEF Next

\* The strengthening of the properties below holds in every reachable state.
THEOREM InductiveInvariant == Spec => []IInv
BY InitIInv, StepIInv, PTL DEF Spec
-----------------------------------------------------------------------------
\* The files and the boot selection keep their types, BootSelection and its entry
\* together.
THEOREM TypeCorrect == Spec => []TypeOK
<1>1. IInv => TypeOK
  BY DEF IInv
<1>. QED BY <1>1, InductiveInvariant, PTL

\* StoreLoaderName and StoreLoaderIdentity only put on file what was loaded or
\* handed to the firmware.
THEOREM OnlyLoadedIsRemembered == Spec => []RememberedWasLoaded
<1>1. IInv => RememberedWasLoaded
  BY DEF IInv
<1>. QED BY <1>1, InductiveInvariant, PTL

\* StartTool leaves both files alone, also after a boot that failed to load.
THEOREM ToolsLeaveTheFiles == Spec => ToolsAreNotRemembered
<1>1. IInv /\ [Next]_vars => [op.kind = "tool" => UNCHANGED files]_vars
  <2> SUFFICES ASSUME IInv, [Next]_vars, op.kind = "tool"
               PROVE  UNCHANGED files
    OBVIOUS
  <2>1. pc \notin {"name", "id"}
    BY DEF IInv, Sources
  <2>. QED BY <2>1 DEF Next, vars, files, Launch, StartLoader, StartTool, HandOver, Rescan, LoopTop,
              LoadFails, Loads, StoreLoaderName, StoreLoaderIdentity, Starts, PowerOff
<1>. QED BY <1>1, InductiveInvariant, PTL DEF ToolsAreNotRemembered, Spec

\* ConnDefaultEntry finds an entry with the name and the identity if there is one.
LEMMA DefaultIsExact ==
    ASSUME NEW m \in Menus, NEW name, NEW id, NEW e \in Members(m),
           Titled(e, name), Identified(e, id)
    PROVE  Titled(DefaultEntry(m, name, id), name) /\ Identified(DefaultEntry(m, name, id), id)
<1> DEFINE named == {i \in DOMAIN m : Titled(m[i], name)}
           exact == {i \in named : Identified(m[i], id)}
<1>1. exact \in SUBSET Nat
  <2>1. m \in Seq(Entries)
    BY PreviousBootAssumption
  <2>. QED BY <2>1
<1>2. exact # {}
  BY DEF Members
<1>3. Least(exact) \in exact
  BY <1>1, <1>2, LeastIsMember
<1>4. DefaultEntry(m, name, id) = m[Least(exact)]
  BY <1>2 DEF DefaultEntry, FirstOf
<1>. QED BY <1>3, <1>4

\* AdjustDefaultSelection and ConnDefaultEntry return to the boot on record.
THEOREM ReturnsToLastBoot == Spec => DefaultIsLastBooted
<1>1. IInv /\ IInv' /\ [Next]_vars =>
        [\A e \in {last.entry} :
          ReturnsTo(e) /\ Titled(e, last.name)
          => Identified(NewDefault, e.id) /\ Titled(NewDefault, last.name)]_vars
  <2> SUFFICES ASSUME IInv, IInv', [Next]_vars, NEW e, e = last.entry,
                      ReturnsTo(e), Titled(e, last.name)
               PROVE  Identified(NewDefault, e.id) /\ Titled(NewDefault, last.name)
    OBVIOUS
  <2>1. Launch
    BY AbsentIsNothing DEF ReturnsTo, Next, vars, Chosen, StartLoader, StartTool, HandOver, Rescan, LoopTop,
           LoadFails, Loads, StoreLoaderName, StoreLoaderIdentity, Starts, PowerOff
  <2>2. /\ last.entry \in Entries /\ last.name \in Names
        /\ prevName = last.name /\ prevId = last.entry.id
        /\ e \in Members(menu') /\ e.tag = "loader" /\ e.id # Absent /\ isPrev'
    BY DEF ReturnsTo, IInv, OnRecord
  <2>3. selName' = last.name
    <3>1. PICK sel \in Selections, name \in NameOnFile :
             /\ selName' = Adjusted(sel, name, transient').name
             /\ isPrev' = Adjusted(sel, name, transient').prev
      BY <2>1 DEF Launch
    <3>2. name = last.name
      BY <2>2, <3>1, AbsentIsNothing DEF NameOnFile
    <3>. QED BY <2>2, <3>1, <3>2, AdjustedType
  <2>4. IdOnFile' = e.id
    <3>1. prevId' = e.id /\ e.id \in Ids
      BY <2>1, <2>2, AbsentIsNothing DEF Launch, files
    <3>. QED BY <2>2, <3>1, AbsentIsNothing DEF IdOnFile
  <2>5. menu' \in Menus
    BY DEF IInv, TypeOK
  <2>6. Identified(e, e.id)
    BY <2>2 DEF Identified
  <2>. QED BY <2>2, <2>3, <2>4, <2>5, <2>6, DefaultIsExact DEF NewDefault
<1>. QED BY <1>1, InductiveInvariant, PTL DEF DefaultIsLastBooted, Spec
=============================================================================
