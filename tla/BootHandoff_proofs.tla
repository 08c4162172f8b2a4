-------------------------- MODULE BootHandoff_proofs --------------------------
(***************************************************************************)
(* The handoff is safe for every table of boot options and every window.   *)
(* The invariant follows a request step by step: Phase says which request  *)
(* can be at which point, Progress what it has put into NVRAM by then,     *)
(* Promise what the firmware will find after a reset, Pending which        *)
(* one-shot requests can be lying around meanwhile.                        *)
(***************************************************************************)
EXTENDS BootHandoff, TLAPS, WellFoundedInduction

USE BootTableAssumption

\* What FindBootNum returns, proved as in BootOrder_proofs.
LEMMA NatLess ==
    IsWellFoundedOn({ss \in Nat \X Nat : ss[1] < ss[2]}, Nat)
BY NatLessThanWellFounded DEF OpToRel

\* A scan of FindBootNum that stops, stops at the first number it may stop at.
LEMMA LowestIsMember ==
    ASSUME NEW S \in SUBSET Nat, S # {}
    PROVE  Lowest(S) \in S /\ \A m \in S : Lowest(S) <= m
<1> DEFINE R == {ss \in Nat \X Nat : ss[1] < ss[2]}
<1>1. PICK x \in S : \A y \in S : ~(<<y, x>> \in R)
  <2>. HIDE DEF R
  <2>1. IsWellFoundedOn(R, Nat)
    BY NatLess DEF R
  <2>. QED BY <2>1, WFMin
<1>2. \A y \in S : x <= y
  <2> TAKE y \in S
  <2>1. <<y, x>> \in R <=> y < x
    OBVIOUS
  <2>. QED BY <1>1, <2>1
<1>. HIDE DEF R
<1>. QED BY <1>2 DEF Lowest

\* Both scans of FindBootNum stay within the table.
LEMMA ScansAreOfNumbers ==
    ASSUME NEW t, NEW bad, NEW e
    PROVE  /\ InWindow(t, bad, e) \subseteq Nums /\ InWindow(t, bad, e) \in SUBSET Nat
           /\ ScanEnds(t, bad, e) \subseteq Nums /\ ScanEnds(t, bad, e) \in SUBSET Nat
<1>1. Nums \subseteq Nat /\ Window \subseteq Nums
  BY DEF Nums
<1>2. InWindow(t, bad, e) \subseteq Window
  BY DEF InWindow
<1>3. ScanEnds(t, bad, e) \subseteq Nums
  BY DEF ScanEnds
<1>. QED BY <1>1, <1>2, <1>3

\* The result is a boot number of the table; it holds the option, or it can not be
\* read (absent, or its data is unreadable), or every number is taken by others.
LEMMA FindBootNumSound ==
    ASSUME NEW t, NEW bad, NEW e
    PROVE  LET f == FindBootNum(t, bad, e)
           IN  /\ f.num \in Nums
               /\ f.exists \in BOOLEAN
               /\ f.exists => t[f.num] = e
               /\ \/ f.exists
                  \/ ~Readable(t, bad, f.num)
                  \/ \A n \in Nums : Readable(t, bad, n) /\ t[n] # e
<1> DEFINE W == InWindow(t, bad, e)
           E == ScanEnds(t, bad, e)
           n == IF W # {} THEN Lowest(W) ELSE IF E # {} THEN Lowest(E) ELSE LastNum
<1>1. W \in SUBSET Nat /\ W \subseteq Nums /\ E \in SUBSET Nat /\ E \subseteq Nums
  BY ScansAreOfNumbers
<1>2. W # {} => Lowest(W) \in W
  BY <1>1, LowestIsMember
<1>3. E # {} => Lowest(E) \in E
  BY <1>1, LowestIsMember
<1>4. n \in Nums
  BY <1>1, <1>2, <1>3 DEF Nums
<1>5. \/ Matches(t, bad, e, n)
      \/ ~Readable(t, bad, n)
      \/ \A m \in Nums : Readable(t, bad, m) /\ t[m] # e
  <2>1. CASE W # {}
    BY <2>1, <1>2 DEF InWindow
  <2>2. CASE W = {} /\ E # {}
    BY <2>2, <1>3 DEF ScanEnds
  <2>3. CASE W = {} /\ E = {}
    BY <2>3 DEF ScanEnds, Matches
  <2>. QED BY <2>1, <2>2, <2>3
<1>6. FindBootNum(t, bad, e) = [num |-> n, exists |-> Matches(t, bad, e, n)]
  BY DEF FindBootNum
<1>7. Matches(t, bad, e, n) \in BOOLEAN /\ (Matches(t, bad, e, n) => t[n] = e)
  BY DEF Matches, Readable
<1>. HIDE DEF n
<1>. QED BY <1>4, <1>5, <1>6, <1>7

-----------------------------------------------------------------------------

Chosen == FindBootNum(table, op.blind, op.entry)

Phase ==
    /\ op.pc = "menu" <=> op = NoOp
    /\ op # NoOp => running = "meridian"
    /\ op.pc \in {"recmode", "recinit"} => op.kind = "recovery" /\ op.entry \in Options
    /\ op.pc = "bootvar" => /\ op.kind \in {"recovery", "trust"}
                            /\ op.entry \in Options
                            /\ Chosen = [num |-> op.num, exists |-> FALSE]
    /\ op.pc = "next" => op.kind \in {"native", "recovery", "trust"}
    /\ op.pc = "osind" => op.kind = "setup"
    /\ op.pc = "reset" => op.kind \in {"native", "recovery", "trust", "setup"}
    /\ op.pc = "undo" => op.kind = "native"

Progress ==
    /\ op.pc = "recinit" => recMode
    /\ (op.pc \in {"bootvar", "next", "reset"} /\ op.kind = "recovery") => recMode /\ recInit
    /\ (op.pc \in {"next", "reset"} /\ op.kind \in {"recovery", "trust"})
          => table[op.num] = op.entry
    /\ op.pc = "reset" => IF op.kind = "setup" THEN fwUI ELSE bootNext = op.num

Promise ==
    /\ (asked \in Options /\ running \in Places)
          => /\ running # "meridian"
             /\ bootNext \in Nums /\ table[bootNext] = asked
    /\ (asked \in Options /\ running \in Options) => running = asked
    /\ asked = "setup" => running \in {"firmware", "setup"}
    /\ (asked = "setup" /\ running = "firmware") => fwUI

NextIsStray == bootNext # Nothing => "next" \in stray
SetupIsStray == fwUI => "setup" \in stray

Pending ==
    /\ (running \in Options \cup {"meridian"} /\ op.pc \notin {"reset", "undo"})
          => NextIsStray /\ SetupIsStray
    /\ op.pc = "reset" => IF op.kind = "setup" THEN NextIsStray ELSE SetupIsStray
    /\ op.pc = "undo" => SetupIsStray

IInv == TypeOK /\ Phase /\ Progress /\ Promise /\ Pending

\* Every result of FindBootNum is the record of a number and a flag.
LEMMA FindBootNumType ==
    ASSUME NEW t, NEW bad, NEW e
    PROVE  FindBootNum(t, bad, e) \in [num : Nums, exists : BOOLEAN]
<1>1. FindBootNum(t, bad, e).num \in Nums /\ FindBootNum(t, bad, e).exists \in BOOLEAN
  BY FindBootNumSound
<1>. QED BY <1>1 DEF FindBootNum

\* FindBootNum says where the option is, or that it still has to be written.
LEMMA FoundOrNot ==
    ASSUME NEW e, NEW f, f = FindBootNum(table, unreadable, e)
    PROVE  /\ f \in [num : Nums, exists : BOOLEAN]
           /\ f.exists => table[f.num] = e
           /\ ~f.exists => f = [num |-> f.num, exists |-> FALSE]
           /\ AfterFind(f) \in {"next", "bootvar"}
           /\ AfterFind(f) = "next" <=> f.exists
BY FindBootNumType, FindBootNumSound DEF AfterFind

LEMMA NoOpIsOp ==
    /\ NoOp \in Op /\ NoOp.pc = "menu" /\ NoOp.kind = "none"
    /\ 0 \in Nums
<1>1. 0 \in Nums
  BY BootTableAssumption DEF Nums, BootTableAssumption
<1>. QED BY <1>1 DEF NoOp, Op

LEMMA Init_IInv == Init => IInv
BY NoOpIsOp, BootHandoffAssumption
   DEF Init, Faults, IInv, TypeOK, Phase, Progress, Promise, Pending, NextIsStray, SetupIsStray, Places
-----------------------------------------------------------------------------
(* Steps of Meridian *)

\* A request begins at the menu with nothing written.
LEMMA BeginStep ==
    ASSUME IInv, NEW kind, NEW pc, NEW num, NEW e, Begin(kind, pc, num, e),
           kind \in {"native", "setup", "recovery", "trust"}, num \in Nums,
           e \in Options \cup {Absent},
           \/ kind = "native" /\ pc = "next"
           \/ kind = "setup" /\ pc = "osind"
           \/ kind = "recovery" /\ pc = "recmode" /\ e \in Options
           \/ /\ kind = "trust" /\ pc = "next"
              /\ table[num] = e
           \/ /\ kind = "trust" /\ pc = "bootvar" /\ e \in Options
              /\ FindBootNum(table, unreadable, e) = [num |-> num, exists |-> FALSE]
    PROVE  IInv'
<1> DEFINE blind == IF pc = "bootvar" THEN unreadable ELSE {}
<1>1. op' = [kind |-> kind, pc |-> pc, num |-> num, entry |-> e, blind |-> blind] /\ op' # NoOp
  BY DEF Begin, NoOp
<1>2. /\ op'.kind = kind /\ op'.pc = pc /\ op'.num = num /\ op'.entry = e
      /\ op'.blind = blind
      /\ op = NoOp /\ running = "meridian"
      /\ UNCHANGED <<table, bootNext, fwUI, recMode, recInit, unreadable, running, asked, stray>>
  BY <1>1 DEF Begin, AtMenu, nvram
<1>3. TypeOK'
  <2>1. op' \in Op
    BY <1>1 DEF Op, IInv, TypeOK
  <2>. QED BY <1>2, <2>1 DEF IInv, TypeOK
<1>4. pc = "bootvar" => Chosen' = FindBootNum(table, unreadable, e)
  BY <1>2 DEF Chosen
<1>5. Phase'
  BY <1>1, <1>2, <1>4 DEF Phase
<1>6. Progress'
  BY <1>2 DEF Progress
<1>7. Promise'
  BY <1>2 DEF IInv, Promise
<1>8. Pending'
  BY <1>2, NoOpIsOp DEF IInv, Pending, NextIsStray, SetupIsStray
<1>. QED BY <1>3, <1>5, <1>6, <1>7, <1>8 DEF IInv

\* A request that gives up leaves NVRAM as it was, up to boot options and the two
\* recovery variables.
LEMMA GiveUpStep ==
    ASSUME IInv, op # NoOp, op.pc \notin {"reset", "undo"}, ToMenu,
           UNCHANGED <<table, bootNext, fwUI, unreadable>>,
           recMode' \in BOOLEAN, recInit' \in BOOLEAN
    PROVE  IInv'
<1>1. TypeOK'
  BY NoOpIsOp DEF IInv, TypeOK, ToMenu
<1>2. Phase'
  BY NoOpIsOp DEF Phase, ToMenu
<1>3. Progress'
  BY NoOpIsOp DEF Progress, ToMenu
<1>4. Promise'
  BY DEF IInv, Promise, ToMenu
<1>5. Pending'
  BY NoOpIsOp DEF IInv, Pending, NextIsStray, SetupIsStray, ToMenu, Phase
<1>. QED BY <1>1, <1>2, <1>3, <1>4, <1>5 DEF IInv

LEMMA WriteRecModeStep == IInv /\ WriteRecMode => IInv'
<1> SUFFICES ASSUME IInv, WriteRecMode
             PROVE  IInv'
  OBVIOUS
<1>1. op # NoOp /\ op.pc = "recmode" /\ op.kind = "recovery"
  BY NoOpIsOp DEF WriteRecMode, IInv, Phase
<1>2. CASE recMode' = TRUE /\ GoTo("recinit")
  <2>1. /\ op' \in Op /\ op'.pc = "recinit" /\ op'.kind = op.kind /\ op'.entry = op.entry
        /\ op' # NoOp
    BY <1>2, NoOpIsOp DEF GoTo, IInv, TypeOK, Op
  <2>. QED BY <1>1, <1>2, <2>1 DEF WriteRecMode, GoTo, IInv, TypeOK, Phase, Progress, Promise,
              Pending, NextIsStray, SetupIsStray
<1>3. CASE UNCHANGED recMode /\ ToMenu
  BY <1>1, <1>3, GiveUpStep DEF WriteRecMode, IInv, TypeOK
<1>. QED BY <1>2, <1>3 DEF WriteRecMode

LEMMA WriteRecInitStep == IInv /\ WriteRecInit => IInv'
<1> SUFFICES ASSUME IInv, WriteRecInit
             PROVE  IInv'
  OBVIOUS
<1>1. op # NoOp /\ op.pc = "recinit" /\ op.kind = "recovery" /\ op.entry \in Options
  BY NoOpIsOp DEF WriteRecInit, IInv, Phase
<1>2. ASSUME recInit' = TRUE, NEW f, f = FindBootNum(table, unreadable, op.entry),
             op' = [op EXCEPT !.pc = AfterFind(f), !.num = f.num,
                              !.blind = IF f.exists THEN {} ELSE unreadable],
             UNCHANGED <<running, asked, stray>>
      PROVE  IInv'
  <2>1. /\ f \in [num : Nums, exists : BOOLEAN]
        /\ f.exists => table[f.num] = op.entry
        /\ ~f.exists => f = [num |-> f.num, exists |-> FALSE]
        /\ AfterFind(f) \in {"next", "bootvar"}
        /\ AfterFind(f) = "next" <=> f.exists
    BY <1>2, FoundOrNot
  <2>2. /\ op' \in Op /\ op'.pc = AfterFind(f) /\ op'.kind = op.kind /\ op'.entry = op.entry
        /\ op'.num = f.num /\ op' # NoOp
    BY <1>2, <2>1, NoOpIsOp DEF IInv, TypeOK, Op
  <2>3. /\ UNCHANGED <<table, bootNext, fwUI, recMode, unreadable, running, asked, stray>>
        /\ ~f.exists => op'.blind = unreadable
        /\ ~f.exists => Chosen' = f
    BY <1>2, <2>2 DEF WriteRecInit, Chosen, IInv, TypeOK, Op
  <2>4. TypeOK'
    BY <1>2, <2>2, <2>3 DEF IInv, TypeOK
  <2>5. Phase'
    BY <1>1, <2>1, <2>2, <2>3 DEF IInv, Phase
  <2>6. Progress'
    BY <1>1, <1>2, <2>1, <2>2, <2>3 DEF IInv, Progress
  <2>7. Promise' /\ Pending'
    BY <1>1, <2>1, <2>2, <2>3 DEF IInv, Promise, Pending, NextIsStray, SetupIsStray
  <2>. QED BY <2>4, <2>5, <2>6, <2>7 DEF IInv
<1>3. CASE ToMenu
  BY <1>1, <1>3, GiveUpStep DEF WriteRecInit, IInv, TypeOK
<1>. QED BY <1>2, <1>3 DEF WriteRecInit

LEMMA WriteBootVarStep == IInv /\ WriteBootVar => IInv'
<1> SUFFICES ASSUME IInv, WriteBootVar
             PROVE  IInv'
  OBVIOUS
<1>1. /\ op # NoOp /\ op.pc = "bootvar" /\ op.kind \in {"recovery", "trust"}
      /\ op.entry \in Options /\ op.num \in Nums /\ running = "meridian"
  BY NoOpIsOp DEF WriteBootVar, IInv, Phase, TypeOK, Op
<1>2. CASE table' = [table EXCEPT ![op.num] = op.entry] /\ GoTo("next")
  <2>1. /\ op' \in Op /\ op'.pc = "next" /\ op'.kind = op.kind /\ op'.entry = op.entry
        /\ op'.num = op.num /\ op' # NoOp
    BY <1>2, NoOpIsOp DEF GoTo, IInv, TypeOK, Op
  <2>2. table' \in Tables /\ table'[op'.num] = op'.entry
    BY <1>1, <1>2, <2>1 DEF IInv, TypeOK, Tables
  <2>3. /\ UNCHANGED <<bootNext, fwUI, recMode, recInit, unreadable, running, asked, stray>>
        /\ asked \notin Options
    BY <1>1, <1>2 DEF WriteBootVar, GoTo, IInv, Promise, Places
  <2>4. TypeOK' /\ Phase'
    BY <1>1, <2>1, <2>2, <2>3 DEF IInv, TypeOK, Phase
  <2>5. Progress' /\ Promise' /\ Pending'
    BY <1>1, <2>1, <2>2, <2>3 DEF IInv, Progress, Promise, Pending, NextIsStray, SetupIsStray
  <2>. QED BY <2>4, <2>5 DEF IInv
<1>3. CASE UNCHANGED table /\ ToMenu
  BY <1>1, <1>3, GiveUpStep DEF WriteBootVar, IInv, TypeOK
<1>. QED BY <1>2, <1>3 DEF WriteBootVar

LEMMA WriteBootNextStep == IInv /\ WriteBootNext => IInv'
<1> SUFFICES ASSUME IInv, WriteBootNext
             PROVE  IInv'
  OBVIOUS
<1>1. /\ op # NoOp /\ op.pc = "next" /\ op.kind \in {"native", "recovery", "trust"}
      /\ op.num \in Nums /\ running = "meridian"
  BY NoOpIsOp DEF WriteBootNext, IInv, Phase, TypeOK, Op
<1>2. CASE bootNext' = op.num /\ GoTo("reset")
  <2>1. /\ op' \in Op /\ op'.pc = "reset" /\ op'.kind = op.kind /\ op'.entry = op.entry
        /\ op'.num = op.num /\ op' # NoOp
    BY <1>2, NoOpIsOp DEF GoTo, IInv, TypeOK, Op
  <2>2. /\ UNCHANGED <<table, fwUI, recMode, recInit, unreadable, running, asked, stray>>
        /\ asked \notin Options
    BY <1>1, <1>2 DEF WriteBootNext, GoTo, IInv, Promise, Places
  <2>3. TypeOK' /\ Phase'
    BY <1>1, <1>2, <2>1, <2>2 DEF IInv, TypeOK, Phase
  <2>4. Progress' /\ Promise'
    BY <1>1, <1>2, <2>1, <2>2 DEF IInv, Progress, Promise
  <2>5. Pending'
    BY <1>1, <1>2, <2>1, <2>2 DEF IInv, Pending, NextIsStray, SetupIsStray
  <2>. QED BY <2>3, <2>4, <2>5 DEF IInv
<1>3. CASE UNCHANGED bootNext /\ ToMenu
  BY <1>1, <1>3, GiveUpStep DEF WriteBootNext, IInv, TypeOK
<1>. QED BY <1>2, <1>3 DEF WriteBootNext

LEMMA WriteOsIndicationsStep == IInv /\ WriteOsIndications => IInv'
<1> SUFFICES ASSUME IInv, WriteOsIndications
             PROVE  IInv'
  OBVIOUS
<1>1. op # NoOp /\ op.pc = "osind" /\ op.kind = "setup" /\ running = "meridian"
  BY NoOpIsOp DEF WriteOsIndications, IInv, Phase
<1>2. CASE fwUI' = TRUE /\ GoTo("reset")
  <2>1. /\ op' \in Op /\ op'.pc = "reset" /\ op'.kind = op.kind /\ op'.entry = op.entry
        /\ op'.num = op.num /\ op' # NoOp
    BY <1>2, NoOpIsOp DEF GoTo, IInv, TypeOK, Op
  <2>2. UNCHANGED <<table, bootNext, recMode, recInit, unreadable, running, asked, stray>>
    BY <1>2 DEF WriteOsIndications, GoTo
  <2>3. TypeOK' /\ Phase' /\ Progress'
    BY <1>1, <1>2, <2>1, <2>2 DEF IInv, TypeOK, Phase, Progress
  <2>4. Promise' /\ Pending'
    BY <1>1, <1>2, <2>1, <2>2 DEF IInv, Promise, Pending, NextIsStray
  <2>. QED BY <2>3, <2>4 DEF IInv
<1>3. CASE UNCHANGED fwUI /\ ToMenu
  BY <1>1, <1>3, GiveUpStep DEF WriteOsIndications, IInv, TypeOK
<1>. QED BY <1>2, <1>3 DEF WriteOsIndications

LEMMA ResetsStep == IInv /\ Resets => IInv'
<1> SUFFICES ASSUME IInv, Resets
             PROVE  IInv'
  OBVIOUS
<1>1. /\ op.pc = "reset" /\ op.kind \in {"native", "recovery", "trust", "setup"}
      /\ op.num \in Nums /\ op' = NoOp /\ running' = "firmware" /\ asked' = Target
      /\ UNCHANGED <<table, bootNext, fwUI, recMode, recInit, unreadable, stray>>
  BY DEF Resets, IInv, Phase, TypeOK, Op, nvram
<1>2. table[op.num] \in Options \cup {Absent}
  BY <1>1 DEF IInv, TypeOK, Tables
<1>3. Target \in Options \cup {"setup", Nothing}
  BY <1>2 DEF Target
<1>4. TypeOK'
  BY <1>1, <1>3, NoOpIsOp DEF IInv, TypeOK, Places
<1>5. Phase' /\ Progress'
  BY <1>1, NoOpIsOp DEF Phase, Progress
<1>6. Promise'
  <2>1. Target = "setup" => op.kind = "setup" /\ fwUI
    BY <1>1, <1>2, BootHandoffAssumption DEF Target, IInv, Progress, Places
  <2>2. Target \in Options => bootNext = op.num /\ table[op.num] = Target
    BY <1>1, BootHandoffAssumption DEF Target, IInv, Progress, Places
  <2>. QED BY <1>1, <2>1, <2>2, BootHandoffAssumption DEF Promise, Places
<1>7. Pending'
  BY <1>1, NoOpIsOp, BootHandoffAssumption DEF Pending, Places
<1>. QED BY <1>4, <1>5, <1>6, <1>7 DEF IInv

LEMMA ResetReturnsStep == IInv /\ ResetReturns => IInv'
<1> SUFFICES ASSUME IInv, ResetReturns
             PROVE  IInv'
  OBVIOUS
<1>1. /\ op.pc = "reset" /\ op.kind \in {"native", "recovery", "trust", "setup"}
      /\ op # NoOp /\ running = "meridian"
      /\ UNCHANGED <<table, bootNext, fwUI, recMode, recInit, unreadable, running, asked>>
  BY NoOpIsOp DEF ResetReturns, IInv, Phase, nvram
<1>2. CASE op.kind = "native"
  <2>1. /\ op' \in Op /\ op'.pc = "undo" /\ op'.kind = op.kind /\ op' # NoOp
        /\ stray' = stray
    BY <1>1, <1>2, NoOpIsOp DEF ResetReturns, IInv, TypeOK, Op
  <2>2. TypeOK' /\ Phase' /\ Progress'
    BY <1>1, <1>2, <2>1 DEF IInv, TypeOK, Phase, Progress
  <2>3. Promise' /\ Pending'
    BY <1>1, <1>2, <2>1 DEF IInv, Promise, Pending, SetupIsStray
  <2>. QED BY <2>2, <2>3 DEF IInv
<1>3. CASE op.kind # "native"
  <2>1. op' = NoOp /\ stray' = stray \cup {IF op.kind = "setup" THEN "setup" ELSE "next"}
    BY <1>3 DEF ResetReturns
  <2>2. TypeOK' /\ Phase' /\ Progress'
    BY <1>1, <2>1, NoOpIsOp DEF IInv, TypeOK, Phase, Progress
  <2>3. Promise'
    BY <1>1 DEF IInv, Promise
  <2>4. Pending'
    BY <1>1, <1>3, <2>1, NoOpIsOp DEF IInv, Pending, NextIsStray, SetupIsStray
  <2>. QED BY <2>2, <2>3, <2>4 DEF IInv
<1>. QED BY <1>2, <1>3

LEMMA UndoStep == IInv /\ Undo => IInv'
<1> SUFFICES ASSUME IInv, Undo
             PROVE  IInv'
  OBVIOUS
<1>1. /\ op.pc = "undo" /\ op # NoOp /\ running = "meridian" /\ op' = NoOp
      /\ UNCHANGED <<table, fwUI, recMode, recInit, unreadable, running, asked>>
      /\ \/ bootNext' = Nothing /\ stray' = stray \ {"next"}
         \/ UNCHANGED bootNext /\ stray' = stray \cup {"next"}
  BY NoOpIsOp DEF Undo, IInv, Phase
<1>2. TypeOK' /\ Phase' /\ Progress'
  BY <1>1, NoOpIsOp DEF IInv, TypeOK, Phase, Progress
<1>3. Promise'
  BY <1>1 DEF IInv, Promise, Places
<1>4. Pending'
  BY <1>1, NoOpIsOp DEF IInv, Pending, NextIsStray, SetupIsStray
<1>. QED BY <1>2, <1>3, <1>4 DEF IInv
-----------------------------------------------------------------------------
(* Steps of the firmware and of other systems *)

LEMMA LeaveMeridianStep ==
    IInv /\ ((\E e \in Options : DirectBoot(e)) \/ PowerCycle) => IInv'
<1> SUFFICES ASSUME IInv, (\E e \in Options : DirectBoot(e)) \/ PowerCycle
             PROVE  IInv'
  OBVIOUS
<1>1. /\ running = "meridian" /\ op' = NoOp
      /\ running' \in Options \cup {"firmware"}
      /\ (running' \in Options => op = NoOp)
      /\ UNCHANGED <<table, bootNext, fwUI, recMode, recInit, unreadable, asked, stray>>
  BY BootHandoffAssumption DEF DirectBoot, PowerCycle, AtMenu, nvram, Places
<1>2. asked \notin Options /\ asked # "setup"
  BY <1>1 DEF IInv, Promise, Places
<1>3. TypeOK' /\ Phase' /\ Progress'
  BY <1>1, NoOpIsOp DEF IInv, TypeOK, Phase, Progress, Places
<1>4. Promise'
  BY <1>1, <1>2 DEF Promise
<1>5. Pending'
  BY <1>1, NoOpIsOp, BootHandoffAssumption
     DEF IInv, Pending, NextIsStray, SetupIsStray, Places
<1>. QED BY <1>3, <1>4, <1>5 DEF IInv

\* Outside Meridian no request is under way.
LEMMA NoRequestOutside == IInv /\ running # "meridian" => op = NoOp
BY DEF IInv, Phase

LEMMA EnterSetupStep == IInv /\ EnterSetup => IInv'
<1> SUFFICES ASSUME IInv, EnterSetup
             PROVE  IInv'
  OBVIOUS
<1>1. op = NoOp /\ op' = NoOp
  BY NoRequestOutside DEF EnterSetup
<1>2. TypeOK' /\ Phase' /\ Progress'
  BY <1>1, NoOpIsOp DEF EnterSetup, IInv, TypeOK, Phase, Progress, Places
<1>3. Promise'
  BY BootHandoffAssumption DEF EnterSetup, IInv, Promise, Places
<1>4. Pending'
  BY <1>1, NoOpIsOp, BootHandoffAssumption
     DEF EnterSetup, IInv, Pending, NextIsStray, SetupIsStray, Places
<1>. QED BY <1>2, <1>3, <1>4 DEF IInv

LEMMA LeaveSetupStep == IInv /\ LeaveSetup => IInv'
<1> SUFFICES ASSUME IInv, LeaveSetup
             PROVE  IInv'
  OBVIOUS
<1>1. op = NoOp /\ op' = NoOp
  BY NoRequestOutside DEF LeaveSetup
<1>2. TypeOK' /\ Phase' /\ Progress'
  BY <1>1, NoOpIsOp DEF LeaveSetup, nvram, IInv, TypeOK, Phase, Progress, Places
<1>3. Promise'
  BY BootHandoffAssumption DEF LeaveSetup, nvram, IInv, Promise, Places
<1>4. Pending'
  BY <1>1, NoOpIsOp, BootHandoffAssumption DEF LeaveSetup, Pending, Places
<1>. QED BY <1>2, <1>3, <1>4 DEF IInv

LEMMA TakeBootNextStep == IInv /\ TakeBootNext => IInv'
<1> SUFFICES ASSUME IInv, TakeBootNext
             PROVE  IInv'
  OBVIOUS
<1>1. /\ op = NoOp /\ op' = NoOp /\ bootNext \in Nums /\ bootNext' = Nothing
      /\ running = "firmware" /\ ~fwUI
      /\ UNCHANGED <<table, fwUI, recMode, recInit, unreadable>>
      /\ stray' = stray \ {"next"}
  BY NoRequestOutside DEF TakeBootNext, IInv, TypeOK
<1>2. \/ running' = table[bootNext] /\ running' \in Options /\ asked' = asked
      \/ running' = "meridian" /\ asked' = Nothing
  BY <1>1 DEF TakeBootNext, IInv, TypeOK, Tables
<1>3. TypeOK' /\ Phase' /\ Progress'
  BY <1>1, <1>2, NoOpIsOp DEF IInv, TypeOK, Phase, Progress, Places
<1>4. Promise'
  BY <1>1, <1>2, BootHandoffAssumption DEF IInv, Promise, Places
<1>5. Pending'
  BY <1>1, <1>2, NoOpIsOp DEF Pending, NextIsStray, SetupIsStray
<1>. QED BY <1>3, <1>4, <1>5 DEF IInv

LEMMA TakeBootOrderStep == IInv /\ TakeBootOrder => IInv'
<1> SUFFICES ASSUME IInv, TakeBootOrder
             PROVE  IInv'
  OBVIOUS
<1>1. op = NoOp /\ op' = NoOp
  BY NoRequestOutside DEF TakeBootOrder
<1>2. TypeOK' /\ Phase' /\ Progress'
  BY <1>1, NoOpIsOp DEF TakeBootOrder, nvram, IInv, TypeOK, Phase, Progress, Places
<1>3. Promise'
  <2>1. asked \notin Options /\ asked # "setup"
    BY BootHandoffAssumption DEF TakeBootOrder, IInv, Promise, Places
  <2>. QED BY <2>1 DEF TakeBootOrder, Promise
<1>4. Pending'
  BY <1>1, NoOpIsOp DEF TakeBootOrder, nvram, Pending, NextIsStray, SetupIsStray
<1>. QED BY <1>2, <1>3, <1>4 DEF IInv

LEMMA SystemRebootsStep == IInv /\ SystemReboots => IInv'
<1> SUFFICES ASSUME IInv, SystemReboots
             PROVE  IInv'
  OBVIOUS
<1>1. op = NoOp /\ op' = NoOp /\ running' = "firmware" /\ asked' = Nothing
  BY NoRequestOutside, BootHandoffAssumption DEF SystemReboots, Places
<1>2. table' \in Tables
  BY DEF SystemReboots, IInv, TypeOK, Tables
<1>3. TypeOK' /\ Phase' /\ Progress'
  BY <1>1, <1>2, NoOpIsOp DEF SystemReboots, IInv, TypeOK, Phase, Progress, Places
<1>4. Promise'
  BY <1>1, BootHandoffAssumption DEF Promise, Places
<1>5. Pending'
  BY <1>1, NoOpIsOp, BootHandoffAssumption DEF Pending, Places
<1>. QED BY <1>3, <1>4, <1>5 DEF IInv
-----------------------------------------------------------------------------
(* The inductive invariant *)

LEMMA NativeStep == IInv /\ (\E n \in Nums : Native(n)) => IInv'
<1> SUFFICES ASSUME IInv, NEW n \in Nums, Native(n)
             PROVE  IInv'
  OBVIOUS
<1>. QED BY BeginStep DEF Native

LEMMA IntoSetupStep == IInv /\ IntoSetup => IInv'
<1> SUFFICES ASSUME IInv, IntoSetup
             PROVE  IInv'
  OBVIOUS
<1>. QED BY NoOpIsOp, BeginStep DEF IntoSetup

LEMMA RecoveryStep == IInv /\ (\E e \in Options : Recovery(e)) => IInv'
<1> SUFFICES ASSUME IInv, NEW e \in Options, Recovery(e)
             PROVE  IInv'
  OBVIOUS
<1>. QED BY NoOpIsOp, BeginStep DEF Recovery

LEMMA TrustStep == IInv /\ (\E e \in Options : Trust(e)) => IInv'
<1> SUFFICES ASSUME IInv, NEW e \in Options, Trust(e)
             PROVE  IInv'
  OBVIOUS
<1>1. PICK f : /\ f = FindBootNum(table, unreadable, e)
               /\ Begin("trust", AfterFind(f), f.num, e)
  BY DEF Trust
<1>2. /\ f \in [num : Nums, exists : BOOLEAN]
      /\ f.exists => table[f.num] = e
      /\ ~f.exists => f = [num |-> f.num, exists |-> FALSE]
      /\ AfterFind(f) \in {"next", "bootvar"}
      /\ AfterFind(f) = "next" <=> f.exists
  BY <1>1, FoundOrNot
<1>3. f.num \in Nums
  BY <1>2
<1>4. CASE f.exists
  <2>1. AfterFind(f) = "next" /\ table[f.num] = e
    BY <1>2, <1>4
  <2>. QED BY <1>1, <1>3, <2>1, BeginStep
<1>5. CASE ~f.exists
  <2>1. AfterFind(f) = "bootvar" /\ FindBootNum(table, unreadable, e) = [num |-> f.num, exists |-> FALSE]
    BY <1>1, <1>2, <1>5
  <2>. QED BY <1>1, <1>3, <2>1, BeginStep
<1>. QED BY <1>4, <1>5

LEMMA IInv_Step == IInv /\ [Next]_vars => IInv'
<1> SUFFICES ASSUME IInv, [Next]_vars
             PROVE  IInv'
  OBVIOUS
<1>1. CASE \/ \E n \in Nums : Native(n)
           \/ IntoSetup
           \/ \E e \in Options : Recovery(e)
           \/ \E e \in Options : Trust(e)
  BY <1>1, NativeStep, IntoSetupStep, RecoveryStep, TrustStep
<1>2. CASE WriteRecMode \/ WriteRecInit \/ WriteBootVar \/ WriteBootNext \/ WriteOsIndications
  BY <1>2, WriteRecModeStep, WriteRecInitStep, WriteBootVarStep, WriteBootNextStep,
     WriteOsIndicationsStep
<1>3. CASE Resets \/ ResetReturns \/ Undo
  BY <1>3, ResetsStep, ResetReturnsStep, UndoStep
<1>4. CASE (\E e \in Options : DirectBoot(e)) \/ PowerCycle
  BY <1>4, LeaveMeridianStep
<1>5. CASE EnterSetup \/ LeaveSetup \/ TakeBootNext \/ TakeBootOrder \/ SystemReboots
  BY <1>5, EnterSetupStep, LeaveSetupStep, TakeBootNextStep, TakeBootOrderStep,
     SystemRebootsStep
<1>6. CASE ReadsChange
  <2>1. /\ UNCHANGED <<table, bootNext, fwUI, recMode, recInit, running, op, asked, stray>>
        /\ unreadable' \subseteq Nums
    BY <1>6 DEF ReadsChange, nvram, Faults
  <2>2. TypeOK'
    BY <2>1 DEF IInv, TypeOK
  <2>3. Phase' /\ Progress'
    BY <2>1 DEF IInv, Phase, Chosen, Progress
  <2>4. Promise' /\ Pending'
    BY <2>1 DEF IInv, Promise, Pending, NextIsStray, SetupIsStray
  <2>. QED BY <2>2, <2>3, <2>4 DEF IInv
<1>7. CASE UNCHANGED vars
  BY <1>7 DEF vars, IInv, TypeOK, Phase, Chosen, Progress, Promise, Pending,
              NextIsStray, SetupIsStray
<1>. QED BY <1>1, <1>2, <1>3, <1>4, <1>5, <1>6, <1>7 DEF Next

\* The strengthening of the four invariants below holds in every reachable state.
THEOREM InductiveInvariant == Spec => []IInv
BY Init_IInv, IInv_Step, PTL DEF Spec
-----------------------------------------------------------------------------
(* The properties *)

\* NVRAM variables and the request under way keep their types.
THEOREM TypeCorrect == Spec => []TypeOK
<1>1. IInv => TypeOK
  BY DEF IInv
<1>. QED BY <1>1, InductiveInvariant, PTL

\* RebootIntoLoader, RebootIntoFirmware, RecoveryBootAPFS and RunTrustSync call
\* ResetSystem only with everything the request needs in NVRAM.
THEOREM ResetsAreComplete == Spec => []ResetIsComplete
<1>1. IInv => ResetIsComplete
  BY DEF IInv, Phase, Progress, ResetIsComplete
<1>. QED BY <1>1, InductiveInvariant, PTL

\* After such a reset the system that was asked for is the first to run.
THEOREM AskedRuns == Spec => []AskedIsStarted
<1>1. IInv => AskedIsStarted
  BY DEF IInv, TypeOK, Promise, AskedIsStarted, Places
<1>. QED BY <1>1, InductiveInvariant, PTL

\* No one-shot request outlives its reset unless ResetSystem returned.
THEOREM NothingPending == Spec => []PendingOnlyAfterFailedReset
<1>1. ASSUME IInv, AtMenu \/ running \in Options
      PROVE  NextIsStray /\ SetupIsStray
  <2>1. op = NoOp
    BY <1>1, NoRequestOutside, BootHandoffAssumption DEF AtMenu, Places
  <2>. QED BY <1>1, <2>1, NoOpIsOp DEF IInv, Pending, AtMenu
<1>2. IInv => PendingOnlyAfterFailedReset
  BY <1>1 DEF NextIsStray, SetupIsStray, PendingOnlyAfterFailedReset
<1>. QED BY <1>2, InductiveInvariant, PTL

\* A step taken while Meridian runs changes the boot options in WriteBootVar only.
LEMMA TableWrites ==
    ASSUME IInv, [Next]_vars, running = "meridian", table' # table
    PROVE  op.pc = "bootvar" /\ table' = [table EXCEPT ![op.num] = op.entry]
BY BootHandoffAssumption
   DEF Next, vars, nvram, Native, IntoSetup, Recovery, Trust, Begin, DirectBoot, WriteRecMode,
       WriteRecInit, WriteBootVar, WriteBootNext, WriteOsIndications, Resets, ResetReturns, Undo,
       PowerCycle, EnterSetup, LeaveSetup, TakeBootNext, TakeBootOrder, SystemReboots,
       ReadsChange, Places

\* RunTrustSync and RecoveryBootAPFS overwrite another system's option only where
\* it could not be read when its number was chosen, or all numbers are taken.
THEOREM SetUpIsSafe == Spec => SetUpKeepsOthers
<1>1. IInv /\ [Next]_vars =>
        [\A n \in Nums :
          (running = "meridian" /\ table[n] # Absent /\ table'[n] # table[n])
          => n = op.num /\ (n \in op.blind \/ Full(op.entry))]_vars
  <2> SUFFICES ASSUME IInv, [Next]_vars, running = "meridian", NEW n \in Nums,
                      table[n] # Absent, table'[n] # table[n]
               PROVE  n = op.num /\ (n \in op.blind \/ Full(op.entry))
    OBVIOUS
  <2>1. op.pc = "bootvar" /\ table' = [table EXCEPT ![op.num] = op.entry]
    BY TableWrites
  <2>2. n = op.num
    BY <2>1 DEF IInv, TypeOK, Tables
  <2>3. Chosen.num = n /\ ~Chosen.exists
    BY <2>1, <2>2 DEF IInv, Phase
  <2>4. \/ ~Readable(table, op.blind, n)
        \/ \A m \in Nums : Readable(table, op.blind, m) /\ table[m] # op.entry
    BY <2>3, FindBootNumSound DEF Chosen
  <2>. QED BY <2>2, <2>4 DEF Readable, Full
<1>. QED BY <1>1, InductiveInvariant, PTL DEF SetUpKeepsOthers, Spec
=============================================================================
