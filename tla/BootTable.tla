------------------------------ MODULE BootTable ------------------------------
(***************************************************************************)
(* The firmware's Boot#### variables as install/install.c reads them: a    *)
(* table from boot numbers to load options (a load option is named by what *)
(* ConstructBootEntry packs into it: label, device path and loader path).  *)
(***************************************************************************)
EXTENDS Integers

CONSTANTS
    LastNum,   \* the highest boot number, 0xFFFF
    Window,    \* the numbers FindBootNum tries first, 80..89
    Options,   \* load options
    Absent     \* a Boot#### that does not exist

ASSUME BootTableAssumption ==
    /\ LastNum \in Nat
    /\ Window \subseteq 0..LastNum
    /\ Absent \notin Options

Nums == 0..LastNum

Tables == [Nums -> Options \cup {Absent}]

\* EfivarGetRaw succeeds: the variable exists and its data can be read.
Readable(t, bad, n) == t[n] # Absent /\ n \notin bad

Matches(t, bad, e, n) == Readable(t, bad, n) /\ t[n] = e

Lowest(S) == CHOOSE n \in S : \A m \in S : n <= m

\* Where the second scan of FindBootNum ends: at a match or at the first
\* variable that cannot be read, whatever the reason.
ScanEnds(t, bad, e) == {n \in Nums : ~Readable(t, bad, n) \/ Matches(t, bad, e, n)}

InWindow(t, bad, e) == {n \in Window : Matches(t, bad, e, n)}

\* Mutants: the window is not searched; the index is not stepped back.
FindBootNum_NoWindow(t, bad, e) ==
    LET n == IF ScanEnds(t, bad, e) # {} THEN Lowest(ScanEnds(t, bad, e)) ELSE LastNum
    IN  [num |-> n, exists |-> Matches(t, bad, e, n)]
FindBootNum_Next(t, bad, e) ==
    LET n == IF ScanEnds(t, bad, e) # {} THEN Lowest(ScanEnds(t, bad, e)) ELSE LastNum
    IN  [num |-> IF n = LastNum THEN n ELSE n + 1, exists |-> Matches(t, bad, e, n)]

\* The boot number for a load option and whether it already holds it.  With every
\* variable readable and none a match the index is clamped to the last one.
FindBootNum(t, bad, e) ==
    LET n == IF InWindow(t, bad, e) # {} THEN Lowest(InWindow(t, bad, e))
             ELSE IF ScanEnds(t, bad, e) # {} THEN Lowest(ScanEnds(t, bad, e))
             ELSE LastNum
    IN  [num |-> n, exists |-> Matches(t, bad, e, n)]
=============================================================================
