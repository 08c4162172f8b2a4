------------------------------ MODULE Scan_proofs ------------------------------
(***************************************************************************)
(* What is proved of a scan, for all disks, settings and firmware: its      *)
(* types, that no loader is lost on the way to the menu, and that kernels   *)
(* are folded by age.  The inductive invariant ScanInv says, beside the     *)
(* types and the places of the scan, what LoaderList and the submenus hold, *)
(* and what has been found so far: of the volumes that are done with, of    *)
(* the one at hand, and of the directory at hand.  A step adds to what is   *)
(* found, and what is found stays so: that is where the work is.            *)
(***************************************************************************)
EXTENDS Scan, TLAPS, SequenceTheorems, WellFoundedInduction, FiniteSetTheorems

-----------------------------------------------------------------------------
(* Sequences and menus.                                                     *)

\* The least of a set of naturals is in it.
LEMMA MinIs ==
    ASSUME NEW S \in SUBSET Nat, S # {}
    PROVE  Min(S) \in S /\ \A x \in S : Min(S) <= x
<1> DEFINE R == OpToRel(<, Nat)
<1>1. PICK n \in S : \A m \in S : ~(<<m, n>> \in R)
  <2>. HIDE DEF R
  <2>1. IsWellFoundedOn(R, Nat)
    BY NatLessThanWellFounded DEF R
  <2>. QED BY <2>1, WFMin
<1>2. \A m \in S : n <= m
  <2> TAKE m \in S
  <2>1. ~(m < n)
    BY <1>1 DEF OpToRel
  <2>. QED BY <2>1
<1>. QED BY <1>2 DEF Min

\* A list with one more element at its end.
LEMMA AppendIs ==
    ASSUME NEW S, NEW s \in Seq(S), NEW e \in S
    PROVE  /\ Append(s, e) \in Seq(S) /\ Append(s, e) # <<>>
           /\ Len(s) \in Nat /\ DOMAIN s = 1 .. Len(s)
           /\ DOMAIN Append(s, e) = 1 .. Len(s) + 1
           /\ \A k \in DOMAIN Append(s, e) :
                 Append(s, e)[k] = IF k = Len(s) + 1 THEN e ELSE s[k]
<1>1. /\ Append(s, e) \in Seq(S) /\ Len(Append(s, e)) = Len(s) + 1 /\ Append(s, e) # <<>>
      /\ \A k \in 1 .. Len(s) : Append(s, e)[k] = s[k]
      /\ Append(s, e)[Len(s) + 1] = e
  BY AppendProperties
<1>2. /\ DOMAIN s = 1 .. Len(s) /\ Len(s) \in Nat
      /\ DOMAIN Append(s, e) = 1 .. Len(Append(s, e))
  BY <1>1, LenProperties, SMTT(60)
<1>. QED BY <1>1, <1>2

\* A sequence without its k-th element keeps the others in their order.
LEMMA RemoveAtIs ==
    ASSUME NEW S, NEW s \in Seq(S), NEW k \in DOMAIN s
    PROVE  /\ RemoveAt(s, k) \in Seq(S)
           /\ DOMAIN s = 1 .. Len(s) /\ Len(s) \in Nat
           /\ DOMAIN RemoveAt(s, k) = 1 .. Len(s) - 1 /\ Len(RemoveAt(s, k)) = Len(s) - 1
           /\ \A i \in DOMAIN RemoveAt(s, k) :
                 RemoveAt(s, k)[i] = IF i < k THEN s[i] ELSE s[i + 1]
<1> DEFINE a == SubSeq(s, 1, k - 1)
           b == SubSeq(s, k + 1, Len(s))
<1>1. DOMAIN s = 1 .. Len(s) /\ Len(s) \in Nat /\ \A i \in 1 .. Len(s) : s[i] \in S
  BY LenProperties, ElementOfSeq
<1>2. k \in Nat /\ 1 <= k /\ k <= Len(s)
  BY <1>1
<1>3. a \in Seq(S) /\ Len(a) = k - 1 /\ \A i \in 1 .. k - 1 : a[i] = s[i]
  <2>1. \A i \in 1 .. k - 1 : s[i] \in S
    BY <1>1, <1>2
  <2>2. 1 \in Int /\ k - 1 \in Int
    BY <1>2
  <2>3. /\ a \in Seq(S) /\ Len(a) = IF 1 <= k - 1 THEN k - 1 - 1 + 1 ELSE 0
        /\ \A i \in 1 .. k - 1 - 1 + 1 : a[i] = s[1 + i - 1]
    BY <2>1, <2>2, SubSeqProperties
  <2>. HIDE DEF a
  <2>. QED BY <2>3, <1>2
<1>4. b \in Seq(S) /\ Len(b) = Len(s) - k /\ \A i \in 1 .. Len(s) - k : b[i] = s[k + i]
  <2>1. \A i \in k + 1 .. Len(s) : s[i] \in S
    BY <1>1, <1>2
  <2>2. k + 1 \in Int /\ Len(s) \in Int
    BY <1>1, <1>2
  <2>3. /\ b \in Seq(S) /\ Len(b) = IF k + 1 <= Len(s) THEN Len(s) - (k + 1) + 1 ELSE 0
        /\ \A i \in 1 .. Len(s) - (k + 1) + 1 : b[i] = s[k + 1 + i - 1]
    BY <2>1, <2>2, SubSeqProperties
  <2>. HIDE DEF b
  <2>4. Len(b) = Len(s) - k
    BY <2>3, <1>1, <1>2
  <2>5. ASSUME NEW i \in 1 .. Len(s) - k
        PROVE  b[i] = s[k + i]
    <3>1. i \in 1 .. Len(s) - (k + 1) + 1 /\ k + 1 + i - 1 = k + i
      BY <2>5, <1>1, <1>2
    <3>. QED BY <3>1, <2>3
  <2>. QED BY <2>3, <2>4, <2>5
<1>5. RemoveAt(s, k) = a \o b
  BY DEF RemoveAt
<1>. HIDE DEF a, b
<1>6. /\ a \o b \in Seq(S) /\ Len(a \o b) = Len(s) - 1
      /\ \A i \in 1 .. Len(s) - 1 :
            (a \o b)[i] = IF i <= k - 1 THEN a[i] ELSE b[i - (k - 1)]
  <2>1. /\ a \o b \in Seq(S) /\ Len(a \o b) = Len(a) + Len(b)
        /\ \A i \in 1 .. Len(a) + Len(b) :
              (a \o b)[i] = IF i <= Len(a) THEN a[i] ELSE b[i - Len(a)]
    BY <1>3, <1>4, ConcatProperties
  <2>2. Len(a) + Len(b) = Len(s) - 1
    BY <1>1, <1>2, <1>3, <1>4
  <2>. QED BY <2>1, <2>2, <1>3
<1>7. DOMAIN (a \o b) = 1 .. Len(s) - 1
  BY <1>6, LenProperties
<1>8. ASSUME NEW i \in 1 .. Len(s) - 1
      PROVE  (a \o b)[i] = IF i < k THEN s[i] ELSE s[i + 1]
  <2>1. CASE i < k
    <3>1. i <= k - 1 /\ i \in 1 .. k - 1
      BY <2>1, <1>1, <1>2
    <3>. QED BY <3>1, <1>3, <1>6, <2>1
  <2>2. CASE ~(i < k)
    <3>1. ~(i <= k - 1) /\ i - (k - 1) \in 1 .. Len(s) - k /\ k + (i - (k - 1)) = i + 1
      BY <2>2, <1>1, <1>2
    <3>. QED BY <3>1, <1>4, <1>6, <2>2
  <2>. QED BY <2>1, <2>2
<1>. QED BY <1>1, <1>5, <1>6, <1>7, <1>8, ZenonT(60)

\* A sequence with an element put in front of its k-th.
LEMMA InsertAtIs ==
    ASSUME NEW S, NEW s \in Seq(S), NEW k \in DOMAIN s, NEW x \in S
    PROVE  /\ InsertAt(s, k, x) \in Seq(S)
           /\ Len(InsertAt(s, k, x)) = Len(s) + 1
           /\ \A i \in 1..(Len(s) + 1) :
                 InsertAt(s, k, x)[i] = IF i < k THEN s[i] ELSE IF i = k THEN x ELSE s[i - 1]
<1> DEFINE a == SubSeq(s, 1, k - 1)
           b == SubSeq(s, k, Len(s))
<1>1. DOMAIN s = 1 .. Len(s) /\ Len(s) \in Nat /\ \A i \in 1 .. Len(s) : s[i] \in S
  BY LenProperties, ElementOfSeq
<1>2. k \in Nat /\ 1 <= k /\ k <= Len(s)
  BY <1>1
<1>3. a \in Seq(S) /\ Len(a) = k - 1 /\ \A i \in 1 .. k - 1 : a[i] = s[i]
  BY <1>1, <1>2
<1>4. b \in Seq(S) /\ Len(b) = Len(s) - k + 1 /\ \A i \in 1 .. Len(s) - k + 1 : b[i] = s[k + i - 1]
  BY <1>1, <1>2
<1>. HIDE DEF a, b
<1>5. /\ a \o <<x>> \in Seq(S) /\ Len(a \o <<x>>) = k
      /\ \A i \in 1 .. k : (a \o <<x>>)[i] = IF i < k THEN s[i] ELSE x
  BY <1>2, <1>3
<1>6. InsertAt(s, k, x) = (a \o <<x>>) \o b
  BY DEF InsertAt, a, b
<1> DEFINE c == a \o <<x>>
<1>7. c \in Seq(S) /\ Len(c) = k /\ \A i \in 1 .. k : c[i] = IF i < k THEN s[i] ELSE x
  BY <1>5
<1>. HIDE DEF c
<1>8. /\ c \o b \in Seq(S) /\ Len(c \o b) = Len(s) + 1
      /\ \A i \in 1 .. Len(s) + 1 : (c \o b)[i] = IF i <= k THEN c[i] ELSE b[i - k]
  <2>1. /\ c \o b \in Seq(S) /\ Len(c \o b) = Len(c) + Len(b)
        /\ \A i \in 1 .. Len(c) + Len(b) :
              (c \o b)[i] = IF i <= Len(c) THEN c[i] ELSE b[i - Len(c)]
    BY <1>4, <1>7, ConcatProperties
  <2>2. Len(c) + Len(b) = Len(s) + 1
    BY <1>1, <1>2, <1>4, <1>7
  <2>. QED BY <2>1, <2>2, <1>7
<1>9. ASSUME NEW i \in 1 .. Len(s) + 1
      PROVE  (c \o b)[i] = IF i < k THEN s[i] ELSE IF i = k THEN x ELSE s[i - 1]
  <2>1. CASE i <= k
    <3>1. i \in 1 .. k
      BY <2>1, <1>1, <1>2
    <3>. QED BY <3>1, <1>1, <1>2, <1>7, <1>8
  <2>2. CASE ~(i <= k)
    <3>1. i - k \in 1 .. Len(s) - k + 1 /\ k + (i - k) - 1 = i - 1 /\ ~(i < k) /\ i # k
      BY <2>2, <1>1, <1>2
    <3>2. (c \o b)[i] = b[i - k]
      BY <2>2, <1>8
    <3>. QED BY <3>1, <3>2, <1>4
  <2>. QED BY <2>1, <2>2
<1>. QED BY <1>6, <1>8, <1>9 DEF c

\* new is list with f put in front of its k-th element: behind all newer ones, a rescue
\* kernel last.
PutAt(new, list, f, k) ==
    /\ Len(new) = Len(list) + 1
    /\ \A i \in 1..(Len(list) + 1) :
          new[i] = IF i < k THEN list[i] ELSE IF i = k THEN f ELSE list[i - 1]
    /\ f.class = "rescue" => k = Len(list) + 1
    /\ f.class # "rescue" => \A i \in 1..Len(list) : i < k =>
          list[i].class = "rescue" \/ list[i].time > f.time
    /\ k <= Len(list) => list[k].class # "rescue" /\ f.time >= list[k].time

\* Where AddLoaderListEntry puts a loader.
LEMMA Inserted ==
    ASSUME NEW X, NEW list \in Seq(X), NEW f \in X, \A x \in X : x.time \in Nat
    PROVE  /\ AddLoaderListEntry(list, f) \in Seq(X)
           /\ \E k \in 1..(Len(list) + 1) : PutAt(AddLoaderListEntry(list, f), list, f, k)
<1> DEFINE later == {i \in DOMAIN list : list[i].class # "rescue" /\ f.time >= list[i].time}
           new == AddLoaderListEntry(list, f)
<1>0. \A i \in 1..Len(list) : list[i].time \in Nat /\ list[i] \in X
  OBVIOUS
<1>1. CASE f.class = "rescue" \/ later = {}
  <2>1. new = Append(list, f)
    BY <1>1 DEF AddLoaderListEntry
  <2>2. \A i \in 1..Len(list) : f.class # "rescue" =>
            list[i].class = "rescue" \/ list[i].time > f.time
    BY <1>1, <1>0
  <2>. QED
    <3>. HIDE DEF new, later
    <3>1. PutAt(new, list, f, Len(list) + 1)
      BY <2>1, <2>2 DEF PutAt
    <3>2. Len(list) + 1 \in 1..(Len(list) + 1) /\ new \in Seq(X)
      BY <2>1
    <3>. QED BY <3>1, <3>2 DEF new
<1>2. CASE ~(f.class = "rescue" \/ later = {})
  <2>1. later \in SUBSET Nat /\ later # {}
    BY <1>2
  <2>2. Min(later) \in later /\ \A i \in later : Min(later) <= i
    <3>. HIDE DEF later
    <3>. QED BY <2>1, MinIs
  <2>3. new = InsertAt(list, Min(later), f)
    BY <1>2 DEF AddLoaderListEntry
  <2> DEFINE k == Min(later)
  <2>4. k \in 1..Len(list) /\ list[k].class # "rescue" /\ f.time >= list[k].time
    BY <2>2
  <2>5. \A i \in 1..Len(list) : i < k => list[i].class = "rescue" \/ list[i].time > f.time
    <3>1. \A i \in 1..Len(list) : list[i].class # "rescue" /\ ~(list[i].time > f.time) =>
              i \in later
      BY <1>0
    <3>. HIDE DEF later
    <3>. QED BY <2>2, <2>4, <3>1
  <2>. HIDE DEF k, later, new
  <2>6. /\ new \in Seq(X)
        /\ Len(new) = Len(list) + 1
        /\ \A i \in 1..(Len(list) + 1) :
              new[i] = IF i < k THEN list[i] ELSE IF i = k THEN f ELSE list[i - 1]
    <3>1. k \in DOMAIN list
      BY <2>4
    <3>2. new = InsertAt(list, k, f)
      BY <2>3 DEF k
    <3>3. /\ InsertAt(list, k, f) \in Seq(X)
          /\ Len(InsertAt(list, k, f)) = Len(list) + 1
          /\ \A i \in 1..(Len(list) + 1) : InsertAt(list, k, f)[i] =
                IF i < k THEN list[i] ELSE IF i = k THEN f ELSE list[i - 1]
      BY <3>1, InsertAtIs
    <3>. QED BY <3>2, <3>3, Zenon
  <2>7. k \in 1..(Len(list) + 1)
    BY <2>4
  <2>8. PutAt(new, list, f, k)
    BY <1>2, <2>4, <2>5, <2>6 DEF PutAt
  <2>. QED BY <2>6, <2>7, <2>8 DEF new
<1>. QED BY <1>1, <1>2

\* A sequence of anything is one of its own elements.
LEMMA OwnElements ==
    ASSUME NEW S, NEW s \in Seq(S)
    PROVE  IsSequence(s) /\ ToSet(s) \subseteq S
BY LenProperties, ElementOfSeq DEF IsSequence, ToSet

\* A sequence holds what stands at its places.
LEMMA SequenceFacts ==
    ASSUME NEW s, IsSequence(s)
    PROVE  /\ s \in Seq(ToSet(s)) /\ Len(s) \in Nat /\ DOMAIN s = 1..Len(s)
           /\ \A i \in 1..Len(s) : s[i] \in ToSet(s)
           /\ \A x \in ToSet(s) : \E i \in 1..Len(s) : s[i] = x
BY LenProperties DEF IsSequence, ToSet

\* Two sequences, one behind the other.
LEMMA ConcatIs ==
    ASSUME NEW s, NEW t, IsSequence(s), IsSequence(t)
    PROVE  /\ IsSequence(s \o t) /\ Len(s \o t) = Len(s) + Len(t)
           /\ \A i \in 1..(Len(s) + Len(t)) :
                 (s \o t)[i] = IF i <= Len(s) THEN s[i] ELSE t[i - Len(s)]
           /\ ToSet(s \o t) = ToSet(s) \cup ToSet(t)
<1> DEFINE S == ToSet(s) \cup ToSet(t)
<1>1. s \in Seq(S) /\ t \in Seq(S) /\ Len(s) \in Nat /\ Len(t) \in Nat
  BY SequenceFacts
<1>2. /\ s \o t \in Seq(S) /\ Len(s \o t) = Len(s) + Len(t)
      /\ \A i \in 1..(Len(s) + Len(t)) :
            (s \o t)[i] = IF i <= Len(s) THEN s[i] ELSE t[i - Len(s)]
  <2>. HIDE DEF S
  <2>. QED BY <1>1, ConcatProperties
<1>3. IsSequence(s \o t) /\ ToSet(s \o t) \subseteq S
  <2>. HIDE DEF S
  <2>. QED BY <1>2, OwnElements
<1>4. ASSUME NEW x \in S PROVE x \in ToSet(s \o t)
  <2>0. DOMAIN (s \o t) = 1..(Len(s) + Len(t))
    BY <1>2, LenProperties
  <2>1. CASE x \in ToSet(s)
    <3>1. PICK i \in 1..Len(s) : s[i] = x
      BY <2>1, SequenceFacts
    <3>2. i \in DOMAIN (s \o t) /\ (s \o t)[i] = x
      BY <1>1, <1>2, <2>0, <3>1
    <3>. QED BY <3>2 DEF ToSet
  <2>2. CASE x \in ToSet(t)
    <3>1. PICK i \in 1..Len(t) : t[i] = x
      BY <2>2, SequenceFacts
    <3>2. i + Len(s) \in 1..(Len(s) + Len(t)) /\ ~(i + Len(s) <= Len(s)) /\ i + Len(s) - Len(s) = i
      BY <1>1, <3>1
    <3>3. i + Len(s) \in DOMAIN (s \o t) /\ (s \o t)[i + Len(s)] = x
      BY <1>2, <2>0, <3>1, <3>2
    <3>. QED BY <3>3 DEF ToSet
  <2>. QED BY <2>1, <2>2
<1>. QED BY <1>2, <1>3, <1>4

\* A function on the first naturals is a sequence.
LEMMA FunctionIs ==
    ASSUME NEW S, NEW n \in Nat, NEW s \in [1..n -> S]
    PROVE  s \in Seq(S) /\ Len(s) = n
<1>1. s \in Seq(S)
  BY SeqDef
<1>. QED BY <1>1, LenProperties

\* A sequence of one.
LEMMA SingleIs ==
    ASSUME NEW x PROVE IsSequence(<<x>>) /\ Len(<<x>>) = 1 /\ <<x>>[1] = x /\ ToSet(<<x>>) = {x}
<1>1. <<x>> \in Seq({x}) /\ Len(<<x>>) = 1 /\ <<x>>[1] = x
  OBVIOUS
<1>2. IsSequence(<<x>>) /\ ToSet(<<x>>) \subseteq {x}
  BY <1>1, OwnElements
<1>3. x \in ToSet(<<x>>)
  BY <1>1, <1>2, SequenceFacts
<1>. QED BY <1>1, <1>2, <1>3

\* A menu with an entry behind it.
LEMMA Appended ==
    ASSUME NEW m, IsSequence(m), NEW e
    PROVE  /\ IsSequence(Append(m, e)) /\ Len(Append(m, e)) = Len(m) + 1
           /\ \A i \in 1..(Len(m) + 1) : Append(m, e)[i] = IF i = Len(m) + 1 THEN e ELSE m[i]
           /\ ToSet(Append(m, e)) = ToSet(m) \cup {e}
<1> DEFINE S == ToSet(m) \cup {e}
           new == Append(m, e)
<1>1. m \in Seq(S) /\ e \in S /\ Len(m) \in Nat
  BY SequenceFacts
<1>. HIDE DEF S
<1>2. /\ new \in Seq(S) /\ Len(new) = Len(m) + 1
      /\ \A i \in 1..(Len(m) + 1) : new[i] = IF i = Len(m) + 1 THEN e ELSE m[i]
  BY <1>1, AppendIs, LenProperties
<1>. HIDE DEF new
<1>3. IsSequence(new) /\ ToSet(new) \subseteq S
  BY <1>2, OwnElements
<1>4. ASSUME NEW x \in ToSet(m) PROVE x \in ToSet(new)
  <2>1. PICK i \in 1..Len(m) : m[i] = x
    BY SequenceFacts
  <2>2. i \in 1..Len(new) /\ new[i] = x
    BY <1>1, <1>2, <2>1
  <2>. QED BY <2>2, <1>3, SequenceFacts
<1>5. e \in ToSet(new)
  <2>1. Len(new) \in 1..Len(new) /\ new[Len(new)] = e
    BY <1>1, <1>2
  <2>. QED BY <2>1, <1>3, SequenceFacts
<1>. QED BY <1>2, <1>3, <1>4, <1>5 DEF S, new

\* A menu without one of its entries.
LEMMA Removed ==
    ASSUME NEW m, IsSequence(m), NEW k \in 1..Len(m)
    PROVE  LET new == RemoveAt(m, k) IN
           /\ IsSequence(new) /\ Len(new) = Len(m) - 1
           /\ \A i \in 1..(Len(m) - 1) : new[i] = IF i < k THEN m[i] ELSE m[i + 1]
           /\ ToSet(new) \subseteq ToSet(m)
           /\ \A i \in 1..Len(m) : i # k => m[i] \in ToSet(new)
<1> DEFINE new == RemoveAt(m, k)
<1>1. m \in Seq(ToSet(m)) /\ Len(m) \in Nat /\ DOMAIN m = 1..Len(m)
  BY SequenceFacts, SMTT(60)
<1>2. /\ new \in Seq(ToSet(m)) /\ DOMAIN new = 1..(Len(m) - 1) /\ Len(new) = Len(m) - 1
      /\ \A i \in 1..(Len(m) - 1) : new[i] = IF i < k THEN m[i] ELSE m[i + 1]
  BY <1>1, RemoveAtIs
<1>. HIDE DEF new
<1>3. Len(new) = Len(m) - 1
  BY <1>2
<1>4. IsSequence(new) /\ ToSet(new) \subseteq ToSet(m)
  BY <1>2, OwnElements
<1>5. ASSUME NEW i \in 1..Len(m), i # k PROVE m[i] \in ToSet(new)
  <2>1. CASE i < k
    <3>1. i \in 1..Len(new) /\ new[i] = m[i]
      BY <1>1, <1>2, <1>3, <2>1
    <3>. QED BY <3>1, <1>4, SequenceFacts
  <2>2. CASE ~(i < k)
    <3>1. i - 1 \in 1..Len(new) /\ new[i - 1] = m[i]
      BY <1>1, <1>2, <1>3, <1>5, <2>2
    <3>. QED BY <3>1, <1>4, SequenceFacts
  <2>. QED BY <2>1, <2>2
<1>. QED BY <1>2, <1>3, <1>4, <1>5 DEF new

\* AddLoaderEntry leaves the menu alone or adds one entry at its end.
LEMMA LoaderAdded ==
    ASSUME NEW m, NEW v, NEW n, NEW p
    PROVE  LET e == Entry(n, p, OSType(FileAt(v, p)), 0)
               new == AddLoaderEntry(m, v, n, p)
           IN  /\ new = m \/ new = Append(m, e)
               /\ VolumeScanAllowed(v, TRUE) => new = Append(m, e)
BY DEF AddLoaderEntry

\* An entry with its types, on a machine of size volumes, and a menu of such.
EntryTyped(e, size) ==
    /\ e = [vol |-> e.vol, path |-> e.path, os |-> e.os, bls |-> e.bls, sub |-> e.sub]
    /\ e.vol \in 1..size /\ e.bls \in Nat
    /\ IsSequence(e.sub) /\ \A p \in {e.path} \cup ToSet(e.sub) : IsPath(p)

MenuTyped(m, size) == IsSequence(m) /\ \A e \in ToSet(m) : EntryTyped(e, size)

\* new is menu m with lines times kernel p behind the submenu of the k-th entry.
FoldedInto(new, m, k, p, lines) ==
    LET s == m[k].sub
        t == new[k].sub
    IN  /\ IsSequence(new) /\ Len(new) = Len(m)
        /\ \A i \in 1..Len(m) : i # k => new[i] = m[i]
        /\ new[k] = [vol |-> m[k].vol, path |-> m[k].path, os |-> m[k].os, bls |-> m[k].bls,
                     sub |-> t]
        /\ IsSequence(t) /\ Len(t) = Len(s) + lines
        /\ \A i \in 1..Len(t) : t[i] = IF i <= Len(s) THEN s[i] ELSE p
        /\ ToSet(s) \subseteq ToSet(t) /\ ToSet(t) \subseteq ToSet(s) \cup {p}
        /\ lines > 0 => p \in ToSet(t)

\* AddKernelToSubmenu lengthens one entry's submenu.
LEMMA KernelFolded ==
    ASSUME NEW size, NEW m, MenuTyped(m, size), NEW k \in 1..Len(m),
           NEW v, NEW p, v.options[p[1]] \in Nat
    PROVE  FoldedInto(AddKernelToSubmenu(m, v, k, p), m, k, p, v.options[p[1]])
<1>0. /\ IsSequence(m) /\ IsSequence(m[k].sub)
      /\ m[k] = [vol |-> m[k].vol, path |-> m[k].path, os |-> m[k].os, bls |-> m[k].bls,
                 sub |-> m[k].sub]
  BY SequenceFacts DEF MenuTyped, EntryTyped
<1> DEFINE new == AddKernelToSubmenu(m, v, k, p)
           s == m[k].sub
           lines == [line \in 1..v.options[p[1]] |-> p]
           t == s \o lines
           e == [m[k] EXCEPT !.sub = t]
<1>1. m \in Seq(ToSet(m)) /\ Len(m) \in Nat /\ DOMAIN m = 1..Len(m)
  BY <1>0, SequenceFacts
<1>2. IsSequence(lines) /\ ToSet(lines) \subseteq {p} /\ Len(lines) = v.options[p[1]]
  <2>1. lines \in [1..v.options[p[1]] -> {p}]
    OBVIOUS
  <2>. HIDE DEF lines
  <2>2. lines \in Seq({p}) /\ Len(lines) = v.options[p[1]]
    BY <2>1, FunctionIs
  <2>. QED BY <2>2, OwnElements
<1>3. \A i \in 1..Len(lines) : lines[i] = p
  BY <1>2
<1>. HIDE DEF lines
<1>4. /\ IsSequence(t) /\ Len(t) = Len(s) + Len(lines)
      /\ \A i \in 1..(Len(s) + Len(lines)) :
            t[i] = IF i <= Len(s) THEN s[i] ELSE lines[i - Len(s)]
      /\ ToSet(t) = ToSet(s) \cup ToSet(lines)
  BY <1>0, <1>2, ConcatIs
<1>5. Len(s) \in Nat /\ Len(lines) \in Nat
  BY <1>0, <1>2, SequenceFacts
<1>. HIDE DEF t
<1>6. \A i \in 1..Len(t) : t[i] = IF i <= Len(s) THEN s[i] ELSE p
  <2> SUFFICES ASSUME NEW i \in 1..(Len(s) + Len(lines))
               PROVE  t[i] = IF i <= Len(s) THEN s[i] ELSE p
    BY <1>4
  <2>1. ~(i <= Len(s)) => i - Len(s) \in 1..Len(lines)
    BY <1>5
  <2>. QED BY <2>1, <1>3, <1>4
<1>7. v.options[p[1]] > 0 => p \in ToSet(t)
  <2> HAVE v.options[p[1]] > 0
  <2>1. 1 \in 1..Len(lines)
    BY <1>2, <1>5
  <2>2. lines[1] = p /\ lines[1] \in ToSet(lines)
    BY <2>1, <1>2, <1>3, SequenceFacts
  <2>. QED BY <2>2, <1>4
<1>8. new = [m EXCEPT ![k] = e]
  BY DEF AddKernelToSubmenu, t, lines
<1>9. e = [vol |-> m[k].vol, path |-> m[k].path, os |-> m[k].os, bls |-> m[k].bls, sub |-> t]
  BY <1>0
<1>. HIDE DEF e, new
<1>10. m \in Seq(ToSet(m) \cup {e}) /\ e \in ToSet(m) \cup {e}
  BY <1>1
<1>11. /\ new \in Seq(ToSet(m) \cup {e}) /\ Len(new) = Len(m)
       /\ \A i \in 1..Len(m) : new[i] = IF i = k THEN e ELSE m[i]
  BY <1>8, <1>10, ExceptSeq
<1>12. IsSequence(new)
  BY <1>11, OwnElements
<1>. QED BY <1>2, <1>4, <1>6, <1>7, <1>9, <1>11, <1>12 DEF new, FoldedInto

\* What an entry of loader\entries does to the entries of its kernel: nothing, or the
\* first of several goes.
LEMMA BlindRemoved ==
    ASSUME NEW m, IsSequence(m), NEW n, NEW p
    PROVE  LET new == RemoveBlindLinuxLoaderForBls(m, n, p)
               K == KernelEntries(m, n, p)
           IN  \/ new = m /\ \A i, j \in K : i = j
               \/ \E k, j \in K : /\ k \in 1..Len(m) /\ j \in 1..Len(m) /\ k < j
                                  /\ \A i \in K : k <= i
                                  /\ new = RemoveAt(m, k)
<1> DEFINE K == KernelEntries(m, n, p)
<1>1. K \subseteq 1..Len(m) /\ Len(m) \in Nat
  BY SequenceFacts DEF KernelEntries
<1>2. CASE \E i, j \in K : i < j
  <2>1. Min(K) \in K /\ \A x \in K : Min(K) <= x
    <3>1. K \in SUBSET Nat /\ K # {}
      BY <1>1, <1>2
    <3>. HIDE DEF K
    <3>. QED BY <3>1, MinIs
  <2>2. PICK i \in K, j \in K : i < j
    BY <1>2
  <2>. HIDE DEF K
  <2>3. Min(K) < j /\ Min(K) \in 1..Len(m) /\ j \in 1..Len(m)
    <3>1. i \in 1..Len(m) /\ j \in 1..Len(m) /\ Min(K) \in 1..Len(m) /\ Min(K) <= i
      BY <1>1, <2>1, <2>2
    <3> DEFINE q == Min(K)
    <3>. HIDE DEF q
    <3>2. q \in 1..Len(m) /\ q <= i
      BY <3>1 DEF q
    <3>3. q < j
      BY <3>1, <3>2, <2>2, <1>1
    <3>. QED BY <3>1, <3>3 DEF q
  <2>4. RemoveBlindLinuxLoaderForBls(m, n, p) = RemoveAt(m, Min(K))
    BY <1>2 DEF RemoveBlindLinuxLoaderForBls, K
  <2>. QED BY <2>1, <2>2, <2>3, <2>4 DEF K
<1>3. CASE ~\E i, j \in K : i < j
  <2>1. \A i, j \in K : i = j
    <3>. HIDE DEF K
    <3>. QED BY <1>1, <1>3
  <2>. QED BY <1>3, <2>1 DEF RemoveBlindLinuxLoaderForBls
<1>. QED BY <1>2, <1>3

-----------------------------------------------------------------------------
(* Machines.                                                                *)

\* The sequences of a volume, and its entries.
LEMMA VolumeFacts ==
    ASSUME NEW m \in Machines
    PROVE  /\ IsSequence(m) /\ Len(m) \in Nat /\ DOMAIN m = 1..Len(m)
           /\ \A n \in 1..Len(m) :
                 /\ m[n] \in ToSet(m)
                 /\ IsSequence(m[n].efi) /\ IsSequence(m[n].guids) /\ IsSequence(m[n].entries)
                 /\ \A e \in ToSet(m[n].entries) : IsPath(e.kernel)
<1>1. IsSequence(m) /\ Len(m) \in Nat /\ DOMAIN m = 1..Len(m)
  BY ScanAssumption, SequenceFacts
<1>2. \A n \in 1..Len(m) : m[n] \in ToSet(m)
  BY <1>1 DEF ToSet
<1>. QED BY <1>1, <1>2, ScanAssumption

\* The files of a directory: a file is found under its directory's name and its own.
FilesOK(v, dir) ==
    LET files == FilesIn(v, dir) IN
    /\ IsSequence(files) /\ Len(files) \in Nat /\ DOMAIN files = 1..Len(files)
    /\ \A i \in 1..Len(files) : files[i] \in ToSet(files)
    /\ \A i, j \in 1..Len(files) : files[i].name = files[j].name => i = j
    /\ \A f \in ToSet(files) :
          /\ f.time \in Nat
          /\ Linux(f) => v.options[dir] \in Nat
          /\ f.name = FallbackPath[2] => f.class \notin {"mac", "opencore"}
          /\ FileExists(v, <<dir, f.name>>) /\ FileAt(v, <<dir, f.name>>) = f

\* Every directory of a machine is as FilesOK says.
LEMMA FilesFacts ==
    ASSUME NEW m \in Machines, NEW n \in 1..Len(m), NEW dir
    PROVE  FilesOK(m[n], dir)
<1> DEFINE v == m[n]
           files == FilesIn(v, dir)
<1>1. v \in ToSet(m)
  BY VolumeFacts
<1>2. /\ IsSequence(files)
      /\ \A f \in ToSet(files) :
            /\ f.time \in Nat
            /\ Linux(f) => v.options[dir] \in Nat
            /\ f.name = FallbackPath[2] => f.class \notin {"mac", "opencore"}
      /\ \A i, j \in DOMAIN files : files[i].name = files[j].name => i = j
  <2>1. CASE dir \in Directories(v)
    BY <1>1, <2>1, ScanAssumption
  <2>2. CASE dir \notin Directories(v)
    <3>1. files = <<>> /\ ToSet(files) = {}
      BY <2>2 DEF Directories, FilesIn, ToSet
    <3>. QED BY <3>1 DEF IsSequence
  <2>. QED BY <2>1, <2>2
<1>. HIDE DEF files, v
<1>3. Len(files) \in Nat /\ DOMAIN files = 1..Len(files)
  BY <1>2, SequenceFacts
<1>4. \A i \in 1..Len(files) : files[i] \in ToSet(files)
  BY <1>3 DEF ToSet
<1>5. ASSUME NEW f \in ToSet(files)
      PROVE  FileExists(v, <<dir, f.name>>) /\ FileAt(v, <<dir, f.name>>) = f
  <2>1. FileExists(v, <<dir, f.name>>)
    BY DEF FileExists, files
  <2>2. \A g \in ToSet(files) : g.name = f.name => g = f
    BY <1>2, <1>3 DEF ToSet
  <2>. QED BY <2>1, <2>2 DEF FileAt, files
<1>. QED BY <1>2, <1>3, <1>4, <1>5 DEF files, v, FilesOK

\* A file of a directory, taken from FilesOK.
LEMMA FileIs ==
    ASSUME NEW m \in Machines, NEW n \in 1..Len(m), NEW dir, NEW f \in ToSet(FilesIn(m[n], dir))
    PROVE  /\ f.time \in Nat
           /\ Linux(f) => m[n].options[dir] \in Nat
           /\ f.name = FallbackPath[2] => f.class \notin {"mac", "opencore"}
           /\ FileExists(m[n], <<dir, f.name>>) /\ FileAt(m[n], <<dir, f.name>>) = f
BY FilesFacts DEF FilesOK

\* The file a path leads to.
LEMMA FileAtIs ==
    ASSUME NEW v, NEW p, FileExists(v, p)
    PROVE  FileAt(v, p) \in ToSet(FilesIn(v, p[1])) /\ FileAt(v, p).name = p[2]
BY DEF FileExists, FileAt

\* The names that are looked for are paths.
LEMMA NamedAre ==
    ASSUME NEW v, IsSequence(v.guids)
    PROVE  LET s == MacPaths(v) \o WindowsPaths(v)
           IN  IsSequence(s) /\ \A p \in ToSet(s) : IsPath(p)
<1>1. IsSequence(WindowsPaths(v)) /\ \A p \in ToSet(WindowsPaths(v)) : IsPath(p)
  <2> DEFINE p == <<WindowsDir, "bkpbootmgfw.efi">>
             q == <<WindowsDir, "bootmgfw.efi">>
  <2>1. IsPath(p) /\ IsPath(q)
    BY DEF IsPath
  <2>. HIDE DEF p, q
  <2>2. <<p, q>> \in Seq({p, q}) /\ <<>> \in Seq({p, q})
    OBVIOUS
  <2>3. WindowsPaths(v) = <<p, q>> \/ WindowsPaths(v) = <<>>
    BY DEF WindowsPaths, p, q
  <2>4. IsSequence(WindowsPaths(v)) /\ ToSet(WindowsPaths(v)) \subseteq {p, q}
    BY <2>2, <2>3, OwnElements
  <2>. QED BY <2>1, <2>4
<1>2. IsSequence(MacPaths(v)) /\ \A p \in ToSet(MacPaths(v)) : IsPath(p)
  <2> DEFINE dirs == <<CoreServices>> \o v.guids
             a == [i \in 1..Len(v.guids) + 1 |-> <<dirs[i], "boot.efi">>]
             x == <<CoreServices, "xom.efi">>
             P == {<<dirs[i], "boot.efi">> : i \in 1..Len(v.guids) + 1}
  <2>0. Len(v.guids) + 1 \in Nat
    BY SequenceFacts
  <2>1. a \in Seq(P)
    <3>1. a \in [1..Len(v.guids) + 1 -> P]
      <4>. HIDE DEF dirs
      <4>. QED OBVIOUS
    <3>. QED BY <2>0, <3>1, FunctionIs
  <2>2. \A p \in P : IsPath(p)
    <3>. HIDE DEF dirs
    <3>. QED BY DEF IsPath
  <2>3. IsPath(x)
    BY DEF IsPath
  <2>4. MacPaths(v) = <<>> \/ MacPaths(v) = a \o <<x>>
    BY DEF MacPaths
  <2>. HIDE DEF a, x, P
  <2>5. IsSequence(a) /\ ToSet(a) \subseteq P
    BY <2>1, OwnElements
  <2>6. IsSequence(a \o <<x>>) /\ ToSet(a \o <<x>>) = ToSet(a) \cup {x}
    BY <2>5, SingleIs, ConcatIs
  <2>7. IsSequence(<<>>) /\ ToSet(<<>>) = {}
    BY DEF IsSequence, ToSet
  <2>. QED BY <2>2, <2>3, <2>4, <2>5, <2>6, <2>7
<1>. QED BY <1>1, <1>2, ConcatIs

\* The letters that are gone through are a sequence.
LEMMA LettersAre == \A s \in Settings : IsSequence(Letters(s.scanfor))
<1> SUFFICES ASSUME NEW z \in Settings PROVE IsSequence(Letters(z.scanfor))
  OBVIOUS
<1> DEFINE s == z.scanfor
           K == {i \in DOMAIN s : s[i] \in KnownLetters}
           M == {Len(s), Cardinality(K) + 1}
<1>1. s \in Seq(ToSet(s)) /\ Len(s) \in Nat /\ DOMAIN s = 1..Len(s)
  BY ScanAssumption, SequenceFacts
<1>. HIDE DEF s
<1>2. Cardinality(K) \in Nat
  <2>1. IsFiniteSet(1..Len(s))
    BY <1>1, FS_Interval
  <2>2. K \subseteq 1..Len(s)
    BY <1>1
  <2>. QED BY <2>1, <2>2, FS_Subset, FS_CardinalityType
<1>. HIDE DEF K
<1>3. Min(M) \in M /\ \A x \in M : Min(M) <= x
  <2>1. M \in SUBSET Nat /\ M # {}
    BY <1>1, <1>2
  <2>. HIDE DEF M
  <2>. QED BY <2>1, MinIs
<1>4. Min(M) \in Nat /\ Min(M) <= Len(s)
  BY <1>1, <1>2, <1>3
<1>. HIDE DEF M
<1>5. SubSeq(s, 1, Min(M)) \in Seq(ToSet(s))
  BY <1>1, <1>4
<1>6. IsSequence(SubSeq(s, 1, Min(M)))
  BY <1>5, OwnElements
<1>. QED BY <1>6 DEF Letters, M, K, s

-----------------------------------------------------------------------------
(* The inductive invariant.  What is primed later on is stated of a volume, *)
(* a directory or an entry that a quantifier names.                         *)

Ls == Letters(settings.scanfor)

\* scan is on a volume.
OnVolume == scan.stage \in {"named", "dirs", "also", "entries"}

\* Where the scan is: what each stage of it goes through, and on which volume.
ScanPlace ==
    /\ scan.stage \in {"volumes", "named", "dirs", "also", "entries"} => scan.letter \in 1..Len(Ls)
    /\ scan.stage = "letters" => scan.letter \in 1..(Len(Ls) + 1)
    /\ scan.stage = "volumes" => scan.vol \in 1..(Len(machine) + 1)
    /\ OnVolume => scan.vol \in 1..Len(machine) /\ Visits(scan.vol) /\ scan.done <= Len(scan.todo)
    /\ scan.stage \in {"named", "dirs", "also"} => ~Volume.ventoy /\ patterns # {}
    /\ scan.stage = "entries" => Volume.ventoy \/ patterns # {}
    /\ scan.stage = "named" => scan.todo = MacPaths(Volume) \o WindowsPaths(Volume)
    /\ scan.stage = "dirs" => scan.todo = <<"root">> \o Volume.efi
    /\ scan.stage = "also" => scan.todo = AlsoScanDirs
    /\ scan.stage = "entries" => scan.todo = EntriesOf(Volume)
    /\ scan.stage = "reconcile" => ~launch.apple /\ hasMac /\ hasOC
    /\ scan.stage = "off" => menu = <<>>

\* Where ScanLoaderDir is: only in a directory that is entered, and no further than it goes.
DirPlace ==
    /\ dirScan.at = "out" => dirScan = NoDir
    /\ dirScan.at # "out" =>
          /\ scan.stage \in {"dirs", "also"} /\ (scan.stage = "also" => scan.fallback)
          /\ More /\ EntersDir(Volume, Item)
    /\ dirScan.at = "read" => dirScan.done \in 0..Len(Files) /\ dirScan.first = 0
    /\ dirScan.at = "add" => dirScan.done \in 0..Len(dirScan.list)

Place == ScanPlace /\ DirPlace

\* f may stand in front of g.
Older(f, g) == "rescue" \notin {f.class, g.class} => f.time >= g.time

\* LoaderList of directory dir: the files read so far that are shown, by age, and no
\* rescue kernel in front of one that was read before it.
ListOf(n, dir) ==
    LET files == FilesIn(machine[n], dir)
        list == dirScan.list
        read == IF dirScan.at = "read" THEN dirScan.done ELSE Len(files)
    IN  /\ list \in Seq(ToSet(files))
        /\ \A f \in ToSet(files) :
              f \in ToSet(list) <=> IsShown(machine[n], n, dir, f) /\ \E k \in 1..read : files[k] = f
        /\ \A i, j \in 1..Len(list) : i < j => Older(list[i], list[j])
        /\ \A i, j \in 1..Len(list) : i < j /\ list[i].class = "rescue" =>
              \A a, b \in 1..Len(files) : files[a] = list[i] /\ files[b] = list[j] => a <= b
        /\ dirScan.duplicate => HasTwin(n)

KernelsOf(e) == {e.path} \cup ToSet(e.sub)
FileOf(n, p) == FileAt(machine[n], p)

\* What NewestKernelFirst says of a rescue kernel at the head of a submenu.
ReadFirst(n, p) ==
    FileOf(n, p).class = "rescue" =>
        \A i, j \in 1..Len(FilesIn(machine[n], p[1])) :
            LET files == FilesIn(machine[n], p[1]) IN
            files[i] = FileOf(n, p) /\ Linux(files[j]) /\ IsShown(machine[n], n, p[1], files[j])
            => i <= j

\* An entry starts a file and is of its kind, and its submenu holds kernels of its directory
\* by age.
EntryOK(e) ==
    /\ FileExists(machine[e.vol], e.path)
    /\ e.bls = 0 => e.os = OSType(FileOf(e.vol, e.path))
    /\ e.bls # 0 => e.os = "L" /\ e.sub = <<>>
    /\ e.sub # <<>> => settings.fold /\ e.os = "L" /\ patterns # {} /\ ReadFirst(e.vol, e.path)
    /\ \A q \in ToSet(e.sub) :
          /\ q # FallbackPath /\ q[1] = e.path[1]
          /\ FileExists(machine[e.vol], q) /\ Linux(FileOf(e.vol, q))
          /\ Older(FileOf(e.vol, e.path), FileOf(e.vol, q))
    /\ \A i, j \in 1..Len(e.sub) :
          i < j => Older(FileOf(e.vol, e.sub[i]), FileOf(e.vol, e.sub[j]))

EntriesOK == \A e \in ToSet(menu) : EntryOK(e)

\* The second loop of ScanLoaderDir: who stands for the directory, before whom, and that
\* whatever was gone through can be reached.
AddsOf(n, dir) ==
    LET list == dirScan.list IN
    /\ dirScan.first = 0 => \A j \in 1..dirScan.done : ~Linux(list[j])
    /\ dirScan.first # 0 => \A e \in {menu[dirScan.first]} :
          /\ e.vol = n /\ e.bls = 0 /\ e.os = "L" /\ e.path[1] = dir
          /\ ReadFirst(n, e.path)
          /\ \A q \in KernelsOf(e) : \A j \in (dirScan.done + 1)..Len(list) :
                Older(FileOf(n, q), list[j])
    /\ \A j \in 1..dirScan.done : \A f \in {list[j]} : Reachable(n, dir, f)

DirOK ==
    dirScan.at # "out" => \A n \in {scan.vol}, dir \in {Item} :
        ListOf(n, dir) /\ (dirScan.at = "add" => AddsOf(n, dir))

\* An entry of loader\entries has its kernel on the menu.
ClaimsOK ==
    scan.stage # "off" => \A c \in claims : \E e \in ToSet(menu) :
        e.vol = c[1] /\ e.path = c[2] /\ e.os = "L"

\* Volume n has been scanned under a letter that was gone through.
Passed(n) ==
    \E l \in 1..Len(Ls) : Ls[l] = machine[n].kind /\
       \/ scan.stage \in {"reconcile", "menu"}
       \/ l < scan.letter
       \/ l = scan.letter /\ scan.stage # "letters" /\ n < scan.vol

PassedFound ==
    \A n \in 1..Len(machine) : Passed(n) /\ ~SkipsVolume(machine[n]) =>
        VolumeFound(n) /\ (machine[n].ventoy \/ patterns # {})

\* What has been gone through of scan.todo.
Handled == {scan.todo[j] : j \in 1..scan.done}

DirsFound(n) == \A dir \in {"root"} \cup EfiDirs(machine[n]) : DirFound(n, dir)

\* What has been found on the volume at hand.
FoundOn(n) ==
    /\ ~scan.fallback => HasTwin(n)
    /\ scan.stage = "named" => \A p \in Handled :
          IsThere(machine[n], p) => Reachable(n, p[1], FileOf(n, p))
    /\ scan.stage # "named" => machine[n].ventoy \/ NamedFound(n)
    /\ scan.stage = "dirs" => \A dir \in Handled \cap ({"root"} \cup EfiDirs(machine[n])) :
          DirFound(n, dir)
    /\ scan.stage \in {"also", "entries"} => machine[n].ventoy \/ DirsFound(n)
    /\ scan.stage = "also" => \A dir \in Handled : DirFound(n, dir)
    /\ scan.stage = "entries" =>
          machine[n].ventoy \/ HasTwin(n) \/ \A dir \in ToSet(AlsoScanDirs) : DirFound(n, dir)

Found == OnVolume => \A n \in {scan.vol} : FoundOn(n)

ScanInv ==
    /\ TypeOK /\ Place /\ DirOK /\ EntriesOK /\ ClaimsOK /\ PassedFound /\ Found

\* A new entry has its type.
LEMMA EntryIsTyped ==
    ASSUME NEW k, NEW n \in 1..k, NEW p, IsPath(p), NEW os, NEW b \in Nat
    PROVE  EntryTyped(Entry(n, p, os, b), k)
<1>1. IsSequence(<<>>) /\ ToSet(<<>>) = {}
  BY DEF IsSequence, ToSet
<1>. QED BY <1>1 DEF EntryTyped, Entry

\* A menu keeps its type with an entry of that type behind it.
LEMMA TypedAppend ==
    ASSUME NEW k, NEW m, MenuTyped(m, k), NEW e, EntryTyped(e, k)
    PROVE  MenuTyped(Append(m, e), k)
<1>1. IsSequence(Append(m, e)) /\ ToSet(Append(m, e)) = ToSet(m) \cup {e}
  BY Appended DEF MenuTyped
<1>. QED BY <1>1 DEF MenuTyped

\* A menu keeps its type without one of its entries.
LEMMA TypedRemove ==
    ASSUME NEW k, NEW m, MenuTyped(m, k), NEW i \in 1..Len(m)
    PROVE  MenuTyped(RemoveAt(m, i), k)
<1>1. IsSequence(RemoveAt(m, i)) /\ ToSet(RemoveAt(m, i)) \subseteq ToSet(m)
  BY Removed DEF MenuTyped
<1>. QED BY <1>1 DEF MenuTyped

\* A menu keeps its type with a kernel in a submenu.
LEMMA TypedFold ==
    ASSUME NEW size, NEW m, MenuTyped(m, size), NEW k \in 1..Len(m), NEW new, NEW p, IsPath(p),
           NEW lines, FoldedInto(new, m, k, p, lines)
    PROVE  MenuTyped(new, size)
<1>1. IsSequence(m) /\ m[k] \in ToSet(m) /\ EntryTyped(m[k], size)
  BY SequenceFacts DEF MenuTyped
<1>2. /\ IsSequence(new) /\ Len(new) = Len(m)
      /\ \A i \in 1..Len(m) : i # k => new[i] = m[i]
      /\ new[k] = [vol |-> m[k].vol, path |-> m[k].path, os |-> m[k].os, bls |-> m[k].bls,
                   sub |-> new[k].sub]
      /\ IsSequence(new[k].sub) /\ ToSet(new[k].sub) \subseteq ToSet(m[k].sub) \cup {p}
  BY DEF FoldedInto
<1>3. EntryTyped(new[k], size)
  BY <1>1, <1>2 DEF EntryTyped
<1>4. ASSUME NEW e \in ToSet(new) PROVE EntryTyped(e, size)
  <2>1. PICK j \in 1..Len(new) : new[j] = e
    BY <1>2, SequenceFacts
  <2>2. CASE j # k
    <3>1. e = m[j] /\ m[j] \in ToSet(m)
      BY <1>1, <1>2, <2>1, <2>2, SequenceFacts
    <3>. QED BY <3>1 DEF MenuTyped
  <2>. QED BY <1>3, <2>1, <2>2
<1>. QED BY <1>2, <1>4 DEF MenuTyped

\* The type invariant, split: the menu, the scan and ScanLoaderDir.
ScanTyped ==
    /\ scan.stage \in {"off", "letters", "volumes", "named", "dirs", "also", "entries",
                       "reconcile", "menu", "undefined"}
    /\ DOMAIN scan = DOMAIN Idle
    /\ scan.letter \in Nat /\ scan.vol \in Nat /\ scan.done \in Nat /\ scan.fallback \in BOOLEAN

DirTyped ==
    /\ DOMAIN dirScan = DOMAIN NoDir
    /\ dirScan.at \in {"out", "read", "add"} /\ dirScan.done \in Nat
    /\ dirScan.first \in 0..Len(menu) /\ dirScan.duplicate \in BOOLEAN

\* The type invariant is that of its parts.
LEMMA TypesAre ==
    TypeOK <=> /\ machine \in Machines /\ settings \in Settings /\ launch \in Launches
               /\ patterns \subseteq BOOLEAN /\ hasMac \in BOOLEAN /\ hasOC \in BOOLEAN
               /\ MenuTyped(menu, Len(machine))
               /\ \A c \in claims : IsPath(c) /\ IsPath(c[2])
               /\ ScanTyped /\ DirTyped
BY DEF TypeOK, MenuTyped, EntryTyped, ScanTyped, DirTyped

\* One more is done, and nothing else changes.
LEMMA OnwardTyped ==
    ASSUME ScanTyped
    PROVE  /\ DOMAIN Onward = DOMAIN scan /\ Onward.done = scan.done + 1
           /\ Onward.stage = scan.stage /\ Onward.letter = scan.letter
           /\ Onward.vol = scan.vol /\ Onward.todo = scan.todo
           /\ Onward.fallback = scan.fallback
BY DEF ScanTyped, Onward, Idle

\* The fields of scan after a step that changes some of them.
LEMMA ScanTypedStep ==
    ASSUME ScanTyped,
           Begin \/ NextLetter \/ VolumesDone \/ SkipVolume \/ EnterVentoy \/ EnterVolume
           \/ NamedLoader \/ NamedDone \/ LoaderDirs \/ OwnAndBsd \/ AlsoScanned
           \/ BlsEntry \/ Fallback
           \/ Reconcile \/ KeepEntry \/ DropEntry \/ Reconciled \/ Rescan,
           dirScan.duplicate \in BOOLEAN
    PROVE  ScanTyped'
<1>. USE DEF ScanTyped, Idle
<1>1. CASE Begin BY <1>1 DEF Begin
<1>2. CASE NextLetter BY <1>2 DEF NextLetter
<1>3. CASE VolumesDone BY <1>3 DEF VolumesDone
<1>4. CASE SkipVolume BY <1>4 DEF SkipVolume
<1>5. CASE EnterVentoy BY <1>5 DEF EnterVentoy
<1>6. CASE EnterVolume BY <1>6 DEF EnterVolume
<1>7. CASE NamedLoader
  <2> DEFINE b == scan.fallback /\ ~DuplicatesFallback(Volume, Item)
  <2>1. b \in BOOLEAN
    OBVIOUS
  <2>2. scan' = Onward \/ scan' = [Onward EXCEPT !.fallback = b]
    BY <1>7 DEF NamedLoader, Onward
  <2>. HIDE DEF b
  <2>. QED BY <2>1, <2>2, OnwardTyped
<1>8. CASE NamedDone BY <1>8 DEF NamedDone
<1>9. CASE LoaderDirs
  <2>1. CASE SkipDir BY <2>1 DEF SkipDir, Onward
  <2>2. CASE OpenDir BY <2>2 DEF OpenDir
  <2>3. CASE ReadFile BY <2>3 DEF ReadFile
  <2>4. CASE DirRead BY <2>4 DEF DirRead
  <2>5. CASE FoldKernel BY <2>5 DEF FoldKernel
  <2>6. CASE AddListed BY <2>6 DEF AddListed
  <2>7. CASE DirDone BY <2>7 DEF DirDone, Onward
  <2>. QED BY <1>9, <2>1, <2>2, <2>3, <2>4, <2>5, <2>6, <2>7 DEF LoaderDirs
<1>10. CASE OwnAndBsd BY <1>10 DEF OwnAndBsd
<1>11. CASE AlsoScanned BY <1>11 DEF AlsoScanned
<1>12. CASE BlsEntry
  <2>1. scan' = Onward \/ scan' = [Onward EXCEPT !.stage = "undefined"]
    BY <1>12 DEF BlsEntry
  <2>. QED BY <2>1, OnwardTyped
<1>13. CASE Fallback BY <1>13 DEF Fallback
<1>14. CASE Reconcile BY <1>14 DEF Reconcile
<1>15. CASE KeepEntry BY <1>15 DEF KeepEntry, Onward
<1>16. CASE DropEntry BY <1>16 DEF DropEntry
<1>17. CASE Reconciled BY <1>17 DEF Reconciled
<1>18. CASE Rescan BY <1>18 DEF Rescan
<1>. QED BY <1>1, <1>2, <1>3, <1>4, <1>5, <1>6, <1>7, <1>8, <1>9, <1>10, <1>11, <1>12, <1>13,
            <1>14, <1>15, <1>16, <1>17, <1>18

-----------------------------------------------------------------------------
(* What a step does to the menu.                                            *)

\* What is known of the volume at hand.
LEMMA AtVolume ==
    ASSUME TypeOK, Place, OnVolume
    PROVE  /\ scan.vol \in 1..Len(machine) /\ machine \in Machines
           /\ Volume = machine[scan.vol] /\ ~SkipsVolume(Volume)
           /\ ~Volume.ventoy => VolumeScanAllowed(Volume, TRUE)
BY DEF TypeOK, Place, ScanPlace, DirPlace, Volume, Visits, SkipsVolume

\* What is known of the item at hand.
LEMMA AtItem ==
    ASSUME TypeOK, Place, OnVolume, More
    PROVE  /\ IsSequence(scan.todo) /\ Item \in ToSet(scan.todo)
           /\ scan.done + 1 \in 1..Len(scan.todo)
           /\ scan.stage = "named" => IsPath(Item)
<1>1. /\ IsSequence(Volume.efi) /\ IsSequence(Volume.guids) /\ IsSequence(Volume.entries)
      /\ IsSequence(AlsoScanDirs)
  BY AtVolume, VolumeFacts, ScanAssumption
<1>2. scan.stage = "named" => IsSequence(scan.todo) /\ \A p \in ToSet(scan.todo) : IsPath(p)
  BY <1>1, NamedAre DEF Place, ScanPlace, DirPlace
<1>3. scan.stage = "dirs" => IsSequence(scan.todo)
  <2>1. IsSequence(<<"root">>)
    BY SingleIs
  <2>2. IsSequence(<<"root">> \o Volume.efi)
    BY <1>1, <2>1, ConcatIs
  <2>. QED BY <2>2 DEF Place, ScanPlace, DirPlace
<1>4. scan.stage = "also" => IsSequence(scan.todo)
  BY <1>1 DEF Place, ScanPlace, DirPlace
<1>5. scan.stage = "entries" => IsSequence(scan.todo)
  <2>1. Len(Volume.entries) \in Nat /\ DOMAIN Volume.entries = 1..Len(Volume.entries)
    BY <1>1, SequenceFacts
  <2>2. [i \in DOMAIN Volume.entries |-> i] \in Seq(Nat)
    BY <2>1, FunctionIs
  <2>3. EntriesOf(Volume) \in Seq(Nat)
    BY <2>2 DEF EntriesOf
  <2>4. IsSequence(EntriesOf(Volume))
    BY <2>3, OwnElements
  <2>. QED BY <2>4 DEF Place, ScanPlace, DirPlace
<1>6. IsSequence(scan.todo)
  BY <1>2, <1>3, <1>4, <1>5 DEF OnVolume
<1>7. scan.done + 1 \in 1..Len(scan.todo)
  BY <1>6, SequenceFacts, SMTT(60) DEF More, TypeOK
<1>. QED BY <1>2, <1>6, <1>7, SequenceFacts DEF Item

\* What is known of the file of loader\entries at hand.
LEMMA AtEntry ==
    ASSUME TypeOK, Place, scan.stage = "entries", More
    PROVE  /\ Item \in Nat \ {0} /\ Volume.entries[Item] \in ToSet(Volume.entries)
           /\ IsPath(Volume.entries[Item].kernel)
<1>1. OnVolume
  BY DEF OnVolume
<1>2. IsSequence(Volume.entries) /\ \A e \in ToSet(Volume.entries) : IsPath(e.kernel)
  BY <1>1, AtVolume, VolumeFacts
<1>3. scan.todo = EntriesOf(Volume) /\ scan.done + 1 \in 1..Len(scan.todo)
  BY <1>1, AtItem DEF Place, ScanPlace, DirPlace
<1>4. DOMAIN Volume.entries = 1..Len(Volume.entries) /\ Len(Volume.entries) \in Nat
  BY <1>2, SequenceFacts
<1>5. scan.todo = [i \in DOMAIN Volume.entries |-> i]
  <2>1. EntriesOf(Volume) # <<>>
    BY <1>3
  <2>. QED BY <1>3, <2>1 DEF EntriesOf
<1>6. [i \in DOMAIN Volume.entries |-> i] \in [1..Len(Volume.entries) -> Nat]
  BY <1>4
<1>7. Len(scan.todo) = Len(Volume.entries)
  BY <1>4, <1>5, <1>6, FunctionIs
<1>8. Item = scan.done + 1 /\ Item \in 1..Len(Volume.entries)
  BY <1>3, <1>4, <1>5, <1>7 DEF Item
<1>. QED BY <1>2, <1>4, <1>8, SequenceFacts, SMTT(60)

\* What is known of the loader at hand.
LEMMA AtLoader ==
    ASSUME TypeOK, Place, DirOK, Adds
    PROVE  /\ OnVolume /\ More /\ ~Volume.ventoy
           /\ ListOf(scan.vol, Item) /\ AddsOf(scan.vol, Item)
           /\ Files = FilesIn(machine[scan.vol], Item)
           /\ dirScan.done + 1 \in 1..Len(dirScan.list) /\ Len(dirScan.list) \in Nat
           /\ Loader = dirScan.list[dirScan.done + 1]
           /\ Loader \in ToSet(Files) /\ Loader \in ToSet(dirScan.list)
           /\ IsShown(Volume, scan.vol, Item, Loader)
           /\ FileExists(Volume, <<Item, Loader.name>>)
           /\ FileAt(Volume, <<Item, Loader.name>>) = Loader
           /\ Linux(Loader) => Volume.options[Item] \in Nat
<1>1. OnVolume /\ More /\ ~Volume.ventoy
  BY DEF Place, ScanPlace, DirPlace, Adds, OnVolume
<1>2. ListOf(scan.vol, Item) /\ AddsOf(scan.vol, Item)
  BY DEF DirOK, Adds
<1>3. Files = FilesIn(machine[scan.vol], Item) /\ Volume = machine[scan.vol]
  BY DEF Files, Volume
<1>4. dirScan.list \in Seq(ToSet(Files)) /\ dirScan.done \in Nat
  BY <1>2, <1>3 DEF ListOf, TypeOK
<1>5. dirScan.done + 1 \in 1..Len(dirScan.list) /\ Len(dirScan.list) \in Nat
  BY <1>4 DEF Adds
<1>6. Loader \in ToSet(Files) /\ Loader \in ToSet(dirScan.list)
  <2>1. IsSequence(dirScan.list) /\ ToSet(dirScan.list) \subseteq ToSet(Files)
    BY <1>4, OwnElements
  <2>. QED BY <1>5, <2>1, SequenceFacts DEF Loader
<1>7. IsShown(Volume, scan.vol, Item, Loader)
  BY <1>2, <1>3, <1>6 DEF ListOf
<1>8. /\ FileExists(Volume, <<Item, Loader.name>>)
      /\ FileAt(Volume, <<Item, Loader.name>>) = Loader
      /\ Linux(Loader) => Volume.options[Item] \in Nat
  <2>1. scan.vol \in 1..Len(machine) /\ machine \in Machines
    BY <1>1, AtVolume
  <2> DEFINE v == machine[scan.vol]
  <2>2. \A f \in ToSet(FilesIn(v, Item)) :
          /\ Linux(f) => v.options[Item] \in Nat
          /\ FileExists(v, <<Item, f.name>>) /\ FileAt(v, <<Item, f.name>>) = f
    BY <2>1, FileIs
  <2>. QED BY <1>3, <1>6, <2>2
<1>. QED BY <1>1, <1>2, <1>3, <1>5, <1>6, <1>7, <1>8 DEF Loader

\* A step that is neither Begin nor Rescan.
Running ==
    \/ NextLetter \/ VolumesDone \/ SkipVolume \/ EnterVentoy \/ EnterVolume
    \/ NamedLoader \/ NamedDone \/ LoaderDirs \/ OwnAndBsd \/ AlsoScanned
    \/ BlsEntry \/ Fallback
    \/ Reconcile \/ KeepEntry \/ DropEntry \/ Reconciled

\* A step that puts the loader at p of volume n at the end of the menu.
Added(n, p) ==
    /\ n \in 1..Len(machine) /\ IsPath(p) /\ FileExists(machine[n], p)
    /\ menu' = Append(menu, Entry(n, p, OSType(FileOf(n, p)), 0))

\* What any step leaves alone, and what only grows.
Steady ==
    /\ UNCHANGED <<machine, settings, launch>>
    /\ hasMac => hasMac'
    /\ hasOC => hasOC'
    /\ patterns' = patterns \/ patterns = {}
    /\ claims \subseteq claims'

\* AddLoaderEntry with a file of the volume at hand.
LEMMA AddsEntry ==
    ASSUME TypeOK, Place, OnVolume, NEW p, IsPath(p), FileExists(Volume, p),
           menu' = AddLoaderEntry(menu, Volume, scan.vol, p)
    PROVE  menu' = menu \/ Added(scan.vol, p)
<1>1. scan.vol \in 1..Len(machine) /\ Volume = machine[scan.vol]
  BY AtVolume
<1>2. \/ menu' = menu
      \/ menu' = Append(menu, Entry(scan.vol, p, OSType(FileAt(Volume, p)), 0))
  BY LoaderAdded
<1>. QED BY <1>1, <1>2 DEF Added, FileOf

\* A running scan leaves the disks and the settings alone and forgets nothing.
LEMMA RunningIsSteady == ASSUME Running, TypeOK PROVE Steady
<1>. USE DEF outside, Steady
<1>1. CASE NextLetter \/ VolumesDone \/ SkipVolume \/ EnterVentoy \/ EnterVolume
           \/ NamedDone \/ AlsoScanned \/ Reconcile \/ KeepEntry \/ DropEntry \/ Reconciled
  BY <1>1 DEF NextLetter, VolumesDone, SkipVolume, EnterVentoy, EnterVolume, NamedDone,
              AlsoScanned, Reconcile, KeepEntry, DropEntry, Reconciled
<1>2. CASE NamedLoader
  <2>1. /\ UNCHANGED <<machine, settings, launch, patterns, hasOC, claims>>
        /\ hasMac' = (hasMac \/ Item[2] = "boot.efi") \/ hasMac' = hasMac
    BY <1>2 DEF NamedLoader
  <2>2. hasMac => hasMac'
    BY <2>1, Zenon
  <2>. QED BY <2>1, <2>2
<1>3. CASE SkipDir \/ OpenDir \/ ReadFile \/ DirRead \/ FoldKernel \/ DirDone
  BY <1>3 DEF SkipDir, OpenDir, ReadFile, DirRead, FoldKernel, DirDone
<1>4. CASE AddListed
  <2>1. /\ UNCHANGED <<machine, settings, launch, patterns, hasMac, claims>>
        /\ hasOC' = (hasOC \/ Loader.class = "opencore")
    BY <1>4 DEF AddListed
  <2>2. hasOC => hasOC'
    BY <2>1, Zenon
  <2>. QED BY <2>1, <2>2
<1>5. CASE OwnAndBsd \/ Fallback
  BY <1>5 DEF OwnAndBsd, Fallback
<1>6. CASE BlsEntry
  BY <1>6 DEF BlsEntry
<1>. QED BY <1>1, <1>2, <1>3, <1>4, <1>5, <1>6 DEF Running, LoaderDirs

\* p is what the step looks at, on the volume at hand.
NewPath(p) ==
    \/ NamedLoader /\ p = Item
    \/ AddListed /\ p = <<Item, Loader.name>>
    \/ OwnAndBsd /\ ScanBsdRootLoader(Volume) /\ p = BsdRootLoader(Volume.bsd)
    \/ Fallback /\ p = FallbackPath

\* A step leaves the menu, puts at its end what it looks at, or is one of three.
LEMMA AddSteps ==
    ASSUME TypeOK, Place, DirOK, Running
    PROVE  \/ /\ claims' = claims
              /\ menu' = menu \/ (OnVolume /\ \E p : Added(scan.vol, p) /\ NewPath(p))
           \/ FoldKernel \/ BlsEntry \/ DropEntry
<1>1. CASE NextLetter \/ VolumesDone \/ SkipVolume \/ EnterVentoy \/ EnterVolume
           \/ NamedDone \/ AlsoScanned \/ Reconcile \/ KeepEntry \/ Reconciled
  BY <1>1 DEF NextLetter, VolumesDone, SkipVolume, EnterVentoy, EnterVolume, NamedDone,
              AlsoScanned, Reconcile, KeepEntry, Reconciled
<1>2. CASE NamedLoader
  <2>1. OnVolume /\ More /\ scan.stage = "named" /\ claims' = claims
    BY <1>2 DEF NamedLoader, OnVolume
  <2>2. CASE IsThere(Volume, Item)
    <3>1. menu' = AddLoaderEntry(menu, Volume, scan.vol, Item)
      BY <1>2, <2>2 DEF NamedLoader
    <3>2. IsPath(Item) /\ FileExists(Volume, Item)
      BY <2>1, <2>2, AtItem DEF IsThere
    <3>. QED BY <1>2, <2>1, <3>1, <3>2, AddsEntry DEF NewPath
  <2>3. CASE ~IsThere(Volume, Item)
    BY <1>2, <2>1, <2>3 DEF NamedLoader
  <2>. QED BY <2>2, <2>3
<1>3. CASE SkipDir \/ OpenDir \/ ReadFile \/ DirRead \/ DirDone
  BY <1>3 DEF SkipDir, OpenDir, ReadFile, DirRead, DirDone
<1>4. CASE AddListed
  <2>1. Adds /\ claims' = claims
        /\ menu' = AddLoaderEntry(menu, Volume, scan.vol, <<Item, Loader.name>>)
    BY <1>4 DEF AddListed
  <2>2. IsPath(<<Item, Loader.name>>)
    BY DEF IsPath
  <2>3. OnVolume /\ FileExists(Volume, <<Item, Loader.name>>)
    BY <2>1, AtLoader
  <2>. QED BY <1>4, <2>1, <2>2, <2>3, AddsEntry DEF NewPath
<1>5. CASE OwnAndBsd
  <2>1. OnVolume /\ claims' = claims
    BY <1>5 DEF OwnAndBsd, OnVolume
  <2> DEFINE p == BsdRootLoader(Volume.bsd)
  <2>2. IsPath(p)
    BY DEF BsdRootLoader, IsPath
  <2>3. CASE ScanBsdRootLoader(Volume)
    <3>1. menu' = AddLoaderEntry(menu, Volume, scan.vol, p)
      BY <1>5, <2>3 DEF OwnAndBsd
    <3>2. FileExists(Volume, p)
      BY <2>3 DEF ScanBsdRootLoader, IsValidLoader
    <3>3. NewPath(p)
      BY <1>5, <2>3 DEF NewPath
    <3>. HIDE DEF p
    <3>. QED BY <2>1, <2>2, <3>1, <3>2, <3>3, AddsEntry
  <2>4. CASE ~ScanBsdRootLoader(Volume)
    BY <1>5, <2>1, <2>4 DEF OwnAndBsd
  <2>. QED BY <2>3, <2>4
<1>6. CASE Fallback
  <2>1. OnVolume /\ claims' = claims
    BY <1>6 DEF Fallback, OnVolume
  <2>2. IsPath(FallbackPath)
    BY DEF FallbackPath, IsPath
  <2>3. CASE scan.fallback /\ OffersFallback(Volume)
    <3>1. menu' = AddLoaderEntry(menu, Volume, scan.vol, FallbackPath)
      BY <1>6, <2>3 DEF Fallback
    <3>2. FileExists(Volume, FallbackPath)
      BY <2>3 DEF OffersFallback, IsThere
    <3>. QED BY <1>6, <2>1, <2>2, <3>1, <3>2, AddsEntry DEF NewPath
  <2>4. CASE ~(scan.fallback /\ OffersFallback(Volume))
    BY <1>6, <2>1, <2>4 DEF Fallback
  <2>. QED BY <2>3, <2>4
<1>. QED BY <1>1, <1>2, <1>3, <1>4, <1>5, <1>6 DEF Running, LoaderDirs

\* The same, whatever it looks at.
LEMMA MenuSteps ==
    ASSUME TypeOK, Place, DirOK, Running
    PROVE  \/ claims' = claims /\ (menu' = menu \/ \E n, p : Added(n, p))
           \/ FoldKernel \/ BlsEntry \/ DropEntry
BY AddSteps

\* FoldKernel lengthens the submenu of the first kernel.
LEMMA FoldIs ==
    ASSUME TypeOK, Place, DirOK, FoldKernel
    PROVE  /\ dirScan.first \in 1..Len(menu) /\ settings.fold /\ Linux(Loader)
           /\ Volume.options[Item] \in Nat
           /\ FoldedInto(menu', menu, dirScan.first, <<Item, Loader.name>>, Volume.options[Item])
<1>1. Adds /\ Folds(Loader)
      /\ menu' = AddKernelToSubmenu(menu, Volume, dirScan.first, <<Item, Loader.name>>)
  BY DEF FoldKernel
<1>2. Linux(Loader) /\ dirScan.first # 0 /\ settings.fold
  BY <1>1 DEF Folds
<1>3. Volume.options[Item] \in Nat
  BY <1>1, <1>2, AtLoader
<1>4. MenuTyped(menu, Len(machine)) /\ dirScan.first \in 1..Len(menu)
  BY <1>2, TypesAre DEF DirTyped
<1> DEFINE p == <<Item, Loader.name>>
<1>5. p[1] = Item
  OBVIOUS
<1>6. FoldedInto(AddKernelToSubmenu(menu, Volume, dirScan.first, p), menu, dirScan.first, p,
                 Volume.options[p[1]])
  <2>. HIDE DEF p
  <2>. QED BY <1>3, <1>4, <1>5, KernelFolded
<1>. QED BY <1>1, <1>2, <1>3, <1>4, <1>5, <1>6

\* What an entry of loader\entries does to the menu: its kernel is there behind it, and an
\* earlier entry of the kernel may be gone.
BlsAdded(n, p, b) ==
    /\ IsPath(p) /\ FileExists(machine[n], p) /\ b \in Nat \ {0}
    /\ claims' = claims \cup {<<n, p>>}
    /\ MenuTyped(menu', Len(machine))
    /\ Len(menu) <= Len(menu')
    /\ \A g \in ToSet(menu') : g \in ToSet(menu) \/ g = Entry(n, p, "L", b)
    /\ \E g \in ToSet(menu') : g.vol = n /\ g.path = p /\ g.os = "L"
    /\ \A e \in ToSet(menu) :
          e \in ToSet(menu') \/ (e.vol = n /\ e.path = p /\ e.os = "L")

\* BlsEntry leaves the menu, or puts an entry on it and takes at most one off.
LEMMA BlsIs ==
    ASSUME TypeOK, Place, BlsEntry
    PROVE  \/ menu' = menu /\ claims' = claims
           \/ \E p, b : BlsAdded(scan.vol, p, b)
<1> DEFINE n == scan.vol
           e == Volume.entries[Item]
           p == e.kernel
           new == Entry(n, p, "L", Item)
           added == Append(menu, new)
<1>1. CASE ~IsKernelEntry(Volume, e)
  BY <1>1 DEF BlsEntry
<1>2. CASE IsKernelEntry(Volume, e)
  <2>1. OnVolume /\ scan.stage = "entries" /\ More
    BY DEF BlsEntry, OnVolume
  <2>2. /\ menu' = RemoveBlindLinuxLoaderForBls(added, n, p)
        /\ claims' = claims \cup {<<n, p>>}
    BY <1>2 DEF BlsEntry
  <2>3. IsPath(p) /\ Item \in Nat \ {0}
    BY <2>1, AtEntry
  <2>4. n \in 1..Len(machine) /\ FileExists(machine[n], p)
    BY <1>2, <2>1, AtVolume DEF IsKernelEntry, IsValidLoader
  <2>. HIDE DEF n, p, e
  <2>5. MenuTyped(menu, Len(machine)) /\ IsSequence(menu)
    BY TypesAre DEF MenuTyped
  <2>6. /\ MenuTyped(added, Len(machine)) /\ IsSequence(added)
        /\ Len(added) = Len(menu) + 1 /\ ToSet(added) = ToSet(menu) \cup {new}
    <3>1. EntryTyped(new, Len(machine))
      BY <2>3, <2>4, EntryIsTyped
    <3>. HIDE DEF new
    <3>2. MenuTyped(added, Len(machine))
      BY <2>5, <3>1, TypedAppend
    <3>. QED BY <2>5, <3>2, Appended
  <2>7. new.vol = n /\ new.path = p /\ new.os = "L"
    BY DEF Entry
  <2>8. Len(menu) \in Nat
    BY <2>5, SequenceFacts
  <2>. HIDE DEF new, added
  <2>9. \A i \in 1..Len(added) : added[i] \in ToSet(added)
    BY <2>6, SequenceFacts
  <2>10. CASE menu' = added
    <3>1. BlsAdded(n, p, Item)
      BY <2>2, <2>3, <2>4, <2>6, <2>7, <2>8, <2>10 DEF BlsAdded, new
    <3>. QED BY <3>1 DEF n
  <2>11. CASE menu' # added
    <3> DEFINE K == KernelEntries(added, n, p)
    <3>1. PICK k \in K, j \in K : /\ k \in 1..Len(added) /\ j \in 1..Len(added) /\ k < j
                                  /\ menu' = RemoveAt(added, k)
      BY <2>2, <2>6, <2>11, BlindRemoved
    <3>2. /\ added[k].vol = n /\ added[k].os = "L" /\ added[k].path = p
          /\ added[j].vol = n /\ added[j].os = "L" /\ added[j].path = p
      BY DEF KernelEntries
    <3>3. /\ IsSequence(menu') /\ Len(menu') = Len(added) - 1
          /\ ToSet(menu') \subseteq ToSet(added)
          /\ \A i \in 1..Len(added) : i # k => added[i] \in ToSet(menu')
      BY <2>6, <3>1, Removed
    <3>4. MenuTyped(menu', Len(machine))
      BY <2>6, <3>1, TypedRemove
    <3>5. added[j] \in ToSet(menu')
      BY <3>1, <3>3
    <3>6. ASSUME NEW f \in ToSet(menu)
          PROVE  f \in ToSet(menu') \/ (f.vol = n /\ f.path = p /\ f.os = "L")
      <4>1. PICK i \in 1..Len(added) : added[i] = f
        BY <2>6, SequenceFacts
      <4>. QED BY <3>1, <3>2, <3>3, <4>1
    <3>. HIDE DEF K
    <3>7. Len(menu) <= Len(menu')
      BY <2>6, <2>8, <3>3
    <3>8. BlsAdded(n, p, Item)
      BY <2>2, <2>3, <2>4, <2>6, <3>2, <3>3, <3>4, <3>5, <3>6, <3>7 DEF BlsAdded, new
    <3>. QED BY <3>8 DEF n
  <2>. QED BY <2>10, <2>11
<1>. QED BY <1>1, <1>2

\* DropEntry takes one entry that cannot be booted.
LEMMA DropIs ==
    ASSUME TypeOK, Place, DropEntry
    PROVE  /\ MenuTyped(menu', Len(machine)) /\ claims' = claims
           /\ ToSet(menu') \subseteq ToSet(menu)
           /\ \A e \in ToSet(menu) : e \in ToSet(menu') \/ ~Bootable(e)
           /\ ~launch.apple /\ hasMac /\ hasOC
<1> DEFINE k == scan.done + 1
<1>1. IsSequence(menu) /\ MenuTyped(menu, Len(machine)) /\ Len(menu) \in Nat
  BY TypesAre, SequenceFacts DEF MenuTyped
<1>2. /\ scan.stage = "reconcile" /\ scan.done < Len(menu) /\ ~Bootable(menu[k])
      /\ menu' = RemoveAt(menu, k) /\ claims' = claims
  BY DEF DropEntry
<1>3. k \in 1..Len(menu)
  BY <1>1, <1>2 DEF TypeOK
<1>. HIDE DEF k
<1>4. /\ ToSet(menu') \subseteq ToSet(menu)
      /\ \A i \in 1..Len(menu) : i # k => menu[i] \in ToSet(menu')
  BY <1>1, <1>2, <1>3, Removed
<1>5. ASSUME NEW e \in ToSet(menu) PROVE e \in ToSet(menu') \/ ~Bootable(e)
  <2>1. PICK i \in 1..Len(menu) : menu[i] = e
    BY <1>1, SequenceFacts
  <2>2. CASE i # k BY <1>4, <2>1, <2>2
  <2>3. CASE i = k BY <1>2, <2>1, <2>3
  <2>. QED BY <2>2, <2>3
<1>6. MenuTyped(menu', Len(machine))
  BY <1>1, <1>2, <1>3, TypedRemove
<1>7. ~launch.apple /\ hasMac /\ hasOC
  BY <1>2 DEF Place, ScanPlace, DirPlace
<1>. QED BY <1>2, <1>4, <1>5, <1>6, <1>7

\* An entry more at the end.
LEMMA AddedIs ==
    ASSUME TypeOK, NEW n, NEW p, Added(n, p)
    PROVE  LET new == Entry(n, p, OSType(FileOf(n, p)), 0) IN
           /\ MenuTyped(menu', Len(machine)) /\ Len(menu') = Len(menu) + 1
           /\ ToSet(menu') = ToSet(menu) \cup {new}
           /\ menu'[Len(menu) + 1] = new
           /\ \A i \in 1..Len(menu) : menu'[i] = menu[i]
<1> DEFINE new == Entry(n, p, OSType(FileOf(n, p)), 0)
<1>1. IsSequence(menu) /\ MenuTyped(menu, Len(machine)) /\ Len(menu) \in Nat
  BY TypesAre, SequenceFacts DEF MenuTyped
<1>2. menu' = Append(menu, new) /\ n \in 1..Len(machine) /\ IsPath(p)
  BY DEF Added
<1>3. EntryTyped(new, Len(machine))
  BY <1>2, EntryIsTyped
<1>. HIDE DEF new
<1>4. MenuTyped(menu', Len(machine))
  BY <1>1, <1>2, <1>3, TypedAppend
<1>5. /\ Len(menu') = Len(menu) + 1
      /\ \A i \in 1..(Len(menu) + 1) : menu'[i] = IF i = Len(menu) + 1 THEN new ELSE menu[i]
      /\ ToSet(menu') = ToSet(menu) \cup {new}
  BY <1>1, <1>2, Appended
<1>. QED BY <1>1, <1>4, <1>5 DEF new

-----------------------------------------------------------------------------
(* The types.                                                               *)

\* A step of the scan leaves a menu; only DropEntry makes it shorter.
LEMMA MenuStays ==
    ASSUME TypeOK, Place, DirOK, Running
    PROVE  /\ MenuTyped(menu', Len(machine))
           /\ Len(menu) <= Len(menu') \/ DropEntry
           /\ \A c \in claims' : IsPath(c) /\ IsPath(c[2])
<1>1. MenuTyped(menu, Len(machine)) /\ \A c \in claims : IsPath(c) /\ IsPath(c[2])
  BY TypesAre
<1>2. Len(menu) \in Nat
  BY <1>1, SequenceFacts DEF MenuTyped
<1>3. CASE claims' = claims /\ menu' = menu
  BY <1>1, <1>2, <1>3
<1>4. CASE claims' = claims /\ \E n, p : Added(n, p)
  <2>1. PICK n, p : Added(n, p)
    BY <1>4
  <2>2. MenuTyped(menu', Len(machine)) /\ Len(menu') = Len(menu) + 1
    BY <2>1, AddedIs
  <2>. QED BY <1>1, <1>2, <1>4, <2>2
<1>5. CASE FoldKernel
  <2> DEFINE p == <<Item, Loader.name>>
  <2>1. /\ dirScan.first \in 1..Len(menu)
        /\ FoldedInto(menu', menu, dirScan.first, p, Volume.options[Item])
    BY <1>5, FoldIs
  <2>2. IsPath(p)
    BY DEF IsPath
  <2>. HIDE DEF p
  <2>3. MenuTyped(menu', Len(machine))
    BY <1>1, <2>1, <2>2, TypedFold
  <2>4. Len(menu') = Len(menu)
    BY <2>1 DEF FoldedInto
  <2>5. claims' = claims
    BY <1>5 DEF FoldKernel
  <2>. QED BY <1>1, <1>2, <2>3, <2>4, <2>5
<1>6. CASE BlsEntry
  <2>1. CASE menu' = menu /\ claims' = claims
    BY <1>1, <1>2, <2>1
  <2>2. CASE \E p, b : BlsAdded(scan.vol, p, b)
    <3>1. PICK p, b : BlsAdded(scan.vol, p, b)
      BY <2>2
    <3>2. IsPath(<<scan.vol, p>>) /\ <<scan.vol, p>>[2] = p
      BY DEF IsPath
    <3>. QED BY <1>1, <3>1, <3>2 DEF BlsAdded
  <2>. QED BY <1>6, <2>1, <2>2, BlsIs
<1>7. CASE DropEntry
  BY <1>1, <1>7, DropIs
<1>. QED BY <1>3, <1>4, <1>5, <1>6, <1>7, MenuSteps

\* ScanLoaderDir is not entered: nothing of it is left over.
LEMMA NotInDir ==
    ASSUME TypeOK, Place, scan.stage \notin {"dirs", "also"}
    PROVE  dirScan = NoDir
BY DEF Place, ScanPlace, DirPlace, TypeOK

\* FirstKernel stays a place of the menu.
LEMMA DirTypedStep ==
    ASSUME TypeOK, Place, DirOK, Running, DirTyped
    PROVE  DirTyped'
<1>1. Len(menu) \in Nat /\ Len(menu') \in Nat /\ IsSequence(menu)
  BY MenuStays, TypesAre, SequenceFacts DEF MenuTyped
<1>2. CASE UNCHANGED dirScan
  <2>1. CASE Len(menu) <= Len(menu')
    BY <1>1, <1>2, <2>1 DEF DirTyped
  <2>2. CASE DropEntry
    <3>1. dirScan = NoDir
      BY <2>2, NotInDir DEF DropEntry
    <3>. QED BY <1>1, <1>2, <3>1 DEF DirTyped, NoDir
  <2>. QED BY <2>1, <2>2, MenuStays
<1>3. CASE OpenDir
  BY <1>1, <1>3 DEF OpenDir, DirTyped, NoDir
<1>4. CASE ReadFile
  <2> DEFINE f == Files[dirScan.done + 1]
             next == [dirScan EXCEPT !.done = @ + 1]
             b == dirScan.duplicate \/ DuplicatesFallback(Volume, <<Item, f.name>>)
             list == AddLoaderListEntry(dirScan.list, f)
  <2>1. UNCHANGED menu
        /\ \/ dirScan' = next
           \/ dirScan' = [next EXCEPT !.list = list, !.duplicate = b]
    BY <1>4 DEF ReadFile
  <2>2. b \in BOOLEAN
    OBVIOUS
  <2>. HIDE DEF b, f, list
  <2>3. /\ DOMAIN next = DOMAIN dirScan /\ next.at = dirScan.at /\ next.done = dirScan.done + 1
        /\ next.first = dirScan.first /\ next.duplicate = dirScan.duplicate
    BY DEF DirTyped, NoDir
  <2>. HIDE DEF next
  <2>4. CASE dirScan' = next
    BY <2>1, <2>3, <2>4 DEF DirTyped
  <2>5. CASE dirScan' = [next EXCEPT !.list = list, !.duplicate = b]
    <3>1. /\ DOMAIN dirScan' = DOMAIN next /\ dirScan'.at = next.at
          /\ dirScan'.done = next.done /\ dirScan'.first = next.first
          /\ dirScan'.duplicate = b
      BY <2>3, <2>5 DEF DirTyped, NoDir
    <3>. QED BY <2>1, <2>2, <2>3, <3>1 DEF DirTyped
  <2>. QED BY <2>1, <2>4, <2>5
<1>5. CASE DirRead
  BY <1>5 DEF DirRead, DirTyped, NoDir
<1>6. CASE FoldKernel
  <2>1. Len(menu) <= Len(menu')
    BY <1>6, MenuStays DEF FoldKernel, DropEntry, Adds, Place, ScanPlace, DirPlace
  <2>. QED BY <1>1, <1>6, <2>1 DEF FoldKernel, DirTyped, NoDir
<1>7. CASE AddListed
  <2>1. Adds /\ menu' = AddLoaderEntry(menu, Volume, scan.vol, <<Item, Loader.name>>)
    BY <1>7 DEF AddListed
  <2>2. VolumeScanAllowed(Volume, TRUE)
    BY <2>1, AtLoader, AtVolume
  <2>3. Len(menu') = Len(menu) + 1
    <3> DEFINE e == Entry(scan.vol, <<Item, Loader.name>>,
                          OSType(FileAt(Volume, <<Item, Loader.name>>)), 0)
    <3>1. menu' = Append(menu, e)
      BY <2>1, <2>2, LoaderAdded
    <3>. HIDE DEF e
    <3>. QED BY <1>1, <3>1, Appended
  <2> DEFINE k == IF Linux(Loader) /\ dirScan.first = 0 THEN Len(menu) + 1 ELSE dirScan.first
  <2>4. dirScan' = [dirScan EXCEPT !.done = @ + 1, !.first = k]
    BY <1>7 DEF AddListed
  <2>5. k \in 0..Len(menu')
    BY <1>1, <2>3 DEF DirTyped
  <2>. HIDE DEF k
  <2>. QED BY <2>4, <2>5 DEF DirTyped, NoDir
<1>8. CASE DirDone
  BY <1>1, <1>8 DEF DirDone, DirTyped, NoDir
<1>9. CASE ~LoaderDirs \/ SkipDir
  <2>1. UNCHANGED dirScan
    BY <1>9 DEF Running, NextLetter, VolumesDone, SkipVolume, EnterVentoy, EnterVolume, NamedLoader,
       NamedDone, OwnAndBsd, AlsoScanned, BlsEntry, Fallback, Reconcile, KeepEntry, DropEntry,
       Reconciled, SkipDir, LoaderDirs
  <2>. QED BY <1>2, <2>1
<1>. QED BY <1>3, <1>4, <1>5, <1>6, <1>7, <1>8, <1>9 DEF LoaderDirs

\* Begin and Rescan empty the menu.
LEMMA Restarts ==
    ASSUME TypeOK, Place, Begin \/ Rescan
    PROVE  /\ menu' = <<>> /\ dirScan' = NoDir /\ dirScan = NoDir
           /\ ToSet(menu') = {} /\ Len(menu') = 0 /\ IsSequence(menu')
           /\ UNCHANGED <<launch, patterns, hasMac, hasOC>>
<1>1. scan.stage \in {"off", "menu"}
  BY DEF Begin, Rescan
<1>2. dirScan = NoDir
  BY <1>1, NotInDir
<1>3. menu' = <<>> /\ dirScan' = dirScan /\ UNCHANGED <<launch, patterns, hasMac, hasOC>>
  BY DEF Begin, Rescan, outside
<1>. QED BY <1>2, <1>3 DEF ToSet, IsSequence

\* A step keeps the types.
LEMMA TypeStep ==
    ASSUME TypeOK, Place, DirOK, [Next]_vars
    PROVE  TypeOK'
<1>0. /\ machine \in Machines /\ settings \in Settings /\ launch \in Launches
      /\ patterns \subseteq BOOLEAN /\ hasMac \in BOOLEAN /\ hasOC \in BOOLEAN
      /\ MenuTyped(menu, Len(machine))
      /\ \A c \in claims : IsPath(c) /\ IsPath(c[2])
      /\ ScanTyped /\ DirTyped
  BY TypesAre
<1>1. SUFFICES
        /\ machine' \in Machines /\ settings' \in Settings /\ launch' \in Launches
        /\ patterns' \subseteq BOOLEAN /\ hasMac' \in BOOLEAN /\ hasOC' \in BOOLEAN
        /\ MenuTyped(menu', Len(machine'))
        /\ \A c \in claims' : IsPath(c) /\ IsPath(c[2])
        /\ ScanTyped' /\ DirTyped'
  BY DEF TypeOK, MenuTyped, EntryTyped, ScanTyped, DirTyped
<1>2. CASE UNCHANGED vars
  BY <1>0, <1>2 DEF vars, ScanTyped, DirTyped
<1>3. CASE Begin \/ Rescan
  <2>1. /\ menu' = <<>> /\ dirScan' = NoDir /\ ToSet(menu') = {} /\ Len(menu') = 0
        /\ IsSequence(menu') /\ UNCHANGED <<launch, patterns, hasMac, hasOC>>
    BY <1>3, Restarts
  <2>2. machine' \in Machines /\ settings' \in Settings /\ (claims' = {} \/ claims' = claims)
    BY <1>0, <1>3 DEF Begin, Rescan, outside
  <2>3. ScanTyped'
    BY <1>0, <1>3, ScanTypedStep DEF DirTyped
  <2>. QED BY <1>0, <2>1, <2>2, <2>3 DEF MenuTyped, DirTyped, NoDir
<1>4. CASE Running
  <2>1. UNCHANGED <<machine, settings, launch>>
    BY <1>4, RunningIsSteady DEF Steady
  <2>2. MenuTyped(menu', Len(machine)) /\ \A c \in claims' : IsPath(c) /\ IsPath(c[2])
    BY <1>4, MenuStays
  <2>3. ScanTyped'
    BY <1>0, <1>4, ScanTypedStep DEF DirTyped, Running
  <2>4. DirTyped'
    BY <1>0, <1>4, DirTypedStep
  <2>5. patterns' \subseteq BOOLEAN /\ hasMac' \in BOOLEAN /\ hasOC' \in BOOLEAN
    <3>1. hasMac' \in BOOLEAN
      <4>1. hasMac' = hasMac \/ hasMac' = (hasMac \/ Item[2] = "boot.efi")
        BY <1>4 DEF Running, NextLetter, VolumesDone, SkipVolume, EnterVentoy, EnterVolume,
           NamedLoader, NamedDone, OwnAndBsd, AlsoScanned, BlsEntry, Fallback, Reconcile,
           KeepEntry, DropEntry, Reconciled, LoaderDirs, SkipDir, OpenDir, ReadFile, DirRead,
           FoldKernel, AddListed, DirDone
      <4>. QED BY <1>0, <4>1, Zenon
    <3>2. hasOC' \in BOOLEAN
      <4>1. hasOC' = hasOC \/ hasOC' = (hasOC \/ Loader.class = "opencore")
        BY <1>4 DEF Running, NextLetter, VolumesDone, SkipVolume, EnterVentoy, EnterVolume,
           NamedLoader, NamedDone, OwnAndBsd, AlsoScanned, BlsEntry, Fallback, Reconcile,
           KeepEntry, DropEntry, Reconciled, LoaderDirs, SkipDir, OpenDir, ReadFile, DirRead,
           FoldKernel, AddListed, DirDone
      <4>. QED BY <1>0, <4>1, Zenon
    <3>3. patterns' = patterns \/ patterns' = {settings.plain}
      BY <1>4 DEF Running, NextLetter, VolumesDone, SkipVolume, EnterVentoy, EnterVolume,
         NamedLoader, NamedDone, OwnAndBsd, AlsoScanned, BlsEntry, Fallback, Reconcile,
         KeepEntry, DropEntry, Reconciled, LoaderDirs, SkipDir, OpenDir, ReadFile, DirRead,
         FoldKernel, AddListed, DirDone
    <3>4. settings.plain \in BOOLEAN
      BY <1>0, ScanAssumption
    <3>. QED BY <1>0, <3>1, <3>2, <3>3, <3>4
  <2>. QED BY <1>0, <2>1, <2>2, <2>3, <2>4, <2>5
<1>. QED BY <1>2, <1>3, <1>4 DEF Next, Running

-----------------------------------------------------------------------------
(* The entries.                                                             *)

\* An entry that was as it should be stays so: claims only grow, so that fewer files are
\* shown, and the patterns are made once.
LEMMA EntryStays ==
    ASSUME Steady, NEW e, EntryOK(e)
    PROVE  EntryOK(e)'
<1>1. machine' = machine /\ settings' = settings
  BY DEF Steady
<1>2. ASSUME e.sub # <<>> PROVE ReadFirst(e.vol, e.path)'
  <2>1. ReadFirst(e.vol, e.path) /\ patterns' = patterns /\ claims \subseteq claims'
    BY <1>2 DEF EntryOK, Steady
  <2>2. \A v, n, dir, f : IsShown(v, n, dir, f)' => IsShown(v, n, dir, f)
    BY <2>1, ZenonT(60) DEF IsShown, IsLoader
  <2>. HIDE DEF IsShown
  <2>. QED BY <1>1, <2>1, <2>2, ZenonT(60) DEF ReadFirst, FileOf, IsShown, IsLoader
<1>3. e.sub # <<>> => patterns' # {}
  BY DEF EntryOK, Steady
<1>. QED BY <1>1, <1>2, <1>3 DEF EntryOK, FileOf

\* An entry without a submenu.
LEMMA NewEntryOK ==
    ASSUME NEW n, NEW p, FileExists(machine[n], p), NEW os, NEW b \in Nat,
           b = 0 => os = OSType(FileOf(n, p)), b # 0 => os = "L"
    PROVE  EntryOK(Entry(n, p, os, b))
<1> DEFINE e == Entry(n, p, os, b)
<1>1. e.vol = n /\ e.path = p /\ e.os = os /\ e.bls = b /\ e.sub = <<>>
  BY DEF Entry
<1>2. ToSet(<<>>) = {} /\ Len(<<>>) = 0
  BY DEF ToSet
<1>. HIDE DEF e
<1>3. EntryOK(e)
  BY <1>1, <1>2 DEF EntryOK
<1>. QED BY <1>3 DEF e

\* The first kernel with one more behind it.
LEMMA FoldedOK ==
    ASSUME TypeOK, Place, DirOK, EntriesOK, FoldKernel,
           NEW new, new = menu'[dirScan.first]
    PROVE  EntryOK(new)
<1> DEFINE n == scan.vol
           p == <<Item, Loader.name>>
           old == menu[dirScan.first]
           s == old.sub
           t == new.sub
<1>1. /\ dirScan.first \in 1..Len(menu) /\ settings.fold /\ Linux(Loader)
      /\ FoldedInto(menu', menu, dirScan.first, p, Volume.options[Item])
  BY FoldIs
<1>2. /\ Adds /\ OnVolume /\ AddsOf(n, Item) /\ Volume = machine[n]
      /\ dirScan.done + 1 \in 1..Len(dirScan.list) /\ Loader = dirScan.list[dirScan.done + 1]
      /\ Loader \in ToSet(Files) /\ Files = FilesIn(machine[n], Item)
      /\ IsShown(Volume, n, Item, Loader)
      /\ FileExists(Volume, p) /\ FileAt(Volume, p) = Loader
  BY AtLoader DEF FoldKernel, Volume
<1>3. old \in ToSet(menu) /\ EntryOK(old)
  <2>1. IsSequence(menu)
    BY TypesAre DEF MenuTyped
  <2>. QED BY <1>1, <2>1, SequenceFacts DEF EntriesOK
<1>4. /\ new.vol = old.vol /\ new.path = old.path /\ new.os = old.os /\ new.bls = old.bls
      /\ Len(t) = Len(s) + Volume.options[Item]
      /\ \A i \in 1..Len(t) : t[i] = IF i <= Len(s) THEN s[i] ELSE p
      /\ ToSet(t) \subseteq ToSet(s) \cup {p}
  <2>1. new = [vol |-> old.vol, path |-> old.path, os |-> old.os, bls |-> old.bls, sub |-> t]
    BY <1>1 DEF FoldedInto
  <2>2. new.vol = old.vol /\ new.path = old.path /\ new.os = old.os /\ new.bls = old.bls
    <3>. HIDE DEF old, t
    <3>. QED BY <2>1
  <2>3. /\ Len(t) = Len(s) + Volume.options[Item]
        /\ \A i \in 1..Len(t) : t[i] = IF i <= Len(s) THEN s[i] ELSE p
        /\ ToSet(t) \subseteq ToSet(s) \cup {p}
    BY <1>1 DEF FoldedInto
  <2>. QED BY <2>2, <2>3
<1>5. /\ old.vol = n /\ old.bls = 0 /\ old.os = "L" /\ old.path[1] = Item
      /\ ReadFirst(n, old.path)
      /\ \A q \in KernelsOf(old) : Older(FileOf(n, q), Loader)
  <2>1. dirScan.done + 1 \in (dirScan.done + 1)..Len(dirScan.list)
    BY <1>2 DEF TypeOK
  <2>. QED BY <1>1, <1>2, <2>1 DEF AddsOf
<1>6. p # FallbackPath /\ p[1] = Item /\ FileExists(machine[n], p) /\ FileOf(n, p) = Loader
  BY <1>2 DEF IsShown, IsLoader, FileOf
<1>7. patterns # {}
  BY <1>2 DEF Place, ScanPlace, DirPlace, Adds
<1>8. Older(Loader, Loader)
  <2>1. Loader.time \in Nat
    BY <1>2, AtVolume, FileIs
  <2>. QED BY <2>1 DEF Older
<1>9. IsSequence(s) /\ Len(s) \in Nat
  <2>1. EntryTyped(old, Len(machine))
    BY <1>3, TypesAre DEF MenuTyped
  <2>. QED BY <2>1, SequenceFacts DEF EntryTyped
<1>. HIDE DEF n, p, old, s, t
<1>10. ASSUME NEW q \in ToSet(t)
       PROVE  /\ q # FallbackPath /\ q[1] = new.path[1]
              /\ FileExists(machine[new.vol], q) /\ Linux(FileOf(new.vol, q))
              /\ Older(FileOf(new.vol, new.path), FileOf(new.vol, q))
  <2>1. CASE q \in ToSet(s)
    BY <1>3, <1>4, <2>1 DEF EntryOK, s
  <2>2. CASE q = p
    <3>1. Older(FileOf(n, old.path), Loader)
      BY <1>5 DEF KernelsOf
    <3>. QED BY <1>1, <1>4, <1>5, <1>6, <2>2, <3>1
  <2>. QED BY <1>4, <2>1, <2>2
<1>11. ASSUME NEW i \in 1..Len(t), NEW j \in 1..Len(t), i < j
       PROVE  Older(FileOf(new.vol, t[i]), FileOf(new.vol, t[j]))
  <2>1. CASE j <= Len(s)
    <3>1. i \in 1..Len(s) /\ j \in 1..Len(s) /\ t[i] = s[i] /\ t[j] = s[j]
      BY <1>4, <1>9, <1>11, <2>1
    <3>. QED BY <1>3, <1>4, <1>11, <3>1 DEF EntryOK, s
  <2>2. CASE ~(j <= Len(s)) /\ i <= Len(s)
    <3>1. i \in 1..Len(s) /\ t[i] = s[i] /\ t[j] = p
      BY <1>4, <1>9, <2>2
    <3>2. s[i] \in KernelsOf(old)
      BY <1>9, <3>1, SequenceFacts DEF KernelsOf, s
    <3>. QED BY <1>4, <1>5, <1>6, <3>1, <3>2
  <2>3. CASE ~(j <= Len(s)) /\ ~(i <= Len(s))
    BY <1>4, <1>5, <1>6, <1>8, <2>3
  <2>. QED BY <2>1, <2>2, <2>3
<1>12. /\ FileExists(machine[new.vol], new.path)
       /\ new.bls = 0 /\ new.os = OSType(FileOf(new.vol, new.path)) /\ new.os = "L"
       /\ ReadFirst(new.vol, new.path)
  BY <1>3, <1>4, <1>5 DEF EntryOK
<1>. QED BY <1>1, <1>7, <1>10, <1>11, <1>12 DEF EntryOK, t

\* A step keeps every entry as it should be.
LEMMA EntriesStep ==
    ASSUME TypeOK, Place, DirOK, EntriesOK, [Next]_vars
    PROVE  EntriesOK'
<1>0. IsSequence(menu)
  BY TypesAre DEF MenuTyped
<1>1. CASE UNCHANGED vars
  <2>1. Steady /\ menu' = menu
    BY <1>1 DEF vars, Steady
  <2>2. \A e \in ToSet(menu) : EntryOK(e)'
    BY <2>1, EntryStays DEF EntriesOK
  <2>. QED BY <2>1, <2>2 DEF EntriesOK
<1>2. CASE Begin \/ Rescan
  BY <1>2, Restarts DEF EntriesOK
<1>3. CASE Running
  <2>1. Steady
    BY <1>3, RunningIsSteady
  <2>2. SUFFICES ASSUME NEW e \in ToSet(menu'), e \notin ToSet(menu) PROVE EntryOK(e)
    <3>1. \A e \in ToSet(menu') : EntryOK(e)
      BY <2>2 DEF EntriesOK
    <3>2. \A e \in ToSet(menu') : EntryOK(e)'
      BY <2>1, <3>1, EntryStays
    <3>. QED BY <3>2 DEF EntriesOK
  <2>3. CASE menu' = menu
    BY <2>2, <2>3
  <2>4. CASE \E n, p : Added(n, p)
    <3>1. PICK n, p : Added(n, p)
      BY <2>4
    <3>2. ToSet(menu') = ToSet(menu) \cup {Entry(n, p, OSType(FileOf(n, p)), 0)}
      BY <3>1, AddedIs
    <3>3. FileExists(machine[n], p)
      BY <3>1 DEF Added
    <3>4. e = Entry(n, p, OSType(FileOf(n, p)), 0)
      BY <2>2, <3>2
    <3>5. EntryOK(Entry(n, p, OSType(FileOf(n, p)), 0))
      BY <3>3, NewEntryOK
    <3>. QED BY <3>4, <3>5
  <2>5. CASE FoldKernel
    <3> DEFINE k == dirScan.first
    <3>1. /\ k \in 1..Len(menu)
          /\ FoldedInto(menu', menu, k, <<Item, Loader.name>>, Volume.options[Item])
      BY <2>5, FoldIs
    <3>2. /\ IsSequence(menu') /\ Len(menu') = Len(menu)
          /\ \A i \in 1..Len(menu) : i # k => menu'[i] = menu[i]
      BY <3>1 DEF FoldedInto
    <3>3. PICK i \in 1..Len(menu) : menu'[i] = e
      BY <3>2, SequenceFacts
    <3>4. i = k
      BY <1>0, <2>2, <3>2, <3>3, SequenceFacts
    <3>. QED BY <2>5, <3>3, <3>4, FoldedOK
  <2>6. CASE BlsEntry
    <3>1. CASE menu' = menu
      BY <2>3, <3>1
    <3>2. CASE \E p, b : BlsAdded(scan.vol, p, b)
      <4>1. PICK p, b : BlsAdded(scan.vol, p, b)
        BY <3>2
      <4>2. e = Entry(scan.vol, p, "L", b) /\ FileExists(machine[scan.vol], p) /\ b \in Nat \ {0}
        BY <2>2, <4>1 DEF BlsAdded
      <4>. QED BY <4>2, NewEntryOK
    <3>. QED BY <2>6, <3>1, <3>2, BlsIs
  <2>7. CASE DropEntry
    BY <2>2, <2>7, DropIs
  <2>. QED BY <1>3, <2>3, <2>4, <2>5, <2>6, <2>7, MenuSteps
<1>. QED BY <1>1, <1>2, <1>3 DEF Next, Running

-----------------------------------------------------------------------------
(* What can be reached stays within reach.                                  *)

\* The entry is on the menu after the step; its submenu is as long as it was unless an
\* entry of loader\entries took its place.
Survives(e) ==
    \E g \in ToSet(menu') :
        /\ g.vol = e.vol /\ g.path = e.path /\ g.os = e.os
        /\ ToSet(e.sub) \subseteq ToSet(g.sub) \/ <<e.vol, e.path>> \in claims'

\* Only the reconciliation takes an entry away for good.
LEMMA EntrySurvives ==
    ASSUME TypeOK, Place, DirOK, Running, NEW e \in ToSet(menu)
    PROVE  Survives(e) \/ (~Bootable(e) /\ ~launch.apple /\ hasMac /\ hasOC)
<1>0. IsSequence(menu)
  BY TypesAre DEF MenuTyped
<1>1. CASE e \in ToSet(menu')
  BY <1>1 DEF Survives
<1>2. CASE \E n, p : Added(n, p)
  <2>1. PICK n, p : Added(n, p)
    BY <1>2
  <2>2. ToSet(menu') = ToSet(menu) \cup {Entry(n, p, OSType(FileOf(n, p)), 0)}
    BY <2>1, AddedIs
  <2>. QED BY <1>1, <2>2
<1>3. CASE FoldKernel
  <2> DEFINE k == dirScan.first
  <2>1. /\ k \in 1..Len(menu)
        /\ FoldedInto(menu', menu, k, <<Item, Loader.name>>, Volume.options[Item])
    BY <1>3, FoldIs
  <2>2. PICK i \in 1..Len(menu) : menu[i] = e
    BY <1>0, SequenceFacts
  <2>3. /\ IsSequence(menu') /\ Len(menu') = Len(menu)
        /\ i # k => menu'[i] = e
    BY <2>1, <2>2 DEF FoldedInto
  <2>4. menu'[i] \in ToSet(menu')
    BY <2>3, SequenceFacts
  <2>5. CASE i # k
    BY <1>1, <2>3, <2>4, <2>5
  <2>6. CASE i = k
    <3> DEFINE g == menu'[i]
               t == g.sub
    <3>1. g = [vol |-> e.vol, path |-> e.path, os |-> e.os, bls |-> e.bls, sub |-> t]
      BY <2>1, <2>2, <2>6 DEF FoldedInto
    <3>2. g.vol = e.vol /\ g.path = e.path /\ g.os = e.os
      <4>. HIDE DEF t, g
      <4>. QED BY <3>1
    <3>3. ToSet(e.sub) \subseteq ToSet(g.sub)
      BY <2>1, <2>2, <2>6 DEF FoldedInto
    <3>. QED BY <2>4, <3>2, <3>3 DEF Survives
  <2>. QED BY <2>5, <2>6
<1>4. CASE BlsEntry /\ e \notin ToSet(menu')
  <2>1. PICK p, b : BlsAdded(scan.vol, p, b)
    BY <1>4, BlsIs
  <2>2. e.vol = scan.vol /\ e.path = p /\ e.os = "L"
    BY <1>4, <2>1 DEF BlsAdded
  <2>3. <<e.vol, e.path>> \in claims'
    BY <2>1, <2>2 DEF BlsAdded
  <2>4. \E g \in ToSet(menu') : g.vol = e.vol /\ g.path = e.path /\ g.os = e.os
    BY <2>1, <2>2 DEF BlsAdded
  <2>. QED BY <2>3, <2>4 DEF Survives
<1>5. CASE DropEntry
  BY <1>1, <1>5, DropIs
<1>. QED BY <1>1, <1>2, <1>3, <1>4, <1>5, MenuSteps

\* The kind of system tells the class of the file.
LEMMA OSTypeIs ==
    ASSUME NEW f
    PROVE  /\ OSType(f) = "M" => f.class = "mac"
           /\ OSType(f) = "O" => f.class = "opencore"
           /\ Linux(f) => OSType(f) = "L"
BY DEF OSType, Linux

\* An entry that cannot be booted: it starts macOS's or OpenCore's own file.
LEMMA NotBootable ==
    ASSUME NEW e, EntryOK(e), ~Bootable(e)
    PROVE  /\ e.sub = <<>> /\ FileExists(machine[e.vol], e.path)
           /\ \/ FileOf(e.vol, e.path).class = "mac" /\ machine[e.vol].fs = "apfs"
              \/ FileOf(e.vol, e.path).class = "opencore" /\ launch.openCore
<1>1. \/ e.os = "M" /\ machine[e.vol].fs = "apfs"
      \/ e.os = "O" /\ launch.openCore
  BY DEF Bootable
<1>2. e.os = OSType(FileOf(e.vol, e.path)) /\ e.sub = <<>> /\ FileExists(machine[e.vol], e.path)
  BY <1>1 DEF EntryOK
<1>. QED BY <1>1, <1>2, OSTypeIs

\* A file within reach stays so.
LEMMA StaysReachable ==
    ASSUME TypeOK, Place, DirOK, EntriesOK, Running,
           NEW n \in 1..Len(machine), NEW dir, NEW f \in ToSet(FilesIn(machine[n], dir)),
           Reachable(n, dir, f)
    PROVE  Reachable(n, dir, f)'
<1> DEFINE p == <<dir, f.name>>
<1>1. Steady
  BY RunningIsSteady
<1>2. FileExists(machine[n], p) /\ FileOf(n, p) = f
  <2>1. machine \in Machines
    BY DEF TypeOK
  <2>. QED BY <2>1, FileIs DEF FileOf
<1>3. CASE Withheld(f, machine[n])
  BY <1>1, <1>3 DEF Withheld, Steady, Reachable
<1>4. CASE LostInFold(n, dir, f)
  BY <1>1, <1>4 DEF LostInFold, Steady, Reachable
<1>5. CASE Offered(n, p)
  <2>1. PICK e \in ToSet(menu) : e.vol = n /\ (e.path = p \/ p \in ToSet(e.sub))
    BY <1>5 DEF Offered
  <2>2. EntryOK(e)
    BY <2>1 DEF EntriesOK
  <2>3. CASE ~Bootable(e) /\ ~launch.apple /\ hasMac /\ hasOC
    <3>1. /\ e.sub = <<>>
          /\ \/ FileOf(n, e.path).class = "mac" /\ machine[n].fs = "apfs"
             \/ FileOf(n, e.path).class = "opencore" /\ launch.openCore
      BY <2>1, <2>2, <2>3, NotBootable
    <3>2. e.path = p
      BY <2>1, <3>1 DEF ToSet
    <3>3. Withheld(f, machine[n])
      BY <1>2, <2>3, <3>1, <3>2 DEF Withheld
    <3>. QED BY <1>3, <3>3
  <2>4. CASE Survives(e)
    <3>1. PICK g \in ToSet(menu') :
              /\ g.vol = e.vol /\ g.path = e.path /\ g.os = e.os
              /\ ToSet(e.sub) \subseteq ToSet(g.sub) \/ <<e.vol, e.path>> \in claims'
      BY <2>4 DEF Survives
    <3>2. CASE e.path = p \/ (p \in ToSet(e.sub) /\ p \in ToSet(g.sub))
      <4>1. Offered(n, p)'
        BY <2>1, <3>1, <3>2 DEF Offered
      <4>. QED BY <4>1 DEF Reachable
    <3>3. CASE p \in ToSet(e.sub) /\ <<e.vol, e.path>> \in claims'
      <4>1. e.sub # <<>>
        BY <3>3 DEF ToSet
      <4>2. settings.fold /\ Linux(f) /\ e.path[1] = dir
        <5>1. p[1] = e.path[1] /\ Linux(FileOf(n, p))
          BY <2>1, <2>2, <3>3 DEF EntryOK
        <5>. QED BY <1>2, <2>2, <4>1, <5>1 DEF EntryOK
      <4> DEFINE c == <<n, e.path>>
      <4>3. c \in claims' /\ c[1] = n /\ c[2][1] = dir
        BY <2>1, <3>3, <4>2
      <4>. HIDE DEF c
      <4>4. settings'.fold
        BY <1>1, <4>2 DEF Steady
      <4>5. LostInFold(n, dir, f)'
        BY <4>2, <4>3, <4>4 DEF LostInFold
      <4>. QED BY <4>5 DEF Reachable
    <3>. QED BY <2>1, <3>1, <3>2, <3>3
  <2>. QED BY <2>3, <2>4, EntrySurvives
<1>. QED BY <1>3, <1>4, <1>5 DEF Reachable

\* The fallback is neither folded nor withheld.
LEMMA FallbackStays ==
    ASSUME TypeOK, Place, DirOK, EntriesOK, Running, NEW n \in 1..Len(machine),
           Offered(n, FallbackPath)
    PROVE  Offered(n, FallbackPath)'
<1>1. PICK e \in ToSet(menu) : e.vol = n /\ (e.path = FallbackPath \/ FallbackPath \in ToSet(e.sub))
  BY DEF Offered
<1>2. EntryOK(e)
  BY <1>1 DEF EntriesOK
<1>3. e.path = FallbackPath
  BY <1>1, <1>2 DEF EntryOK
<1>4. Bootable(e)
  <2> SUFFICES ASSUME ~Bootable(e) PROVE FALSE
    OBVIOUS
  <2> DEFINE g == FileOf(n, FallbackPath)
  <2>1. FileExists(machine[n], FallbackPath) /\ g.class \in {"mac", "opencore"}
    BY <1>1, <1>2, <1>3, NotBootable
  <2>2. g \in ToSet(FilesIn(machine[n], FallbackPath[1])) /\ g.name = FallbackPath[2]
    BY <2>1, FileAtIs DEF FileOf
  <2>. HIDE DEF g
  <2>3. machine \in Machines
    BY DEF TypeOK
  <2>. QED BY <2>1, <2>2, <2>3, FileIs
<1>5. Survives(e)
  BY <1>4, EntrySurvives
<1>. QED BY <1>1, <1>3, <1>5 DEF Survives, Offered

-----------------------------------------------------------------------------
(* What has been found stays found.                                         *)

\* A scan that runs is neither off nor over.
LEMMA NotOff ==
    ASSUME TypeOK, Place, Running
    PROVE  scan.stage \notin {"off", "menu"}
<1>1. CASE ~LoaderDirs
  BY <1>1 DEF Running, NextLetter, VolumesDone, SkipVolume, EnterVentoy, EnterVolume, NamedLoader,
     NamedDone, OwnAndBsd, AlsoScanned, BlsEntry, Fallback, Reconcile, KeepEntry, DropEntry,
     Reconciled
<1>2. CASE LoaderDirs
  BY <1>2 DEF LoaderDirs, SkipDir, OpenDir, ReadFile, DirRead, FoldKernel, AddListed, DirDone,
     AtDir, Adds, Place, ScanPlace, DirPlace, TypeOK
<1>. QED BY <1>1, <1>2

\* A step keeps the kernels of loader\entries on the menu.
LEMMA ClaimsStep ==
    ASSUME TypeOK, Place, DirOK, EntriesOK, ClaimsOK, [Next]_vars
    PROVE  ClaimsOK'
<1>1. CASE UNCHANGED vars
  BY <1>1 DEF vars, ClaimsOK
<1>2. CASE Begin
  BY <1>2 DEF Begin, ClaimsOK
<1>3. CASE Rescan
  <2>1. scan'.stage = "off"
    BY <1>3 DEF Rescan, Idle
  <2>. QED BY <2>1 DEF ClaimsOK
<1>4. CASE Running
  <2>1. SUFFICES ASSUME NEW c \in claims'
                 PROVE  \E g \in ToSet(menu') : g.vol = c[1] /\ g.path = c[2] /\ g.os = "L"
    BY DEF ClaimsOK
  <2>2. CASE c \in claims
    <3>1. PICK e \in ToSet(menu) : e.vol = c[1] /\ e.path = c[2] /\ e.os = "L"
      BY <1>4, <2>2, NotOff DEF ClaimsOK
    <3>2. Survives(e)
      BY <1>4, <3>1, EntrySurvives DEF Bootable
    <3>. QED BY <3>1, <3>2 DEF Survives
  <2>3. CASE c \notin claims
    <3>1. BlsEntry
      BY <1>4, <2>1, <2>3, MenuSteps DEF FoldKernel, DropEntry
    <3>2. PICK p, b : BlsAdded(scan.vol, p, b)
      BY <2>1, <2>3, <3>1, BlsIs
    <3>3. c = <<scan.vol, p>>
      BY <2>1, <2>3, <3>2 DEF BlsAdded
    <3>. QED BY <3>2, <3>3 DEF BlsAdded
  <2>. QED BY <2>2, <2>3
<1>. QED BY <1>1, <1>2, <1>3, <1>4 DEF Next, Running

\* What only the disks and the settings decide.
LEMMA Statics ==
    ASSUME Steady, NEW n
    PROVE  /\ HasTwin(n)' = HasTwin(n)
           /\ machine' = machine /\ settings' = settings /\ launch' = launch /\ Ls' = Ls
           /\ \A v, dir : IsDuplicateBsdEspDir(v, dir)' = IsDuplicateBsdEspDir(v, dir)
           /\ EfiDirs(machine[n])' = EfiDirs(machine[n])
           /\ \A v : SkipsVolume(v)' = SkipsVolume(v)
<1>1. machine' = machine /\ settings' = settings /\ launch' = launch
  BY DEF Steady
<1>2. HasTwin(n)' = HasTwin(n)
  BY <1>1 DEF HasTwin
<1>3. \A v, dir : IsDuplicateBsdEspDir(v, dir)' = IsDuplicateBsdEspDir(v, dir)
  BY <1>1 DEF IsDuplicateBsdEspDir
<1>4. EfiDirs(machine[n])' = EfiDirs(machine[n])
  BY <1>1 DEF EfiDirs, IsDuplicateBsdEspDir
<1>5. \A v : SkipsVolume(v)' = SkipsVolume(v)
  BY <1>1 DEF SkipsVolume
<1>. QED BY <1>1, <1>2, <1>3, <1>4, <1>5 DEF Ls

\* The same for a file that is looked for by its path.
LEMMA FileStaysReachable ==
    ASSUME TypeOK, Place, DirOK, EntriesOK, Running, NEW n \in 1..Len(machine), NEW p,
           IsThere(machine[n], p), Reachable(n, p[1], FileAt(machine[n], p))
    PROVE  Reachable(n, p[1], FileAt(machine[n], p))'
<1> DEFINE f == FileAt(machine[n], p)
           dir == p[1]
<1>1. f \in ToSet(FilesIn(machine[n], dir))
  BY FileAtIs DEF IsThere
<1>2. \A g \in ToSet(FilesIn(machine[n], dir)) : Reachable(n, dir, g) => Reachable(n, dir, g)'
  <2>. HIDE DEF dir
  <2>. QED BY StaysReachable
<1>3. f' = f
  BY RunningIsSteady DEF f, Steady
<1>. HIDE DEF f
<1>4. PICK g \in ToSet(FilesIn(machine[n], dir)) : g = f
  BY <1>1
<1>5. Reachable(n, dir, g)'
  BY <1>2, <1>4 DEF f
<1>. QED BY <1>3, <1>4, <1>5 DEF f, Reachable, Withheld, LostInFold, Offered

\* The loaders looked for by name stay found.
LEMMA NamedStays ==
    ASSUME TypeOK, Place, DirOK, EntriesOK, Running, NEW n \in 1..Len(machine), NamedFound(n)
    PROVE  NamedFound(n)'
<1>1. machine' = machine
  BY RunningIsSteady DEF Steady
<1>2. ASSUME NEW p \in NamedPaths(machine[n])
      PROVE  Reachable(n, p[1], FileAt(machine[n], p))'
  BY <1>2, FileStaysReachable DEF NamedFound, NamedPaths
<1>. QED BY <1>1, <1>2 DEF NamedFound, NamedPaths

\* The loaders of a directory stay found.
LEMMA DirStays ==
    ASSUME TypeOK, Place, DirOK, EntriesOK, Running, NEW n \in 1..Len(machine), NEW dir,
           patterns' = patterns, DirFound(n, dir)
    PROVE  DirFound(n, dir)'
<1>1. machine' = machine
  BY RunningIsSteady DEF Steady
<1>2. \A v, f : IsLoader(v, dir, f)' = IsLoader(v, dir, f)
  BY DEF IsLoader
<1>3. \A f \in ToSet(FilesIn(machine[n], dir)) : Reachable(n, dir, f) => Reachable(n, dir, f)'
  BY StaysReachable
<1>. QED BY <1>1, <1>2, <1>3 DEF DirFound

\* The loaders of a volume stay found.
LEMMA VolumeStays ==
    ASSUME TypeOK, Place, DirOK, EntriesOK, Running, NEW n \in 1..Len(machine),
           machine[n].ventoy \/ patterns' = patterns, VolumeFound(n)
    PROVE  VolumeFound(n)'
<1> DEFINE v == machine[n]
<1>1. Steady /\ machine' = machine
  BY RunningIsSteady DEF Steady
<1>2. HasTwin(n)' = HasTwin(n) /\ EfiDirs(machine[n])' = EfiDirs(machine[n])
  BY <1>1, Statics
<1>3. ~v.ventoy => NamedFound(n)'
  BY NamedStays DEF VolumeFound
<1>4. ~v.ventoy => \A dir \in {"root"} \cup EfiDirs(v) : DirFound(n, dir)'
  BY DirStays DEF VolumeFound
<1>5. ~v.ventoy => HasTwin(n) \/ \A dir \in ToSet(AlsoScanDirs) : DirFound(n, dir)'
  BY DirStays DEF VolumeFound
<1>6. v.allowed /\ OffersFallback(v) => HasTwin(n) \/ Offered(n, FallbackPath)'
  BY FallbackStays DEF VolumeFound
<1>. QED BY <1>1, <1>2, <1>3, <1>4, <1>5, <1>6 DEF VolumeFound

\* What has been gone through: nothing at first, one more with each step, and all of it.
LEMMA HandledIs ==
    ASSUME TypeOK, Place, OnVolume
    PROVE  /\ scan'.done = 0 => Handled' = {}
           /\ More /\ scan'.done = scan.done + 1 /\ scan'.todo = scan.todo
              => Handled' = Handled \cup {Item}
           /\ ~More /\ IsSequence(scan.todo) => Handled = ToSet(scan.todo)
<1>1. scan.done \in Nat /\ scan.done <= Len(scan.todo)
  BY DEF TypeOK, Place, ScanPlace, DirPlace
<1>2. scan'.done = 0 => Handled' = {}
  BY DEF Handled
<1>3. ASSUME scan'.done = scan.done + 1, scan'.todo = scan.todo
      PROVE  Handled' = Handled \cup {Item}
  <2>1. 1..scan'.done = 1..scan.done \cup {scan.done + 1}
    BY <1>1, <1>3
  <2>. QED BY <1>3, <2>1 DEF Handled, Item
<1>4. ASSUME ~More, IsSequence(scan.todo)
      PROVE  Handled = ToSet(scan.todo)
  <2>1. scan.done = Len(scan.todo)
    BY <1>1, <1>4, SequenceFacts DEF More
  <2>2. DOMAIN scan.todo = 1..Len(scan.todo)
    BY <1>4, SequenceFacts
  <2>. QED BY <2>1, <2>2 DEF Handled, ToSet
<1>. QED BY <1>2, <1>3, <1>4

\* What was found on the volume at hand stays found, as long as the patterns do.
LEMMA FoundStays ==
    ASSUME TypeOK, Place, DirOK, EntriesOK, Running, NEW n \in 1..Len(machine),
           patterns' = patterns, scan'.stage = scan.stage, Handled' = Handled,
           scan'.fallback = scan.fallback, FoundOn(n)
    PROVE  FoundOn(n)'
<1>1. Steady /\ machine' = machine
  BY RunningIsSteady DEF Steady
<1>2. HasTwin(n)' = HasTwin(n) /\ EfiDirs(machine[n])' = EfiDirs(machine[n])
  BY <1>1, Statics
<1>3. \A dir : DirFound(n, dir) => DirFound(n, dir)'
  BY DirStays
<1>4. NamedFound(n) => NamedFound(n)'
  BY NamedStays
<1>5. scan'.stage = "named" => \A p \in Handled :
          IsThere(machine[n], p) => Reachable(n, p[1], FileOf(n, p))'
  <2> SUFFICES ASSUME scan.stage = "named", NEW p \in Handled, IsThere(machine[n], p)
               PROVE  Reachable(n, p[1], FileOf(n, p))'
    OBVIOUS
  <2>1. Reachable(n, p[1], FileOf(n, p))
    BY DEF FoundOn
  <2>. QED BY <2>1, FileStaysReachable DEF FileOf
<1>. QED BY <1>1, <1>2, <1>3, <1>4, <1>5 DEF FoundOn, DirsFound

-----------------------------------------------------------------------------
(* What a step finds on the volume at hand.                                 *)

\* A file that is a copy of the fallback makes a twin.
LEMMA TwinIs ==
    ASSUME NEW n, NEW p, IsPath(p), DuplicatesFallback(machine[n], p)
    PROVE  HasTwin(n)
<1> DEFINE f == FileAt(machine[n], p)
<1>1. FileExists(machine[n], p)
  BY DEF DuplicatesFallback
<1>2. f \in ToSet(FilesIn(machine[n], p[1])) /\ f.name = p[2]
  BY <1>1, FileAtIs
<1>3. p[1] \in DOMAIN machine[n].dirs /\ f \in ToSet(machine[n].dirs[p[1]])
  BY <1>2 DEF FilesIn, ToSet
<1>4. <<p[1], f.name>> = p
  BY <1>2 DEF IsPath
<1>. HIDE DEF f
<1>. QED BY <1>3, <1>4 DEF HasTwin

\* The volume at hand is entered.
LEMMA EnterFinds ==
    ASSUME TypeOK, Place, EnterVentoy \/ EnterVolume
    PROVE  Found'
<1>1. scan'.done = 0 /\ scan'.fallback = TRUE /\ scan'.vol = scan.vol /\ machine' = machine
      /\ \/ scan'.stage = "entries" /\ machine[scan.vol].ventoy
         \/ scan'.stage = "named"
  BY DEF EnterVentoy, EnterVolume, TypeOK, Idle, outside, Volume
<1>2. Handled' = {}
  BY <1>1 DEF Handled
<1>. QED BY <1>1, <1>2 DEF Found, FoundOn

\* NamedLoader finds the loader at hand.
LEMMA NamedLoaderFinds ==
    ASSUME TypeOK, Place, DirOK, EntriesOK, Found, NamedLoader
    PROVE  Found'
<1>0. PICK n : n = scan.vol
  OBVIOUS
<1>1. /\ OnVolume /\ More /\ scan.stage = "named" /\ n \in 1..Len(machine)
      /\ Volume = machine[n] /\ ~Volume.ventoy /\ VolumeScanAllowed(Volume, TRUE)
      /\ IsPath(Item)
  <2>1. OnVolume /\ More /\ scan.stage = "named"
    BY DEF NamedLoader, OnVolume
  <2>. QED BY <1>0, <2>1, AtVolume, AtItem DEF Place, ScanPlace, DirPlace
<1>2. Running /\ Steady /\ machine' = machine /\ patterns' = patterns
  BY RunningIsSteady DEF Running, Steady, NamedLoader
<1>3. /\ scan'.stage = "named" /\ scan'.done = scan.done + 1 /\ scan'.todo = scan.todo
      /\ scan'.vol = n
      /\ \/ scan'.fallback = scan.fallback /\ ~IsThere(Volume, Item)
         \/ /\ scan'.fallback = (scan.fallback /\ ~DuplicatesFallback(Volume, Item))
            /\ IsThere(Volume, Item)
  <2> DEFINE b == scan.fallback /\ ~DuplicatesFallback(Volume, Item)
  <2>1. \/ scan' = Onward /\ ~IsThere(Volume, Item)
        \/ scan' = [Onward EXCEPT !.fallback = b] /\ IsThere(Volume, Item)
    <3>1. CASE IsThere(Volume, Item)
      <4>1. scan' = [Onward EXCEPT !.fallback = Onward.fallback /\ ~DuplicatesFallback(Volume, Item)]
        BY <3>1 DEF NamedLoader
      <4>2. Onward.fallback = scan.fallback
        BY TypesAre, OnwardTyped
      <4>. QED BY <3>1, <4>1, <4>2
    <3>2. CASE ~IsThere(Volume, Item)
      BY <3>2 DEF NamedLoader
    <3>. QED BY <3>1, <3>2
  <2>2. /\ DOMAIN Onward = DOMAIN Idle /\ Onward.done = scan.done + 1
        /\ Onward.stage = scan.stage /\ Onward.vol = scan.vol /\ Onward.todo = scan.todo
        /\ Onward.fallback = scan.fallback
    BY TypesAre, OnwardTyped DEF ScanTyped
  <2>3. b \in BOOLEAN
    OBVIOUS
  <2>4. scan' = [Onward EXCEPT !.fallback = b] =>
          /\ scan'.stage = "named" /\ scan'.done = scan.done + 1 /\ scan'.todo = scan.todo
          /\ scan'.vol = scan.vol /\ scan'.fallback = b
    <3>. HIDE DEF b
    <3>. QED BY <1>1, <2>2 DEF Idle
  <2>. QED BY <1>0, <1>1, <2>1, <2>2, <2>4
<1>4. Handled' = Handled \cup {Item}
  BY <1>1, <1>3, HandledIs
<1>5. FoundOn(n)
  BY <1>0, <1>1 DEF Found
<1>6. ~scan'.fallback => HasTwin(n)
  BY <1>1, <1>3, <1>5, TwinIs DEF FoundOn
<1>7. ASSUME NEW p \in Handled, IsThere(machine[n], p)
      PROVE  Reachable(n, p[1], FileOf(n, p))'
  <2>1. Reachable(n, p[1], FileOf(n, p))
    BY <1>1, <1>5, <1>7 DEF FoundOn
  <2>. QED BY <1>1, <1>2, <1>7, <2>1, FileStaysReachable DEF FileOf
<1>8. ASSUME NEW p, p = Item, IsThere(machine[n], p)
      PROVE  Reachable(n, p[1], FileOf(n, p))'
  <2> DEFINE f == FileOf(n, p)
             new == Entry(n, p, OSType(f), 0)
  <2>1. menu' = Append(menu, new)
    <3>1. menu' = AddLoaderEntry(menu, machine[n], n, p)
      BY <1>0, <1>1, <1>8 DEF NamedLoader
    <3>2. VolumeScanAllowed(machine[n], TRUE)
      BY <1>1
    <3>3. menu' = Append(menu, Entry(n, p, OSType(FileAt(machine[n], p)), 0))
      BY <3>1, <3>2, LoaderAdded
    <3>. QED BY <3>3 DEF FileOf
  <2>2. new.vol = n /\ new.path = p
    BY DEF Entry
  <2>3. new \in ToSet(menu')
    <3>1. IsSequence(menu)
      BY TypesAre DEF MenuTyped
    <3>. HIDE DEF new
    <3>. QED BY <2>1, <3>1, Appended
  <2>4. <<p[1], FileOf(n, p)'.name>> = p
    BY <1>1, <1>2, <1>8, FileAtIs DEF FileOf, IsThere, IsPath
  <2>5. Offered(n, <<p[1], FileOf(n, p).name>>)'
    <3>. HIDE DEF new
    <3>. QED BY <1>1, <2>2, <2>3, <2>4 DEF Offered
  <2>. QED BY <2>5 DEF Reachable
<1>9. HasTwin(n)' = HasTwin(n)
  BY <1>2, Statics
<1>10. FoundOn(n)'
  BY <1>2, <1>3, <1>4, <1>6, <1>7, <1>8, <1>9 DEF FoundOn, FileOf
<1>. QED BY <1>3, <1>10 DEF Found

\* All loaders looked for by name have been found when the directories begin.
LEMMA NamedDoneFinds ==
    ASSUME TypeOK, Place, DirOK, EntriesOK, Found, NamedDone
    PROVE  Found'
<1>0. PICK n : n = scan.vol
  OBVIOUS
<1>1. /\ OnVolume /\ ~More /\ scan.stage = "named" /\ n \in 1..Len(machine)
      /\ Volume = machine[n] /\ ~Volume.ventoy /\ IsSequence(Volume.guids)
      /\ scan.todo = MacPaths(Volume) \o WindowsPaths(Volume)
  <2>1. OnVolume /\ ~More /\ scan.stage = "named"
    BY DEF NamedDone, OnVolume
  <2>. QED BY <1>0, <2>1, AtVolume, VolumeFacts DEF Place, ScanPlace, DirPlace
<1>2. Running /\ Steady /\ machine' = machine /\ patterns' = patterns
  BY RunningIsSteady DEF Running, Steady, NamedDone
<1>3. /\ scan'.stage = "dirs" /\ scan'.done = 0 /\ scan'.vol = n /\ scan'.fallback = scan.fallback
  BY <1>0 DEF NamedDone, TypeOK, Idle
<1>4. FoundOn(n) /\ Handled' = {} /\ Handled = ToSet(scan.todo)
  <2>1. IsSequence(scan.todo)
    BY <1>1, NamedAre
  <2>. QED BY <1>0, <1>1, <1>3, <2>1, HandledIs DEF Found
<1>5. NamedFound(n)
  BY <1>1, <1>4 DEF FoundOn, NamedFound, NamedPaths, FileOf
<1>6. NamedFound(n)'
  BY <1>1, <1>2, <1>5, NamedStays
<1>7. HasTwin(n)' = HasTwin(n)
  BY <1>2, Statics
<1>8. FoundOn(n)'
  BY <1>3, <1>4, <1>6, <1>7 DEF FoundOn
<1>. QED BY <1>3, <1>8 DEF Found

\* Directory Item is done with: its loaders have been found.
LEMMA ItemFinds ==
    ASSUME TypeOK, Place, DirOK, EntriesOK, Found, Running, UNCHANGED patterns,
           More, NEW n, n = scan.vol, scan.stage \in {"dirs", "also"},
           scan'.stage = scan.stage, scan'.vol = n, scan'.done = scan.done + 1,
           scan'.todo = scan.todo,
           ~scan'.fallback => ~scan.fallback \/ HasTwin(n),
           \A dir \in {Item} :
              scan.stage = "dirs" => (dir \in {"root"} \cup EfiDirs(machine[n]) => DirFound(n, dir)),
           \A dir \in {Item} : scan.stage = "also" => DirFound(n, dir)
    PROVE  Found'
<1>1. OnVolume /\ n \in 1..Len(machine)
  BY AtVolume DEF OnVolume
<1>2. Steady /\ machine' = machine
  BY RunningIsSteady DEF Steady
<1>3. FoundOn(n) /\ Handled' = Handled \cup {Item}
  BY <1>1, HandledIs DEF Found
<1>4. HasTwin(n)' = HasTwin(n) /\ EfiDirs(machine[n])' = EfiDirs(machine[n])
  BY <1>2, Statics
<1>5. \A dir : DirFound(n, dir) => DirFound(n, dir)'
  BY <1>1, DirStays
<1>6. NamedFound(n) => NamedFound(n)'
  BY <1>1, NamedStays
<1>7. scan'.stage = "dirs" =>
         \A dir \in Handled' \cap ({"root"} \cup EfiDirs(machine[n])) : DirFound(n, dir)'
  BY <1>3, <1>5 DEF FoundOn
<1>8. scan'.stage = "also" => \A dir \in Handled' : DirFound(n, dir)'
  BY <1>3, <1>5 DEF FoundOn
<1>9. scan'.stage = "also" => machine[n].ventoy \/ \A dir \in {"root"} \cup EfiDirs(machine[n]) : DirFound(n, dir)'
  BY <1>3, <1>5 DEF FoundOn, DirsFound
<1>10. FoundOn(n)'
  BY <1>2, <1>3, <1>4, <1>6, <1>7, <1>8, <1>9 DEF FoundOn, DirsFound
<1>. QED BY <1>10 DEF Found

\* A directory that is not entered holds nothing that must be found.
LEMMA SkipDirFinds ==
    ASSUME TypeOK, Place, DirOK, EntriesOK, Found, SkipDir
    PROVE  Found'
<1>0. PICK n : n = scan.vol
  OBVIOUS
<1>1. /\ Running /\ UNCHANGED patterns /\ More /\ scan.stage \in {"dirs", "also"}
      /\ ~EntersDir(Volume, Item) /\ scan' = Onward
  BY DEF SkipDir, AtDir, Running, LoaderDirs
<1>2. /\ scan'.stage = scan.stage /\ scan'.vol = n /\ scan'.done = scan.done + 1
      /\ scan'.todo = scan.todo /\ scan'.fallback = scan.fallback
  BY <1>0, <1>1, TypesAre, OnwardTyped
<1>3. Volume = machine[n]
  BY <1>0 DEF Volume
<1>4. ASSUME NEW dir, dir = Item,
             scan.stage = "dirs" => dir \in {"root"} \cup EfiDirs(machine[n])
      PROVE  DirFound(n, dir)
  <2>1. scan.stage = "dirs" => dir # "EFI/tools" /\ ~IsDuplicateBsdEspDir(machine[n], dir)
    BY <1>4 DEF EfiDirs, IsDuplicateBsdEspDir, BsdKindFromName
  <2>2. ~ShouldScan(machine[n], dir)
    BY <1>1, <1>3, <1>4, <2>1 DEF EntersDir
  <2>. QED BY <2>2 DEF DirFound
<1>. QED BY <1>0, <1>1, <1>2, <1>4, ItemFinds

\* ScanLoaderDir has found what its directory holds.
LEMMA DirDoneFinds ==
    ASSUME TypeOK, Place, DirOK, EntriesOK, ClaimsOK, Found, DirDone
    PROVE  Found'
<1>0. PICK n, dir : n = scan.vol /\ dir = Item
  OBVIOUS
<1>1. /\ Running /\ UNCHANGED patterns /\ More /\ scan.stage \in {"dirs", "also"}
      /\ dirScan.at = "add" /\ dirScan.done = Len(dirScan.list)
  BY DEF DirDone, Running, LoaderDirs, Place, ScanPlace, DirPlace
<1>2. /\ scan'.stage = scan.stage /\ scan'.vol = n /\ scan'.done = scan.done + 1
      /\ scan'.todo = scan.todo
      /\ scan'.fallback = (scan.fallback /\ ~dirScan.duplicate)
  <2>1. /\ DOMAIN Onward = DOMAIN Idle /\ Onward.done = scan.done + 1
        /\ Onward.stage = scan.stage /\ Onward.vol = scan.vol /\ Onward.todo = scan.todo
        /\ Onward.fallback = scan.fallback
    BY TypesAre, OnwardTyped DEF ScanTyped
  <2> DEFINE b == scan.fallback /\ ~dirScan.duplicate
  <2>2. scan' = [Onward EXCEPT !.fallback = b]
    BY <2>1 DEF DirDone
  <2>. HIDE DEF b
  <2>3. /\ scan'.stage = scan.stage /\ scan'.vol = n /\ scan'.done = scan.done + 1
        /\ scan'.todo = scan.todo /\ scan'.fallback = b
    BY <1>0, <2>1, <2>2 DEF Idle
  <2>. QED BY <2>3 DEF b
<1>3. ListOf(n, dir) /\ AddsOf(n, dir)
  BY <1>0, <1>1 DEF DirOK
<1>4. ~scan'.fallback => ~scan.fallback \/ HasTwin(n)
  BY <1>2, <1>3 DEF ListOf
<1>5. DirFound(n, dir)
  <2>1. SUFFICES ASSUME NEW f \in ToSet(FilesIn(machine[n], dir)), IsLoader(machine[n], dir, f)
                 PROVE  Reachable(n, dir, f)
    BY DEF DirFound
  <2>2. CASE IsShown(machine[n], n, dir, f)
    <3>1. machine \in Machines /\ n \in 1..Len(machine)
      BY <1>0, <1>1, AtVolume DEF OnVolume
    <3>2. PICK k \in 1..Len(FilesIn(machine[n], dir)) : FilesIn(machine[n], dir)[k] = f
      BY <2>1, <3>1, FilesFacts, SequenceFacts DEF FilesOK
    <3>3. f \in ToSet(dirScan.list)
      BY <1>1, <1>3, <2>2, <3>2 DEF ListOf
    <3>4. PICK j \in 1..Len(dirScan.list) : dirScan.list[j] = f
      BY <1>3, <3>3, OwnElements, SequenceFacts DEF ListOf
    <3>. QED BY <1>1, <1>3, <3>4 DEF AddsOf
  <2>3. CASE <<n, <<dir, f.name>>>> \in claims
    <3> DEFINE p == <<dir, f.name>>
               c == <<n, p>>
    <3>1. c[1] = n /\ c[2] = p
      OBVIOUS
    <3>2. c \in claims /\ scan.stage # "off"
      BY <1>1, <2>3
    <3>. HIDE DEF c
    <3>3. Offered(n, p)
      BY <3>1, <3>2 DEF ClaimsOK, Offered
    <3>. QED BY <3>3 DEF Reachable
  <2>. QED BY <2>1, <2>2, <2>3 DEF IsShown
<1>. QED BY <1>0, <1>1, <1>2, <1>4, <1>5, ItemFinds

\* All directories have been found when also_scan_dirs begins.
LEMMA OwnAndBsdFinds ==
    ASSUME TypeOK, Place, DirOK, EntriesOK, Found, OwnAndBsd
    PROVE  Found'
<1>0. PICK n : n = scan.vol
  OBVIOUS
<1>1. /\ OnVolume /\ ~More /\ scan.stage = "dirs" /\ n \in 1..Len(machine)
      /\ Volume = machine[n] /\ IsSequence(Volume.efi)
      /\ scan.todo = <<"root">> \o Volume.efi
  <2>1. OnVolume /\ ~More /\ scan.stage = "dirs"
    BY DEF OwnAndBsd, OnVolume
  <2>. QED BY <1>0, <2>1, AtVolume, VolumeFacts DEF Place, ScanPlace, DirPlace
<1>2. Running /\ Steady /\ machine' = machine /\ patterns' = patterns
  BY RunningIsSteady DEF Running, Steady, OwnAndBsd
<1>3. /\ scan'.stage = "also" /\ scan'.done = 0 /\ scan'.vol = n
      /\ scan'.fallback = (scan.fallback /\ ~OwnCopyIsFallback(Volume)
                                         /\ ~ScanBsdRootLoader(Volume))
  <2> DEFINE b == scan.fallback /\ ~OwnCopyIsFallback(Volume) /\ ~ScanBsdRootLoader(Volume)
  <2>1. scan' = [scan EXCEPT !.stage = "also", !.todo = AlsoScanDirs, !.done = 0, !.fallback = b]
    BY DEF OwnAndBsd
  <2>. HIDE DEF b
  <2>2. scan'.stage = "also" /\ scan'.done = 0 /\ scan'.vol = n /\ scan'.fallback = b
    BY <1>0, <2>1 DEF TypeOK, Idle
  <2>. QED BY <2>2 DEF b
<1>4. /\ FoundOn(n) /\ Handled' = {}
      /\ Handled = {"root"} \cup ToSet(machine[n].efi)
  <2>1. /\ IsSequence(scan.todo)
        /\ ToSet(scan.todo) = {"root"} \cup ToSet(machine[n].efi)
    BY <1>1, SingleIs, ConcatIs
  <2>. QED BY <1>0, <1>1, <1>3, <2>1, HandledIs DEF Found
<1>5. NamedFound(n)' \/ machine[n].ventoy
  BY <1>1, <1>2, <1>4, NamedStays DEF FoundOn
<1>6. \A dir \in {"root"} \cup EfiDirs(machine[n]) : DirFound(n, dir)'
  <2>1. \A dir \in {"root"} \cup EfiDirs(machine[n]) : DirFound(n, dir)
    BY <1>1, <1>4 DEF FoundOn, EfiDirs
  <2>. QED BY <1>1, <1>2, <2>1, DirStays
<1>7. HasTwin(n)' = HasTwin(n) /\ EfiDirs(machine[n])' = EfiDirs(machine[n])
  BY <1>2, Statics
<1>8. ~scan'.fallback => HasTwin(n)
  BY <1>1, <1>3, <1>4 DEF FoundOn, HasTwin
<1>9. FoundOn(n)'
  BY <1>2, <1>3, <1>4, <1>5, <1>6, <1>7, <1>8 DEF FoundOn, DirsFound
<1>. QED BY <1>3, <1>9 DEF Found

\* What also_scan_dirs names has been found, or the fallback has a twin.
LEMMA AlsoScannedFinds ==
    ASSUME TypeOK, Place, DirOK, EntriesOK, Found, AlsoScanned
    PROVE  Found'
<1>0. PICK n : n = scan.vol
  OBVIOUS
<1>1. /\ OnVolume /\ (~More \/ ~scan.fallback) /\ scan.stage = "also" /\ n \in 1..Len(machine)
      /\ Volume = machine[n]
      /\ scan.todo = AlsoScanDirs /\ IsSequence(scan.todo)
  <2>1. OnVolume /\ (~More \/ ~scan.fallback) /\ scan.stage = "also"
    BY DEF AlsoScanned, OnVolume
  <2>. QED BY <1>0, <2>1, AtVolume, ScanAssumption DEF Place, ScanPlace, DirPlace
<1>2. Running /\ Steady /\ machine' = machine /\ patterns' = patterns
  BY RunningIsSteady DEF Running, Steady, AlsoScanned
<1>3. /\ scan'.stage = "entries" /\ scan'.done = 0 /\ scan'.vol = n
      /\ scan'.fallback = scan.fallback
  BY <1>0 DEF AlsoScanned, TypeOK, Idle
<1>4. FoundOn(n) /\ Handled' = {} /\ (~More => Handled = ToSet(AlsoScanDirs))
  BY <1>0, <1>1, <1>3, HandledIs DEF Found
<1>5. NamedFound(n)' \/ machine[n].ventoy
  BY <1>1, <1>2, <1>4, NamedStays DEF FoundOn
<1>6. \A dir : DirFound(n, dir) => DirFound(n, dir)'
  BY <1>1, <1>2, DirStays
<1>7. HasTwin(n)' = HasTwin(n) /\ EfiDirs(machine[n])' = EfiDirs(machine[n])
  BY <1>2, Statics
<1>8. HasTwin(n) \/ \A dir \in ToSet(AlsoScanDirs) : DirFound(n, dir)'
  BY <1>1, <1>4, <1>6 DEF FoundOn
<1>9. machine[n].ventoy \/ \A dir \in {"root"} \cup EfiDirs(machine[n]) : DirFound(n, dir)'
  BY <1>1, <1>4, <1>6 DEF FoundOn, DirsFound
<1>10. FoundOn(n)'
  BY <1>1, <1>2, <1>3, <1>4, <1>5, <1>7, <1>8, <1>9 DEF FoundOn, DirsFound
<1>. QED BY <1>3, <1>10 DEF Found

\* An entry of loader\entries loses nothing that was found.
LEMMA BlsEntryFinds ==
    ASSUME TypeOK, Place, DirOK, EntriesOK, Found, BlsEntry
    PROVE  Found'
<1>0. PICK n : n = scan.vol
  OBVIOUS
<1>1. /\ OnVolume /\ scan.stage = "entries" /\ n \in 1..Len(machine)
      /\ Volume = machine[n]
  BY <1>0, AtVolume DEF BlsEntry, OnVolume
<1>2. Running /\ Steady /\ machine' = machine /\ patterns' = patterns
  BY RunningIsSteady DEF Running, Steady, BlsEntry
<1>3. /\ scan'.stage \in {"entries", "undefined"} /\ scan'.vol = n
      /\ scan'.fallback = scan.fallback
  <2>1. scan' = Onward \/ scan' = [Onward EXCEPT !.stage = "undefined"]
    BY DEF BlsEntry
  <2>2. /\ DOMAIN Onward = DOMAIN Idle /\ Onward.stage = "entries" /\ Onward.vol = n
        /\ Onward.fallback = scan.fallback
    BY <1>0, <1>1, TypesAre, OnwardTyped DEF ScanTyped
  <2>. QED BY <2>1, <2>2 DEF Idle
<1>4. FoundOn(n)
  BY <1>0, <1>1 DEF Found
<1>5. NamedFound(n)' \/ machine[n].ventoy
  BY <1>1, <1>2, <1>4, NamedStays DEF FoundOn
<1>6. \A dir : DirFound(n, dir) => DirFound(n, dir)'
  BY <1>1, <1>2, DirStays
<1>7. HasTwin(n)' = HasTwin(n) /\ EfiDirs(machine[n])' = EfiDirs(machine[n])
  BY <1>2, Statics
<1>8. machine[n].ventoy \/ HasTwin(n) \/ \A dir \in ToSet(AlsoScanDirs) : DirFound(n, dir)'
  BY <1>1, <1>4, <1>6 DEF FoundOn
<1>9. machine[n].ventoy \/ \A dir \in {"root"} \cup EfiDirs(machine[n]) : DirFound(n, dir)'
  BY <1>1, <1>4, <1>6 DEF FoundOn, DirsFound
<1>10. scan'.stage = "entries" => FoundOn(n)'
  BY <1>1, <1>2, <1>3, <1>4, <1>5, <1>7, <1>8, <1>9 DEF FoundOn, DirsFound
<1>. QED BY <1>3, <1>10 DEF Found, OnVolume

\* A step inside ScanLoaderDir.
LEMMA InDirFinds ==
    ASSUME TypeOK, Place, DirOK, EntriesOK, Found, Running, UNCHANGED <<patterns, scan>>
    PROVE  Found'
<1>1. PICK n : n = scan.vol
  OBVIOUS
<1>2. OnVolume => n \in 1..Len(machine) /\ FoundOn(n)
  BY <1>1, AtVolume DEF Found
<1>3. OnVolume => FoundOn(n)'
  BY <1>2, FoundStays DEF Handled
<1>. QED BY <1>1, <1>3 DEF Found, OnVolume

\* Nothing changes.
LEMMA Stutters ==
    ASSUME UNCHANGED vars
    PROVE  /\ \A n : HasTwin(n)' = HasTwin(n)
           /\ \A n : EfiDirs(machine[n])' = EfiDirs(machine[n])
           /\ \A n, dir, f : Reachable(n, dir, f) => Reachable(n, dir, f)'
           /\ \A n : NamedFound(n) => NamedFound(n)'
           /\ \A n, dir : DirFound(n, dir) => DirFound(n, dir)'
<1>. USE DEF vars
<1>1. \A n : HasTwin(n)' = HasTwin(n)
  BY DEF HasTwin
<1>2. \A n : EfiDirs(machine[n])' = EfiDirs(machine[n])
  BY DEF EfiDirs, IsDuplicateBsdEspDir
<1>3. \A n, dir, f : Reachable(n, dir, f) => Reachable(n, dir, f)'
  BY DEF Reachable, Offered, Withheld, LostInFold
<1>4. \A n : NamedFound(n) => NamedFound(n)'
  BY <1>3 DEF NamedFound, NamedPaths
<1>5. \A n, dir : DirFound(n, dir) => DirFound(n, dir)'
  BY <1>3, ZenonT(60) DEF DirFound, IsLoader
<1>. QED BY <1>1, <1>2, <1>3, <1>4, <1>5

\* A step keeps what has been found on the volume at hand.
LEMMA FoundStep ==
    ASSUME TypeOK, Place, DirOK, EntriesOK, ClaimsOK, Found, [Next]_vars
    PROVE  Found'
<1>1. CASE UNCHANGED vars
  <2>1. /\ \A n : HasTwin(n)' = HasTwin(n)
        /\ \A n : EfiDirs(machine[n])' = EfiDirs(machine[n])
        /\ \A n, dir, f : Reachable(n, dir, f) => Reachable(n, dir, f)'
        /\ \A n : NamedFound(n) => NamedFound(n)'
        /\ \A n, dir : DirFound(n, dir) => DirFound(n, dir)'
    BY <1>1, Stutters
  <2>2. machine' = machine /\ scan' = scan /\ Handled' = Handled
    BY <1>1 DEF vars, Handled
  <2>3. PICK n : n = scan.vol
    OBVIOUS
  <2>4. FoundOn(n) => FoundOn(n)'
    BY <2>1, <2>2 DEF FoundOn, DirsFound, FileOf
  <2>. QED BY <2>2, <2>3, <2>4 DEF Found, OnVolume
<1>2. CASE EnterVentoy \/ EnterVolume BY <1>2, EnterFinds
<1>3. CASE NamedLoader BY <1>3, NamedLoaderFinds
<1>4. CASE NamedDone BY <1>4, NamedDoneFinds
<1>5. CASE SkipDir BY <1>5, SkipDirFinds
<1>6. CASE OpenDir \/ ReadFile \/ DirRead \/ FoldKernel \/ AddListed
  BY <1>6, InDirFinds DEF OpenDir, ReadFile, DirRead, FoldKernel, AddListed, Running, LoaderDirs
<1>7. CASE DirDone BY <1>7, DirDoneFinds
<1>8. CASE OwnAndBsd BY <1>8, OwnAndBsdFinds
<1>9. CASE AlsoScanned BY <1>9, AlsoScannedFinds
<1>10. CASE BlsEntry BY <1>10, BlsEntryFinds
<1>11. CASE Begin \/ NextLetter \/ VolumesDone \/ SkipVolume \/ Fallback \/ Reconcile \/ KeepEntry
            \/ DropEntry \/ Reconciled \/ Rescan
  <2>1. scan'.stage \notin {"named", "dirs", "also", "entries"}
    <3>1. CASE Begin \/ Rescan \/ Reconcile \/ Reconciled
      <4>1. scan' \in {[Idle EXCEPT !.stage = "letters", !.letter = 1], [Idle EXCEPT !.stage = "off"],
                       Idle, [Idle EXCEPT !.stage = "reconcile"]}
        BY <3>1 DEF Begin, Reconcile, Reconciled, Rescan
      <4>2. /\ [Idle EXCEPT !.stage = "letters", !.letter = 1].stage = "letters"
            /\ [Idle EXCEPT !.stage = "off"].stage = "off" /\ Idle.stage = "menu"
            /\ [Idle EXCEPT !.stage = "reconcile"].stage = "reconcile"
        BY DEF Idle
      <4>. QED BY <4>1, <4>2
    <3>2. CASE NextLetter \/ VolumesDone \/ SkipVolume \/ Fallback
      BY <1>11, <3>2 DEF NextLetter, VolumesDone, SkipVolume, Fallback, Idle, TypeOK
    <3>3. CASE KeepEntry \/ DropEntry
      <4>1. Onward.stage = scan.stage
        BY TypesAre, OnwardTyped
      <4>2. scan.stage = "reconcile" /\ scan' \in {scan, Onward}
        BY <3>3 DEF KeepEntry, DropEntry
      <4>. QED BY <4>1, <4>2
    <3>. QED BY <1>11, <3>1, <3>2, <3>3
  <2>. QED BY <2>1 DEF Found, OnVolume
<1>. QED BY <1>1, <1>2, <1>3, <1>4, <1>5, <1>6, <1>7, <1>8, <1>9, <1>10, <1>11 DEF Next, LoaderDirs

-----------------------------------------------------------------------------
(* The volumes that are done with.                                          *)

\* A step on the volume at hand: the letter and the volume stay.
OnTheSpot ==
    /\ scan'.letter = scan.letter /\ scan'.vol = scan.vol
    /\ scan.stage # "letters" /\ scan'.stage \notin {"letters", "reconcile", "menu"}

\* The steps on a volume stay on it.
LEMMA StaysOnTheSpot ==
    ASSUME TypeOK, Place,
           EnterVentoy \/ EnterVolume \/ NamedLoader \/ NamedDone \/ LoaderDirs \/ OwnAndBsd
           \/ AlsoScanned \/ BlsEntry
    PROVE  OnTheSpot
<1>0. /\ DOMAIN scan = DOMAIN Idle /\ DOMAIN Onward = DOMAIN Idle /\ Onward.stage = scan.stage
      /\ Onward.vol = scan.vol /\ Onward.letter = scan.letter
  BY TypesAre, OnwardTyped DEF ScanTyped
<1>1. CASE EnterVentoy \/ EnterVolume \/ NamedDone
  BY <1>0, <1>1 DEF EnterVentoy, EnterVolume, NamedDone, OnTheSpot, Idle
<1>2. CASE NamedLoader
  <2> DEFINE b == scan.fallback /\ ~DuplicatesFallback(Volume, Item)
  <2>1. (scan' = Onward \/ scan' = [Onward EXCEPT !.fallback = b]) /\ scan.stage = "named"
    BY <1>2 DEF NamedLoader, Onward
  <2>. HIDE DEF b
  <2>. QED BY <1>0, <2>1 DEF OnTheSpot, Idle
<1>3. CASE LoaderDirs
  <2>1. scan.stage \in {"dirs", "also"}
    BY <1>3 DEF LoaderDirs, SkipDir, OpenDir, ReadFile, DirRead, FoldKernel, AddListed, DirDone,
       AtDir, Adds, Place, ScanPlace, DirPlace
  <2>2. CASE SkipDir \/ OpenDir \/ ReadFile \/ DirRead \/ FoldKernel \/ AddListed
    <3>1. scan' \in {scan, Onward}
      BY <2>2 DEF SkipDir, OpenDir, ReadFile, DirRead, FoldKernel, AddListed
    <3>. QED BY <1>0, <2>1, <3>1 DEF OnTheSpot
  <2>3. CASE DirDone
    <3> DEFINE b == Onward.fallback /\ ~dirScan.duplicate
    <3>1. scan' = [Onward EXCEPT !.fallback = b]
      BY <2>3 DEF DirDone
    <3>. HIDE DEF b
    <3>. QED BY <1>0, <2>1, <3>1 DEF OnTheSpot, Idle
  <2>. QED BY <1>3, <2>2, <2>3 DEF LoaderDirs
<1>4. CASE OwnAndBsd
  <2> DEFINE b == scan.fallback /\ ~OwnCopyIsFallback(Volume) /\ ~ScanBsdRootLoader(Volume)
  <2>1. /\ scan' = [scan EXCEPT !.stage = "also", !.todo = AlsoScanDirs, !.done = 0, !.fallback = b]
        /\ scan.stage = "dirs"
    BY <1>4 DEF OwnAndBsd
  <2>. HIDE DEF b
  <2>. QED BY <1>0, <2>1 DEF OnTheSpot, Idle
<1>5. CASE AlsoScanned
  BY <1>0, <1>5 DEF AlsoScanned, OnTheSpot, Idle
<1>6. CASE BlsEntry
  <2>1. /\ scan' = Onward \/ scan' = [Onward EXCEPT !.stage = "undefined"]
        /\ scan.stage = "entries"
    BY <1>6 DEF BlsEntry
  <2>. QED BY <1>0, <2>1 DEF OnTheSpot, Idle
<1>. QED BY <1>1, <1>2, <1>3, <1>4, <1>5, <1>6

\* The volumes that are done with: one more behind Fallback.
LEMMA NewlyPassed ==
    ASSUME TypeOK, Place, Running, NEW n \in 1..Len(machine), Passed(n)', ~SkipsVolume(machine[n])
    PROVE  Passed(n) \/ (Fallback /\ n = scan.vol)
<1>0. /\ DOMAIN scan = DOMAIN Idle /\ scan.letter \in Nat /\ scan.vol \in Nat
      /\ machine' = machine /\ Ls' = Ls /\ Len(machine) \in Nat
  BY RunningIsSteady, Statics, VolumeFacts DEF TypeOK
<1>1. PICK l \in 1..Len(Ls) : /\ Ls[l] = machine[n].kind
                              /\ \/ scan'.stage \in {"reconcile", "menu"}
                                 \/ l < scan'.letter
                                 \/ l = scan'.letter /\ scan'.stage # "letters" /\ n < scan'.vol
  BY <1>0 DEF Passed
<1>2. CASE OnTheSpot
  BY <1>1, <1>2 DEF OnTheSpot, Passed
<1>3. CASE NextLetter
  <2>1. scan'.vol = 1 /\ scan'.letter = scan.letter /\ scan'.stage = "volumes"
    BY <1>0, <1>3 DEF NextLetter, Idle
  <2>. QED BY <1>1, <2>1 DEF Passed
<1>4. CASE VolumesDone
  <2>1. /\ scan'.letter = scan.letter + 1 /\ scan'.stage = "letters" /\ scan.stage = "volumes"
        /\ n < scan.vol
    BY <1>0, <1>4 DEF VolumesDone, Idle
  <2>2. l < scan.letter \/ l = scan.letter
    BY <1>0, <1>1, <2>1
  <2>. QED BY <1>1, <2>1, <2>2 DEF Passed
<1>5. CASE SkipVolume
  <2>1. /\ scan'.letter = scan.letter /\ scan'.stage = "volumes" /\ scan.stage = "volumes"
        /\ scan'.vol = scan.vol + 1 /\ ~Visits(scan.vol)
    BY <1>0, <1>5 DEF SkipVolume, Idle
  <2>2. l < scan.letter \/ (l = scan.letter /\ n < scan.vol) \/ (l = scan.letter /\ n = scan.vol)
    BY <1>0, <1>1, <2>1
  <2>3. ~(l = scan.letter /\ n = scan.vol)
    BY <1>1, <2>1 DEF Visits, Ls
  <2>. QED BY <1>1, <2>1, <2>2, <2>3 DEF Passed
<1>6. CASE Fallback
  <2>1. /\ scan'.letter = scan.letter /\ scan'.stage = "volumes" /\ scan.stage = "entries"
        /\ scan'.vol = scan.vol + 1
    BY <1>0, <1>6 DEF Fallback, Idle
  <2>2. l < scan.letter \/ (l = scan.letter /\ n < scan.vol) \/ n = scan.vol
    BY <1>0, <1>1, <2>1
  <2>. QED BY <1>1, <1>6, <2>1, <2>2 DEF Passed
<1>7. CASE Reconcile
  <2>1. scan.letter > Len(Ls)
    BY <1>7 DEF Reconcile, Ls
  <2>2. IsSequence(Ls)
    BY LettersAre DEF Ls, TypeOK
  <2>3. l < scan.letter
    BY <1>0, <1>1, <2>1, <2>2, SequenceFacts
  <2>. QED BY <1>1, <2>3 DEF Passed
<1>8. CASE KeepEntry \/ DropEntry \/ Reconciled
  <2>1. scan.stage = "reconcile"
    BY <1>8 DEF KeepEntry, DropEntry, Reconciled
  <2>. QED BY <1>1, <2>1 DEF Passed
<1>9. CASE EnterVentoy \/ EnterVolume \/ NamedLoader \/ NamedDone \/ LoaderDirs \/ OwnAndBsd
           \/ AlsoScanned \/ BlsEntry
  BY <1>2, <1>9, StaysOnTheSpot
<1>. QED BY <1>3, <1>4, <1>5, <1>6, <1>7, <1>8, <1>9 DEF Running

\* Behind Fallback everything has been found on the volume at hand.
LEMMA FallbackFinds ==
    ASSUME TypeOK, Place, DirOK, EntriesOK, Found, Fallback, NEW n, n = scan.vol
    PROVE  VolumeFound(n)' /\ (machine[n].ventoy \/ patterns' # {})
<1>1. /\ OnVolume /\ ~More /\ scan.stage = "entries" /\ n \in 1..Len(machine)
      /\ Volume = machine[n] /\ ~SkipsVolume(machine[n]) /\ (machine[n].ventoy \/ patterns # {})
  <2>1. OnVolume /\ ~More /\ scan.stage = "entries"
    BY DEF Fallback, OnVolume
  <2>. QED BY <2>1, AtVolume DEF Place, ScanPlace, DirPlace
<1>2. Running /\ Steady /\ machine' = machine /\ patterns' = patterns
  BY RunningIsSteady DEF Running, Steady, Fallback
<1>3. FoundOn(n)
  BY <1>1 DEF Found
<1>4. machine[n].ventoy \/ NamedFound(n)'
  BY <1>1, <1>2, <1>3, NamedStays DEF FoundOn
<1>5. \A dir : DirFound(n, dir) => DirFound(n, dir)'
  BY <1>1, <1>2, DirStays
<1>6. HasTwin(n)' = HasTwin(n) /\ EfiDirs(machine[n])' = EfiDirs(machine[n])
  BY <1>2, Statics
<1>7. ASSUME machine[n].allowed, OffersFallback(machine[n]), ~HasTwin(n)
      PROVE  Offered(n, FallbackPath)'
  <2>1. scan.fallback
    BY <1>3, <1>7 DEF FoundOn
  <2>2. menu' = AddLoaderEntry(menu, machine[n], n, FallbackPath)
    BY <1>1, <1>7, <2>1 DEF Fallback
  <2>3. VolumeScanAllowed(machine[n], TRUE)
    BY <1>7 DEF VolumeScanAllowed
  <2> DEFINE new == Entry(n, FallbackPath, OSType(FileAt(machine[n], FallbackPath)), 0)
  <2>4. menu' = Append(menu, new) /\ new.vol = n /\ new.path = FallbackPath
    BY <2>2, <2>3, LoaderAdded, ZenonT(60) DEF Entry
  <2>5. IsSequence(menu)
    BY TypesAre DEF MenuTyped
  <2>. HIDE DEF new
  <2>6. new \in ToSet(menu')
    BY <2>4, <2>5, Appended
  <2>. QED BY <2>4, <2>6 DEF Offered
<1>8. machine[n].ventoy \/ \A dir \in {"root"} \cup EfiDirs(machine[n]) : DirFound(n, dir)'
  BY <1>1, <1>3, <1>5 DEF FoundOn, DirsFound
<1>9. machine[n].ventoy \/ HasTwin(n) \/ \A dir \in ToSet(AlsoScanDirs) : DirFound(n, dir)'
  BY <1>1, <1>3, <1>5 DEF FoundOn
<1>. QED BY <1>1, <1>2, <1>4, <1>6, <1>7, <1>8, <1>9 DEF VolumeFound

\* A step keeps what has been found on the volumes that are done with.
LEMMA PassedStep ==
    ASSUME TypeOK, Place, DirOK, EntriesOK, Found, PassedFound, [Next]_vars
    PROVE  PassedFound'
<1>0. Len(machine) \in Nat
  BY VolumeFacts DEF TypeOK
<1>1. CASE UNCHANGED vars
  <2>1. /\ \A n : HasTwin(n)' = HasTwin(n)
        /\ \A n : EfiDirs(machine[n])' = EfiDirs(machine[n])
        /\ \A n : NamedFound(n) => NamedFound(n)'
        /\ \A n, dir : DirFound(n, dir) => DirFound(n, dir)'
    BY <1>1, Stutters
  <2>2. \A n : VolumeFound(n) => VolumeFound(n)'
    BY <1>1, <2>1 DEF VolumeFound, vars, Offered
  <2>3. \A n : Passed(n)' => Passed(n)
    BY <1>1 DEF vars, Passed, Ls
  <2>. QED BY <1>1, <2>2, <2>3 DEF PassedFound, vars, SkipsVolume
<1>2. CASE Begin \/ Rescan
  <2>1. scan' \in {[Idle EXCEPT !.stage = "letters", !.letter = 1], [Idle EXCEPT !.stage = "off"]}
    BY <1>2 DEF Begin, Rescan
  <2>2. /\ [Idle EXCEPT !.stage = "letters", !.letter = 1].stage = "letters"
        /\ [Idle EXCEPT !.stage = "letters", !.letter = 1].letter = 1
        /\ [Idle EXCEPT !.stage = "off"].stage = "off"
        /\ [Idle EXCEPT !.stage = "off"].letter = 0
    BY DEF Idle
  <2>3. \/ scan'.stage = "letters" /\ scan'.letter = 1
        \/ scan'.stage = "off" /\ scan'.letter = 0
    BY <2>1, <2>2
  <2>4. ASSUME NEW n PROVE ~Passed(n)'
    BY <2>3 DEF Passed
  <2>. QED BY <2>4 DEF PassedFound
<1>3. CASE Running
  <2>1. Steady /\ machine' = machine
    BY <1>3, RunningIsSteady DEF Steady
  <2>2. SUFFICES ASSUME NEW n \in 1..Len(machine), Passed(n)', ~SkipsVolume(machine[n])
                 PROVE  VolumeFound(n)' /\ (machine[n].ventoy \/ patterns' # {})
    BY <2>1, Statics DEF PassedFound
  <2>3. CASE Passed(n)
    <3>1. VolumeFound(n) /\ (machine[n].ventoy \/ patterns # {})
      BY <2>2, <2>3 DEF PassedFound
    <3>2. machine[n].ventoy \/ patterns' = patterns
      BY <2>1, <3>1 DEF Steady
    <3>. QED BY <1>3, <2>2, <3>1, <3>2, VolumeStays
  <2>4. CASE Fallback /\ n = scan.vol
    BY <2>4, FallbackFinds
  <2>. QED BY <1>3, <2>2, <2>3, <2>4, NewlyPassed
<1>. QED BY <1>1, <1>2, <1>3 DEF Next, Running

-----------------------------------------------------------------------------
(* Where the scan is.                                                       *)

\* The stage stays, and so does the volume.
LEMMA StagePlace ==
    ASSUME TypeOK, Place, Running,
           scan'.stage = scan.stage, scan'.letter = scan.letter, scan'.vol = scan.vol,
           scan'.todo = scan.todo,
           \/ scan'.done = scan.done
           \/ scan'.done = scan.done + 1 /\ (OnVolume => More)
    PROVE  ScanPlace'
<1>1. Steady /\ scan.stage # "off"
  BY RunningIsSteady, NotOff
<1>2. machine' = machine /\ settings' = settings /\ launch' = launch /\ Ls' = Ls
  BY <1>1, Statics
<1>3. OnVolume => scan'.done <= Len(scan.todo)
  <2> SUFFICES ASSUME OnVolume PROVE scan'.done <= Len(scan.todo)
    OBVIOUS
  <2>1. CASE scan'.done = scan.done
    BY <2>1 DEF Place, ScanPlace, DirPlace
  <2>2. CASE scan'.done = scan.done + 1 /\ More
    <3>1. scan.done + 1 \in 1..Len(scan.todo)
      BY <2>2, AtItem
    <3>. QED BY <2>2, <3>1
  <2>. QED BY <2>1, <2>2
<1>4. OnVolume' = OnVolume /\ Volume' = Volume /\ (patterns # {} => patterns' # {})
  BY <1>1, <1>2 DEF OnVolume, Volume, Steady
<1>5. Visits(scan.vol)' <=> Visits(scan.vol)
  BY <1>2 DEF Visits, SkipsVolume
<1>6. EntriesOf(Volume)' = EntriesOf(Volume) /\ MacPaths(Volume)' = MacPaths(Volume)
      /\ WindowsPaths(Volume)' = WindowsPaths(Volume)
  BY <1>4 DEF EntriesOf, MacPaths, WindowsPaths
<1>7. scan.stage = "reconcile" => ~launch'.apple /\ hasMac' /\ hasOC'
  BY <1>1, <1>2 DEF Place, ScanPlace, DirPlace, Steady
<1>8. \/ scan.stage \notin {"volumes", "named", "dirs", "also", "entries"}
      \/ scan'.letter \in 1..Len(Ls')
  BY <1>2 DEF Place, ScanPlace, DirPlace
<1>. QED BY <1>1, <1>2, <1>3, <1>4, <1>5, <1>6, <1>7, <1>8 DEF ScanPlace, Place, DirPlace

\* The sequences that are gone through have a length.
LEMMA LengthsAre ==
    ASSUME TypeOK, NEW n \in 1..Len(machine)
    PROVE  /\ Len(EntriesOf(machine[n])) \in Nat
           /\ Len(MacPaths(machine[n]) \o WindowsPaths(machine[n])) \in Nat
           /\ Len(<<"root">> \o machine[n].efi) \in Nat
           /\ Len(AlsoScanDirs) \in Nat /\ Len(machine) \in Nat /\ Len(Ls) \in Nat
<1>0. machine \in Machines /\ settings \in Settings
  BY DEF TypeOK
<1>1. /\ IsSequence(machine[n].efi) /\ IsSequence(machine[n].guids)
      /\ IsSequence(machine[n].entries) /\ Len(machine) \in Nat
  BY <1>0, VolumeFacts
<1>2. Len(EntriesOf(machine[n])) \in Nat
  <2>1. Len(machine[n].entries) \in Nat
        /\ DOMAIN machine[n].entries = 1..Len(machine[n].entries)
    BY <1>1, SequenceFacts
  <2>2. [i \in DOMAIN machine[n].entries |-> i] \in Seq(Nat)
    BY <2>1, FunctionIs
  <2>. QED BY <2>2 DEF EntriesOf
<1>3. Len(MacPaths(machine[n]) \o WindowsPaths(machine[n])) \in Nat
  BY <1>1, NamedAre, SequenceFacts
<1>4. Len(<<"root">> \o machine[n].efi) \in Nat
  <2>1. IsSequence(<<"root">> \o machine[n].efi)
    BY <1>1, SingleIs, ConcatIs
  <2>. QED BY <2>1, SequenceFacts
<1>5. Len(AlsoScanDirs) \in Nat
  BY ScanAssumption, SequenceFacts
<1>6. Len(Ls) \in Nat
  BY <1>0, LettersAre, SequenceFacts DEF Ls
<1>. QED BY <1>1, <1>2, <1>3, <1>4, <1>5, <1>6

\* Another stage on the volume at hand.
LEMMA NewStagePlace ==
    ASSUME TypeOK, Place, Running,
           scan.stage \in {"volumes", "named", "dirs", "also", "entries"},
           scan.vol \in 1..Len(machine), Visits(scan.vol),
           scan'.letter = scan.letter, scan'.vol = scan.vol, scan'.done = 0,
           \/ scan'.stage = "named" /\ scan'.todo = MacPaths(Volume) \o WindowsPaths(Volume)
           \/ scan'.stage = "dirs" /\ scan'.todo = <<"root">> \o Volume.efi
           \/ scan'.stage = "also" /\ scan'.todo = AlsoScanDirs
           \/ scan'.stage = "entries" /\ scan'.todo = EntriesOf(Volume),
           scan'.stage # "entries" => ~Volume.ventoy,
           Volume.ventoy \/ patterns' # {}
    PROVE  ScanPlace'
<1>1. Steady
  BY RunningIsSteady
<1>2. machine' = machine /\ settings' = settings /\ launch' = launch /\ Ls' = Ls
  BY <1>1, Statics
<1>3. Volume' = Volume
  BY <1>2 DEF Volume
<1>4. Visits(scan.vol)' <=> Visits(scan.vol)
  BY <1>2 DEF Visits, SkipsVolume
<1>5. scan'.done <= Len(scan'.todo)
  <2> DEFINE l == Len(scan'.todo)
  <2>1. l \in Nat
    BY LengthsAre DEF Volume
  <2>. HIDE DEF l
  <2>2. 0 <= l
    BY <2>1
  <2>. QED BY <2>2 DEF l
<1>6. scan'.letter \in 1..Len(Ls')
  BY <1>2 DEF Place, ScanPlace, DirPlace
<1>7. EntriesOf(Volume)' = EntriesOf(Volume) /\ MacPaths(Volume)' = MacPaths(Volume)
      /\ WindowsPaths(Volume)' = WindowsPaths(Volume)
  BY <1>3 DEF EntriesOf, MacPaths, WindowsPaths
<1>. QED BY <1>2, <1>3, <1>4, <1>5, <1>6, <1>7 DEF ScanPlace, OnVolume

\* Off the volumes.
LEMMA OffPlace ==
    ASSUME TypeOK, Place, Running,
           \/ scan'.stage = "volumes" /\ scan'.letter \in 1..Len(Ls) /\ scan'.vol \in 1..(Len(machine) + 1)
           \/ scan'.stage = "letters" /\ scan'.letter \in 1..(Len(Ls) + 1)
           \/ scan'.stage = "reconcile" /\ ~launch.apple /\ hasMac /\ hasOC
           \/ scan'.stage \in {"menu", "undefined"}
    PROVE  ScanPlace'
<1>1. Steady
  BY RunningIsSteady
<1>2. machine' = machine /\ settings' = settings /\ launch' = launch /\ Ls' = Ls
  BY <1>1, Statics
<1>. QED BY <1>1, <1>2 DEF ScanPlace, OnVolume, Steady

\* A step keeps the place of the scan.
LEMMA ScanPlaceStep ==
    ASSUME TypeOK, Place, DirOK, Running
    PROVE  ScanPlace'
<1>0. /\ DOMAIN scan = DOMAIN Idle /\ scan.letter \in Nat /\ scan.vol \in Nat
      /\ Len(machine) \in Nat /\ Len(Ls) \in Nat
  <2>1. machine \in Machines /\ settings \in Settings
    BY DEF TypeOK
  <2>2. Len(Ls) \in Nat
    BY <2>1, LettersAre, SequenceFacts DEF Ls
  <2>. QED BY <2>1, <2>2, VolumeFacts DEF TypeOK
<1>1. /\ DOMAIN Onward = DOMAIN Idle /\ Onward.done = scan.done + 1
      /\ Onward.stage = scan.stage /\ Onward.vol = scan.vol /\ Onward.todo = scan.todo
      /\ Onward.letter = scan.letter
  BY TypesAre, OnwardTyped DEF ScanTyped
<1>2. CASE NextLetter
  <2>1. /\ scan.letter \in 1..Len(Ls)
        /\ scan'.stage = "volumes" /\ scan'.letter = scan.letter /\ scan'.vol = 1
    BY <1>0, <1>2 DEF NextLetter, Place, ScanPlace, DirPlace, Ls, Idle
  <2>2. scan'.vol \in 1..(Len(machine) + 1)
    BY <1>0, <2>1
  <2>. QED BY <2>1, <2>2, OffPlace
<1>3. CASE VolumesDone
  <2>1. scan'.stage = "letters" /\ scan'.letter = scan.letter + 1 /\ scan.letter \in 1..Len(Ls)
    BY <1>0, <1>3 DEF VolumesDone, Place, ScanPlace, DirPlace, Idle
  <2>2. scan'.letter \in 1..(Len(Ls) + 1)
    BY <1>0, <2>1
  <2>. QED BY <2>1, <2>2, OffPlace
<1>4. CASE SkipVolume
  <2>1. /\ scan'.stage = "volumes" /\ scan'.letter = scan.letter /\ scan.letter \in 1..Len(Ls)
        /\ scan'.vol = scan.vol + 1 /\ scan.vol \in 1..(Len(machine) + 1) /\ scan.vol <= Len(machine)
    BY <1>0, <1>4 DEF SkipVolume, Place, ScanPlace, DirPlace, Idle
  <2>2. scan'.vol \in 1..(Len(machine) + 1)
    BY <1>0, <2>1
  <2>. QED BY <2>1, <2>2, OffPlace
<1>5. CASE EnterVentoy
  <2>1. /\ scan.stage = "volumes" /\ scan.vol \in 1..Len(machine) /\ Visits(scan.vol)
        /\ Volume.ventoy
    BY <1>0, <1>5 DEF EnterVentoy, Place, ScanPlace, DirPlace
  <2>2. /\ scan'.letter = scan.letter /\ scan'.vol = scan.vol /\ scan'.done = 0
        /\ scan'.stage = "entries" /\ scan'.todo = EntriesOf(Volume)
    BY <1>0, <1>5 DEF EnterVentoy, Idle
  <2>. QED BY <2>1, <2>2, NewStagePlace
<1>6. CASE EnterVolume
  <2>1. /\ scan.stage = "volumes" /\ scan.vol \in 1..Len(machine) /\ Visits(scan.vol)
        /\ ~Volume.ventoy /\ patterns' # {}
    <3>1. patterns' = IF patterns = {} THEN {settings.plain} ELSE patterns
      BY <1>6 DEF EnterVolume
    <3>2. patterns' # {}
      BY <3>1
    <3>. QED BY <1>0, <1>6, <3>2 DEF EnterVolume, Place, ScanPlace, DirPlace
  <2>2. /\ scan'.letter = scan.letter /\ scan'.vol = scan.vol /\ scan'.done = 0
        /\ scan'.stage = "named" /\ scan'.todo = MacPaths(Volume) \o WindowsPaths(Volume)
    BY <1>0, <1>6 DEF EnterVolume, Idle
  <2>. QED BY <2>1, <2>2, NewStagePlace
<1>7. CASE NamedLoader
  <2> DEFINE b == scan.fallback /\ ~DuplicatesFallback(Volume, Item)
  <2>1. (scan' = Onward \/ scan' = [Onward EXCEPT !.fallback = b]) /\ More
    BY <1>7 DEF NamedLoader, Onward
  <2>. HIDE DEF b
  <2>2. /\ scan'.stage = scan.stage /\ scan'.letter = scan.letter /\ scan'.vol = scan.vol
        /\ scan'.todo = scan.todo /\ scan'.done = scan.done + 1
    BY <1>1, <2>1 DEF Idle
  <2>. QED BY <2>1, <2>2, StagePlace
<1>8. CASE NamedDone
  <2>1. /\ scan.stage = "named" /\ scan.vol \in 1..Len(machine) /\ Visits(scan.vol)
        /\ ~Volume.ventoy /\ patterns' # {}
    BY <1>0, <1>8 DEF NamedDone, Place, ScanPlace, DirPlace, OnVolume
  <2>2. /\ scan'.letter = scan.letter /\ scan'.vol = scan.vol /\ scan'.done = 0
        /\ scan'.stage = "dirs" /\ scan'.todo = <<"root">> \o Volume.efi
    BY <1>0, <1>8 DEF NamedDone, Idle
  <2>. QED BY <2>1, <2>2, NewStagePlace
<1>9. CASE LoaderDirs
  <2>1. CASE SkipDir
    <3>1. scan' = Onward /\ More
      BY <2>1 DEF SkipDir, AtDir
    <3>. QED BY <1>1, <3>1, StagePlace
  <2>2. CASE OpenDir \/ ReadFile \/ DirRead \/ FoldKernel \/ AddListed
    <3>1. scan' = scan
      BY <2>2 DEF OpenDir, ReadFile, DirRead, FoldKernel, AddListed
    <3>. QED BY <3>1, StagePlace
  <2>3. CASE DirDone
    <3> DEFINE b == Onward.fallback /\ ~dirScan.duplicate
    <3>1. scan' = [Onward EXCEPT !.fallback = b] /\ More
      BY <2>3 DEF DirDone, Place, ScanPlace, DirPlace
    <3>. HIDE DEF b
    <3>2. /\ scan'.stage = scan.stage /\ scan'.letter = scan.letter /\ scan'.vol = scan.vol
          /\ scan'.todo = scan.todo /\ scan'.done = scan.done + 1
      BY <1>1, <3>1 DEF Idle
    <3>. QED BY <3>1, <3>2, StagePlace
  <2>. QED BY <1>9, <2>1, <2>2, <2>3 DEF LoaderDirs
<1>10. CASE OwnAndBsd
  <2> DEFINE b == scan.fallback /\ ~OwnCopyIsFallback(Volume) /\ ~ScanBsdRootLoader(Volume)
  <2>1. /\ scan.stage = "dirs" /\ scan.vol \in 1..Len(machine) /\ Visits(scan.vol)
        /\ ~Volume.ventoy /\ patterns' # {}
    BY <1>0, <1>10 DEF OwnAndBsd, Place, ScanPlace, DirPlace, OnVolume
  <2>2. scan' = [scan EXCEPT !.stage = "also", !.todo = AlsoScanDirs, !.done = 0, !.fallback = b]
    BY <1>10 DEF OwnAndBsd
  <2>. HIDE DEF b
  <2>3. /\ scan'.letter = scan.letter /\ scan'.vol = scan.vol /\ scan'.done = 0
        /\ scan'.stage = "also" /\ scan'.todo = AlsoScanDirs
    BY <1>0, <2>2 DEF Idle
  <2>. QED BY <2>1, <2>3, NewStagePlace
<1>11. CASE AlsoScanned
  <2>1. /\ scan.stage = "also" /\ scan.vol \in 1..Len(machine) /\ Visits(scan.vol)
        /\ ~Volume.ventoy /\ patterns' # {}
    BY <1>0, <1>11 DEF AlsoScanned, Place, ScanPlace, DirPlace, OnVolume
  <2>2. /\ scan'.letter = scan.letter /\ scan'.vol = scan.vol /\ scan'.done = 0
        /\ scan'.stage = "entries" /\ scan'.todo = EntriesOf(Volume)
    BY <1>0, <1>11 DEF AlsoScanned, Idle
  <2>. QED BY <2>1, <2>2, NewStagePlace
<1>12. CASE BlsEntry
  <2>1. More /\ (scan' = Onward \/ scan' = [Onward EXCEPT !.stage = "undefined"])
    BY <1>12 DEF BlsEntry
  <2>2. CASE scan' = Onward
    BY <1>1, <2>1, <2>2, StagePlace
  <2>3. CASE scan' = [Onward EXCEPT !.stage = "undefined"]
    <3>1. scan'.stage = "undefined"
      BY <1>1, <2>3 DEF Idle
    <3>. QED BY <3>1, OffPlace
  <2>. QED BY <2>1, <2>2, <2>3
<1>13. CASE Fallback
  <2>1. /\ scan.vol \in 1..Len(machine) /\ scan.letter \in 1..Len(Ls)
        /\ scan'.stage = "volumes" /\ scan'.letter = scan.letter /\ scan'.vol = scan.vol + 1
    BY <1>0, <1>13 DEF Fallback, Place, ScanPlace, DirPlace, OnVolume, Idle
  <2>2. scan'.vol \in 1..(Len(machine) + 1)
    BY <1>0, <2>1
  <2>. QED BY <2>1, <2>2, OffPlace
<1>14. CASE Reconcile
  <2>1. \/ scan' = Idle
        \/ scan' = [Idle EXCEPT !.stage = "reconcile"] /\ ~launch.apple /\ hasMac /\ hasOC
    BY <1>14 DEF Reconcile
  <2>2. Idle.stage = "menu" /\ [Idle EXCEPT !.stage = "reconcile"].stage = "reconcile"
    BY DEF Idle
  <2>3. \/ scan'.stage = "menu"
        \/ scan'.stage = "reconcile" /\ ~launch.apple /\ hasMac /\ hasOC
    BY <2>1, <2>2
  <2>. QED BY <2>3, OffPlace
<1>15. CASE KeepEntry \/ DropEntry
  <2>1. scan' \in {scan, Onward} /\ ~OnVolume
    BY <1>15 DEF KeepEntry, DropEntry, OnVolume
  <2>. QED BY <1>1, <2>1, StagePlace
<1>16. CASE Reconciled
  <2>1. scan'.stage = "menu"
    BY <1>16 DEF Reconciled, Idle
  <2>. QED BY <2>1, OffPlace
<1>. QED BY <1>2, <1>3, <1>4, <1>5, <1>6, <1>7, <1>8, <1>9, <1>10, <1>11, <1>12, <1>13, <1>14,
            <1>15, <1>16 DEF Running

\* A step outside ScanLoaderDir, or one that leaves it.
LEMMA OutOfDir ==
    ASSUME TypeOK, Place, Running,
           ~(OpenDir \/ ReadFile \/ DirRead \/ FoldKernel \/ AddListed)
    PROVE  dirScan' = NoDir
<1>1. CASE DirDone
  BY <1>1 DEF DirDone
<1>2. CASE SkipDir
  BY <1>2 DEF SkipDir, AtDir, Place, ScanPlace, DirPlace
<1>3. CASE ~LoaderDirs
  <2>1. dirScan' = dirScan
    BY <1>3 DEF Running, NextLetter, VolumesDone, SkipVolume, EnterVentoy, EnterVolume, NamedLoader,
       NamedDone, OwnAndBsd, AlsoScanned, BlsEntry, Fallback, Reconcile, KeepEntry, DropEntry,
       Reconciled
  <2>2. \/ scan.stage \notin {"dirs", "also"}
        \/ ~More
        \/ scan.stage = "also" /\ ~scan.fallback
    BY <1>3 DEF Running, NextLetter, VolumesDone, SkipVolume, EnterVentoy, EnterVolume, NamedLoader,
       NamedDone, OwnAndBsd, AlsoScanned, BlsEntry, Fallback, Reconcile, KeepEntry, DropEntry,
       Reconciled
  <2>3. dirScan.at = "out"
    BY <2>2 DEF Place, ScanPlace, DirPlace
  <2>. QED BY <2>1, <2>3 DEF Place, ScanPlace, DirPlace
<1>. QED BY <1>1, <1>2, <1>3 DEF LoaderDirs

\* A step inside ScanLoaderDir keeps the place of the scan.
LEMMA InDirIs ==
    ASSUME TypeOK, Place, DirOK, OpenDir \/ ReadFile \/ DirRead \/ FoldKernel \/ AddListed
    PROVE  /\ UNCHANGED <<machine, settings, launch, patterns, claims, scan>>
           /\ scan.stage \in {"dirs", "also"} /\ (scan.stage = "also" => scan.fallback)
           /\ More /\ EntersDir(Volume, Item)
           /\ OnVolume /\ scan.vol \in 1..Len(machine) /\ machine \in Machines
           /\ Files = FilesIn(machine[scan.vol], Item) /\ Volume = machine[scan.vol]
           /\ FilesOK(machine[scan.vol], Item)
           /\ Running
<1>1. /\ UNCHANGED <<machine, settings, launch, patterns, claims, scan>>
  BY DEF OpenDir, ReadFile, DirRead, FoldKernel, AddListed, outside
<1>2. /\ scan.stage \in {"dirs", "also"} /\ (scan.stage = "also" => scan.fallback)
      /\ More /\ EntersDir(Volume, Item)
  BY DEF OpenDir, ReadFile, DirRead, FoldKernel, AddListed, AtDir, Adds, Place, ScanPlace,
     DirPlace
<1>3. OnVolume
  BY <1>2 DEF OnVolume
<1>4. scan.vol \in 1..Len(machine) /\ machine \in Machines /\ Volume = machine[scan.vol]
  BY <1>3, AtVolume
<1>5. FilesOK(machine[scan.vol], Item)
  BY <1>4, FilesFacts
<1>6. Running
  BY DEF Running, LoaderDirs
<1>. QED BY <1>1, <1>2, <1>3, <1>4, <1>5, <1>6 DEF Files

\* A step keeps the place of ScanLoaderDir.
LEMMA DirPlaceStep ==
    ASSUME TypeOK, Place, DirOK, Running
    PROVE  DirPlace'
<1>1. CASE ~(OpenDir \/ ReadFile \/ DirRead \/ FoldKernel \/ AddListed)
  BY <1>1, OutOfDir DEF DirPlace, NoDir
<1>2. CASE OpenDir \/ ReadFile \/ DirRead \/ FoldKernel \/ AddListed
  <2>0. /\ UNCHANGED <<machine, settings, launch, patterns, claims, scan>>
        /\ scan.stage \in {"dirs", "also"} /\ (scan.stage = "also" => scan.fallback)
        /\ More /\ EntersDir(Volume, Item)
        /\ FilesOK(machine[scan.vol], Item) /\ Files = FilesIn(machine[scan.vol], Item)
    BY <1>2, InDirIs
  <2>1. /\ scan'.stage \in {"dirs", "also"} /\ (scan'.stage = "also" => scan'.fallback)
        /\ More' /\ EntersDir(Volume, Item)' /\ Files' = Files /\ Len(Files) \in Nat
    <3>1. Volume' = Volume /\ Item' = Item
      BY <2>0 DEF Volume, Item
    <3>2. \A v, dir : IsDuplicateBsdEspDir(v, dir)' = IsDuplicateBsdEspDir(v, dir)
      BY <2>0 DEF IsDuplicateBsdEspDir
    <3>3. EntersDir(Volume, Item)'
      BY <2>0, <3>1, <3>2 DEF EntersDir
    <3>4. Files' = Files /\ Len(Files) \in Nat
      BY <2>0, <3>1 DEF Files, FilesOK
    <3>. QED BY <2>0, <3>3, <3>4 DEF More
  <2>2. DOMAIN dirScan = DOMAIN NoDir /\ dirScan.done \in Nat
    BY DEF TypeOK
  <2>3. CASE OpenDir
    <3>1. dirScan' = [NoDir EXCEPT !.at = "read"]
      BY <2>3 DEF OpenDir
    <3>2. dirScan'.at = "read" /\ dirScan'.done = 0 /\ dirScan'.first = 0
      BY <3>1 DEF NoDir
    <3>. QED BY <2>1, <3>2 DEF DirPlace
  <2>4. CASE ReadFile
    <3> DEFINE f == Files[dirScan.done + 1]
               next == [dirScan EXCEPT !.done = @ + 1]
               b == next.duplicate \/ DuplicatesFallback(Volume, <<Item, f.name>>)
               list == AddLoaderListEntry(next.list, f)
    <3>1. dirScan' = next \/ dirScan' = [next EXCEPT !.list = list, !.duplicate = b]
      BY <2>4 DEF ReadFile
    <3>. HIDE DEF b, f, list
    <3>2. /\ DOMAIN next = DOMAIN NoDir /\ next.at = dirScan.at /\ next.done = dirScan.done + 1
          /\ next.first = dirScan.first
      BY <2>2 DEF NoDir
    <3>. HIDE DEF next
    <3>3. /\ dirScan'.at = dirScan.at /\ dirScan'.done = dirScan.done + 1
          /\ dirScan'.first = dirScan.first
      BY <3>1, <3>2 DEF NoDir
    <3>4. dirScan.at = "read" /\ dirScan.done < Len(Files) /\ dirScan.first = 0
      BY <2>4 DEF ReadFile, Place, ScanPlace, DirPlace
    <3>. QED BY <2>1, <2>2, <3>3, <3>4 DEF DirPlace
  <2>5. CASE DirRead
    <3>1. dirScan' = [dirScan EXCEPT !.at = "add", !.done = 0] /\ dirScan.at = "read"
      BY <2>5 DEF DirRead
    <3>2. dirScan'.at = "add" /\ dirScan'.done = 0 /\ dirScan'.list = dirScan.list
      BY <2>2, <3>1 DEF NoDir
    <3>3. Len(dirScan.list) \in Nat
      BY <3>1 DEF DirOK, ListOf
    <3>. QED BY <2>1, <3>2, <3>3 DEF DirPlace
  <2>6. CASE FoldKernel \/ AddListed
    <3> DEFINE k == IF Linux(Loader) /\ dirScan.first = 0 THEN Len(menu) + 1 ELSE dirScan.first
    <3>1. \/ dirScan' = [dirScan EXCEPT !.done = @ + 1]
          \/ dirScan' = [dirScan EXCEPT !.done = @ + 1, !.first = k]
      BY <2>6 DEF FoldKernel, AddListed
    <3>. HIDE DEF k
    <3>2. Adds /\ dirScan.at = "add" /\ dirScan.done + 1 \in 1..Len(dirScan.list)
      BY <2>6, AtLoader DEF FoldKernel, AddListed, Adds
    <3>3. dirScan'.at = "add" /\ dirScan'.done = dirScan.done + 1 /\ dirScan'.list = dirScan.list
      BY <2>2, <3>1, <3>2 DEF NoDir
    <3>4. dirScan'.done \in 0..Len(dirScan.list)
      BY <2>2, <3>2, <3>3
    <3>. QED BY <2>1, <3>3, <3>4 DEF DirPlace
  <2>. QED BY <1>2, <2>3, <2>4, <2>5, <2>6
<1>. QED BY <1>1, <1>2

\* A step keeps both.
LEMMA PlaceStep ==
    ASSUME TypeOK, Place, DirOK, [Next]_vars
    PROVE  Place'
<1>1. CASE UNCHANGED vars
  <2>1. /\ Volume' = Volume /\ Item' = Item /\ Files' = Files /\ Ls' = Ls /\ OnVolume' = OnVolume
        /\ More' = More
        /\ \A n : Visits(n)' = Visits(n)
        /\ EntersDir(Volume, Item)' = EntersDir(Volume, Item)
        /\ EntriesOf(Volume)' = EntriesOf(Volume)
        /\ MacPaths(Volume)' = MacPaths(Volume) /\ WindowsPaths(Volume)' = WindowsPaths(Volume)
    BY <1>1 DEF vars, Volume, Item, Files, Ls, OnVolume, More, Visits, SkipsVolume, EntersDir,
       IsDuplicateBsdEspDir, EntriesOf, MacPaths, WindowsPaths
  <2>. QED BY <1>1, <2>1 DEF vars, Place, ScanPlace, DirPlace
<1>2. CASE Begin \/ Rescan
  <2>1. menu' = <<>> /\ dirScan' = NoDir
    BY <1>2, Restarts
  <2>2. scan' \in {[Idle EXCEPT !.stage = "letters", !.letter = 1], [Idle EXCEPT !.stage = "off"]}
    BY <1>2 DEF Begin, Rescan
  <2>3. /\ [Idle EXCEPT !.stage = "letters", !.letter = 1].stage = "letters"
        /\ [Idle EXCEPT !.stage = "letters", !.letter = 1].letter = 1
        /\ [Idle EXCEPT !.stage = "off"].stage = "off"
    BY DEF Idle
  <2>4. (scan'.stage = "letters" /\ scan'.letter = 1) \/ scan'.stage = "off"
    BY <2>2, <2>3
  <2>5. 1 \in 1..(Len(Ls') + 1)
    <3>1. settings' \in Settings
      BY <1>2 DEF Begin, Rescan, outside, TypeOK
    <3>2. Len(Letters(settings'.scanfor)) \in Nat
      BY <3>1, LettersAre, SequenceFacts
    <3>. QED BY <3>2 DEF Ls
  <2>6. ScanPlace'
    BY <2>1, <2>4, <2>5 DEF ScanPlace, OnVolume
  <2>7. DirPlace'
    BY <2>1 DEF DirPlace, NoDir
  <2>. QED BY <2>6, <2>7 DEF Place
<1>3. CASE Running
  BY <1>3, ScanPlaceStep, DirPlaceStep DEF Place
<1>. QED BY <1>1, <1>2, <1>3 DEF Next, Running

-----------------------------------------------------------------------------
(* LoaderList.                                                              *)

\* LoaderList and what has been read stay as they are.
LEMMA ListStays ==
    ASSUME UNCHANGED <<machine, launch, settings, patterns, claims>>, NEW n, NEW dir, ListOf(n, dir),
           dirScan'.list = dirScan.list, dirScan'.duplicate = dirScan.duplicate,
           \/ dirScan'.at # "read" /\ dirScan.at # "read"
           \/ dirScan'.at = dirScan.at /\ dirScan'.done = dirScan.done
           \/ dirScan.at = "read" /\ dirScan'.at # "read"
              /\ dirScan.done = Len(FilesIn(machine[n], dir))
    PROVE  ListOf(n, dir)'
<1>1. \A v, f : IsShown(v, n, dir, f)' = IsShown(v, n, dir, f)
  BY DEF IsShown, IsLoader
<1>2. HasTwin(n)' = HasTwin(n)
  BY DEF HasTwin
<1>3. machine' = machine
  OBVIOUS
<1> DEFINE read == IF dirScan.at = "read" THEN dirScan.done ELSE Len(FilesIn(machine[n], dir))
<1>4. read' = read
  OBVIOUS
<1>. HIDE DEF read
<1>. QED BY <1>1, <1>2, <1>3, <1>4, SMTT(60) DEF ListOf, read

\* list holds those of the first done files that are shown, by age.
ListedFrom(list, files, done, shown) ==
    /\ list \in Seq(ToSet(files))
    /\ \A g \in ToSet(files) : g \in ToSet(list) <=> g \in shown /\ \E k \in 1..done : files[k] = g
    /\ \A i, j \in 1..Len(list) : i < j => Older(list[i], list[j])
    /\ \A i, j \in 1..Len(list) : i < j /\ list[i].class = "rescue" =>
          \A a, b \in 1..Len(files) : files[a] = list[i] /\ files[b] = list[j] => a <= b

\* One more file at its place in the list.
LEMMA ListGrows ==
    ASSUME NEW files, NEW list, NEW done \in Nat, NEW shown,
           done < Len(files), Len(files) \in Nat,
           NEW f, f = files[done + 1], f \in ToSet(files), f \in shown,
           \A g \in ToSet(files) : g.time \in Nat,
           \A i, j \in 1..Len(files) : files[i].name = files[j].name => i = j,
           ListedFrom(list, files, done, shown),
           NEW new, new = AddLoaderListEntry(list, f)
    PROVE  ListedFrom(new, files, done + 1, shown)
<1>0. /\ list \in Seq(ToSet(files))
      /\ \A g \in ToSet(files) : g \in ToSet(list) <=> g \in shown /\ \E k \in 1..done : files[k] = g
      /\ \A i, j \in 1..Len(list) : i < j => Older(list[i], list[j])
      /\ \A i, j \in 1..Len(list) : i < j /\ list[i].class = "rescue" =>
            \A a, b \in 1..Len(files) : files[a] = list[i] /\ files[b] = list[j] => a <= b
  BY DEF ListedFrom
<1>1. PICK k \in 1..(Len(list) + 1) : new \in Seq(ToSet(files)) /\ PutAt(new, list, f, k)
  <2> DEFINE X == ToSet(files)
  <2>1. list \in Seq(X) /\ f \in X /\ \A x \in X : x.time \in Nat
    BY <1>0
  <2>. HIDE DEF X
  <2>2. /\ AddLoaderListEntry(list, f) \in Seq(X)
        /\ \E k \in 1..(Len(list) + 1) : PutAt(AddLoaderListEntry(list, f), list, f, k)
    BY <2>1, Inserted
  <2>. QED BY <2>2 DEF X
<1>2. /\ IsSequence(list) /\ Len(list) \in Nat /\ \A i \in 1..Len(list) : list[i] \in ToSet(list)
      /\ ToSet(list) \subseteq ToSet(files)
  BY <1>0, OwnElements, SequenceFacts
<1>3. IsSequence(new) /\ ToSet(new) \subseteq ToSet(files)
  BY <1>1, OwnElements
<1>8. Len(new) = Len(list) + 1 /\ k \in 1..Len(new)
  BY <1>1, <1>2 DEF PutAt
<1>9. ASSUME NEW i \in 1..Len(new)
      PROVE  /\ i < k => i \in 1..Len(list) /\ new[i] = list[i]
             /\ i = k => new[i] = f
             /\ i > k => i - 1 \in 1..Len(list) /\ new[i] = list[i - 1]
             /\ i < k \/ i = k \/ i > k
  <2>1. i \in 1..(Len(list) + 1)
    BY <1>8
  <2>2. new[i] = IF i < k THEN list[i] ELSE IF i = k THEN f ELSE list[i - 1]
    BY <1>1, <2>1 DEF PutAt
  <2>3. i < k \/ i = k \/ i > k
    OBVIOUS
  <2>4. i < k => i \in 1..Len(list)
    BY <1>2
  <2>5. i > k => i - 1 \in 1..Len(list)
    BY <1>2, <2>1
  <2>. QED BY <2>2, <2>3, <2>4, <2>5
<1>4. ToSet(new) = ToSet(list) \cup {f}
  <2>1. ASSUME NEW g \in ToSet(new) PROVE g \in ToSet(list) \cup {f}
    <3>1. PICK i \in 1..Len(new) : new[i] = g
      BY <1>3, SequenceFacts
    <3>. QED BY <1>2, <1>9, <3>1
  <2>2. f \in ToSet(new)
    <3>1. new[k] = f
      BY <1>8, <1>9
    <3>. QED BY <1>3, <1>8, <3>1, SequenceFacts
  <2>3. ASSUME NEW g \in ToSet(list) PROVE g \in ToSet(new)
    <3>1. PICK i \in 1..Len(list) : list[i] = g
      BY <1>2, SequenceFacts
    <3>2. CASE i < k
      <4>1. i \in 1..Len(new) /\ new[i] = g
        BY <1>2, <1>8, <1>9, <3>1, <3>2
      <4>. QED BY <1>3, <4>1, SequenceFacts
    <3>3. CASE ~(i < k)
      <4>1. i + 1 \in 1..Len(new) /\ i + 1 > k /\ i + 1 - 1 = i
        BY <1>2, <1>8, <3>3
      <4>2. new[i + 1] = g
        BY <1>9, <3>1, <4>1
      <4>. QED BY <1>3, <4>1, <4>2, SequenceFacts
    <3>. QED BY <3>2, <3>3
  <2>. QED BY <2>1, <2>2, <2>3
<1>5. \A g \in ToSet(files) :
         g \in ToSet(new) <=> g \in shown /\ \E i \in 1..(done + 1) : files[i] = g
  <2>1. \A g : (\E i \in 1..(done + 1) : files[i] = g) <=> (\E i \in 1..done : files[i] = g) \/ g = f
    <3>1. 1..(done + 1) = 1..done \cup {done + 1}
      OBVIOUS
    <3>. QED BY <3>1
  <2>. QED BY <1>0, <1>4, <2>1
<1>6. ASSUME NEW i \in 1..Len(new), NEW j \in 1..Len(new), i < j
      PROVE  Older(new[i], new[j])
  <2>0. f.time \in Nat /\ \A m \in 1..Len(list) : list[m].time \in Nat
    BY <1>2
  <2>1. CASE j < k
    BY <1>0, <1>6, <1>9, <2>1
  <2>2. CASE j = k
    <3>1. i \in 1..Len(list) /\ i < k /\ new[i] = list[i] /\ new[j] = f
      BY <1>6, <1>9, <2>2
    <3>2. f.class # "rescue" => list[i].class = "rescue" \/ list[i].time > f.time
      BY <1>1, <3>1 DEF PutAt
    <3>. QED BY <2>0, <3>1, <3>2, SMTT(60) DEF Older
  <2>3. CASE j > k /\ i < k
    <3>1. i \in 1..Len(list) /\ j - 1 \in 1..Len(list)
          /\ new[i] = list[i] /\ new[j] = list[j - 1]
      BY <1>9, <2>3
    <3>2. i < j - 1
      BY <2>3, <1>8
    <3>. QED BY <1>0, <3>1, <3>2
  <2>4. CASE j > k /\ i > k
    <3>1. i - 1 \in 1..Len(list) /\ j - 1 \in 1..Len(list)
          /\ new[i] = list[i - 1] /\ new[j] = list[j - 1]
      BY <1>9, <2>4
    <3>2. i - 1 < j - 1
      BY <1>6
    <3>. QED BY <1>0, <3>1, <3>2
  <2>5. CASE j > k /\ i = k
    <3>1. j - 1 \in 1..Len(list) /\ new[i] = f /\ new[j] = list[j - 1]
      BY <1>9, <2>5
    <3>2. k \in 1..Len(list) /\ k <= Len(list) /\ (k = j - 1 \/ k < j - 1)
      BY <1>2, <2>5, <3>1
    <3>3. list[k].class # "rescue" /\ f.time >= list[k].time
      BY <1>1, <3>2 DEF PutAt
    <3>4. k = j - 1 \/ Older(list[k], list[j - 1])
      BY <1>0, <3>1, <3>2
    <3>5. list[j - 1].class # "rescue" => list[k].time >= list[j - 1].time
      BY <2>0, <3>1, <3>2, <3>3, <3>4, SMTT(60) DEF Older
    <3>6. list[j - 1].class # "rescue" => f.time >= list[j - 1].time
      BY <2>0, <3>1, <3>2, <3>3, <3>5, SMTT(60)
    <3>. QED BY <3>1, <3>6 DEF Older
  <2>. QED BY <1>6, <1>8, <2>1, <2>2, <2>3, <2>4, <2>5
<1>7. ASSUME NEW i \in 1..Len(new), NEW j \in 1..Len(new), i < j, new[i].class = "rescue",
             NEW a \in 1..Len(files), NEW b \in 1..Len(files), files[a] = new[i], files[b] = new[j]
      PROVE  a <= b
  <2>1. i # k
    <3> SUFFICES ASSUME i = k PROVE FALSE
      OBVIOUS
    <3>1. f.class = "rescue" => k = Len(list) + 1
      BY <1>1 DEF PutAt
    <3>2. k = Len(list) + 1
      BY <1>7, <1>9, <3>1
    <3>. QED BY <1>2, <1>7, <1>8, <3>2
  <2>2. CASE j < k
    <3>1. i \in 1..Len(list) /\ j \in 1..Len(list) /\ new[i] = list[i] /\ new[j] = list[j]
      BY <1>7, <1>9, <2>2, SMTT(60)
    <3>. QED BY <1>0, <1>7, <3>1, SMTT(60)
  <2>3. CASE j = k
    <3>1. i \in 1..Len(list) /\ new[i] = list[i] /\ new[j] = f
      BY <1>7, <1>9, <2>3
    <3>2. list[i] \in ToSet(list) /\ list[i] \in ToSet(files)
      BY <1>2, <3>1
    <3>3. PICK m \in 1..done : files[m] = list[i]
      BY <1>0, <3>2
    <3>4. m \in 1..Len(files) /\ done + 1 \in 1..Len(files)
      OBVIOUS
    <3>5. a = m
      <4>1. files[a].name = files[m].name
        BY <1>7, <3>1, <3>3
      <4>. QED BY <3>4, <4>1
    <3>6. b = done + 1
      <4>1. files[b].name = files[done + 1].name
        BY <1>7, <3>1
      <4>. QED BY <3>4, <4>1
    <3>. QED BY <3>5, <3>6
  <2>4. CASE j > k /\ i < k
    <3>1. i \in 1..Len(list) /\ j - 1 \in 1..Len(list)
          /\ new[i] = list[i] /\ new[j] = list[j - 1]
      BY <1>9, <2>4
    <3>2. i < j - 1
      BY <2>4, <1>8
    <3>. QED BY <1>0, <1>7, <3>1, <3>2, SMTT(60)
  <2>5. CASE j > k /\ i > k
    <3>1. i - 1 \in 1..Len(list) /\ j - 1 \in 1..Len(list)
          /\ new[i] = list[i - 1] /\ new[j] = list[j - 1]
      BY <1>9, <2>5
    <3>2. i - 1 < j - 1
      BY <1>7
    <3>3. /\ list[i - 1].class = "rescue" /\ files[a] = list[i - 1] /\ files[b] = list[j - 1]
      BY <1>7, <3>1
    <3> DEFINE x == i - 1
               y == j - 1
    <3>4. /\ x \in 1..Len(list) /\ y \in 1..Len(list) /\ x < y
          /\ list[x].class = "rescue" /\ files[a] = list[x] /\ files[b] = list[y]
      BY <3>1, <3>2, <3>3
    <3>. HIDE DEF x, y
    <3>. QED BY <1>0, <3>4, ZenonT(60)
  <2>. QED BY <1>7, <1>8, <2>1, <2>2, <2>3, <2>4, <2>5
<1>. QED BY <1>1, <1>5, <1>6, <1>7 DEF ListedFrom

\* LoaderList begins empty.
LEMMA OpenDirLists ==
    ASSUME TypeOK, Place, DirOK, OpenDir, NEW n, NEW dir, n = scan.vol, dir = Item
    PROVE  ListOf(n, dir)' /\ dirScan'.at # "add"
<1>1. dirScan' = [NoDir EXCEPT !.at = "read"]
  BY DEF OpenDir
<1>2. /\ dirScan'.at = "read" /\ dirScan'.done = 0 /\ dirScan'.list = <<>>
      /\ dirScan'.duplicate = FALSE
  BY <1>1 DEF NoDir
<1>3. ToSet(<<>>) = {} /\ Len(<<>>) = 0
  BY DEF ToSet
<1>. QED BY <1>2, <1>3 DEF ListOf

\* LoaderList stays sorted with one more file.
LEMMA ReadFileLists ==
    ASSUME TypeOK, Place, DirOK, ReadFile, NEW n, NEW dir, n = scan.vol, dir = Item
    PROVE  ListOf(n, dir)' /\ dirScan'.at # "add"
<1> DEFINE v == machine[n]
           files == FilesIn(v, dir)
           list == dirScan.list
           shown == {g \in ToSet(files) : IsShown(v, n, dir, g)}
           d == dirScan.done
<1>1. /\ UNCHANGED <<machine, settings, launch, patterns, claims, scan>>
      /\ Files = files /\ Volume = v /\ FilesOK(v, dir)
  BY InDirIs
<1>2. /\ DOMAIN dirScan = DOMAIN NoDir /\ d \in Nat
      /\ dirScan.at = "read" /\ d < Len(files)
  BY <1>1 DEF TypeOK, ReadFile
<1>3. ListOf(n, dir)
  BY <1>2 DEF DirOK
<1>4. /\ list \in Seq(ToSet(files))
      /\ \A g \in ToSet(files) : g \in ToSet(list) <=> g \in shown /\ \E k \in 1..d : files[k] = g
      /\ \A i, j \in 1..Len(list) : i < j => Older(list[i], list[j])
      /\ \A i, j \in 1..Len(list) : i < j /\ list[i].class = "rescue" =>
            \A a, b \in 1..Len(files) : files[a] = list[i] /\ files[b] = list[j] => a <= b
      /\ dirScan.duplicate => HasTwin(n)
  BY <1>2, <1>3 DEF ListOf
<1>5. PICK f : f = files[d + 1]
  OBVIOUS
<1>6. f \in ToSet(files) /\ d + 1 \in 1..Len(files) /\ Len(files) \in Nat
  BY <1>1, <1>2, <1>5 DEF FilesOK
<1> DEFINE new == AddLoaderListEntry(list, f)
           twin == dirScan.duplicate \/ DuplicatesFallback(v, <<dir, f.name>>)
           grown == [dirScan EXCEPT !.done = @ + 1]
<1>7. dirScan' = IF IsShown(v, n, dir, f)
                 THEN [grown EXCEPT !.list = AddLoaderListEntry(@, f),
                                    !.duplicate = @ \/ DuplicatesFallback(v, <<dir, f.name>>)]
                 ELSE grown
  BY <1>1, <1>5 DEF ReadFile
<1>8. /\ DOMAIN grown = DOMAIN NoDir /\ grown.at = "read" /\ grown.done = d + 1
      /\ grown.list = list /\ grown.duplicate = dirScan.duplicate
  BY <1>2 DEF NoDir
<1>9. dirScan' = IF IsShown(v, n, dir, f)
                 THEN [grown EXCEPT !.list = new, !.duplicate = twin] ELSE grown
  <2>. HIDE DEF grown, v, files, IsShown
  <2>. QED BY <1>7, <1>8
<1>10. \A w, g : IsShown(w, n, dir, g)' = IsShown(w, n, dir, g)
  BY <1>1 DEF IsShown, IsLoader
<1>11. HasTwin(n)' = HasTwin(n)
  BY <1>1 DEF HasTwin
<1>12. CASE IsShown(v, n, dir, f)
  <2>. HIDE DEF new, twin, grown
  <2>1. /\ dirScan'.at = "read" /\ dirScan'.done = d + 1 /\ dirScan'.list = new
        /\ dirScan'.duplicate = twin
    BY <1>8, <1>9, <1>12 DEF NoDir
  <2>2. f \in shown
    BY <1>6, <1>12
  <2>3. /\ \A g \in ToSet(files) : g.time \in Nat
        /\ \A i, j \in 1..Len(files) : files[i].name = files[j].name => i = j
    BY <1>1 DEF FilesOK
  <2>4. twin => HasTwin(n)
    <3>1. IsPath(<<dir, f.name>>)
      BY DEF IsPath
    <3>. QED BY <1>4, <3>1, TwinIs DEF twin
  <2>. HIDE DEF shown, files, list, d, v
  <2>5. ListedFrom(new, files, d + 1, shown)
    <3>1. new = AddLoaderListEntry(list, f)
      BY DEF new
    <3>2. ListedFrom(list, files, d, shown)
      BY <1>4 DEF ListedFrom
    <3>. QED BY <1>2, <1>5, <1>6, <2>2, <2>3, <3>1, <3>2, ListGrows
  <2>6. machine' = machine
    BY <1>1
  <2>. QED BY <1>10, <1>11, <2>1, <2>4, <2>5, <2>6 DEF ListOf, ListedFrom, shown, files, v
<1>13. CASE ~IsShown(v, n, dir, f)
  <2>. HIDE DEF new, twin
  <2>1. /\ dirScan'.at = "read" /\ dirScan'.done = d + 1 /\ dirScan'.list = list
        /\ dirScan'.duplicate = dirScan.duplicate
    BY <1>8, <1>9, <1>13
  <2>2. ASSUME NEW g \in ToSet(files)
        PROVE  g \in ToSet(list) <=> g \in shown /\ \E k \in 1..(d + 1) : files[k] = g
    <3>1. (\E k \in 1..(d + 1) : files[k] = g) <=> (\E k \in 1..d : files[k] = g) \/ g = f
      <4>1. 1..(d + 1) = 1..d \cup {d + 1}
        BY <1>2
      <4>. QED BY <1>5, <4>1
    <3>. QED BY <1>4, <1>13, <3>1
  <2>3. machine' = machine
    BY <1>1
  <2>. HIDE DEF d, list
  <2>. QED BY <1>4, <1>10, <1>11, <2>1, <2>2, <2>3 DEF ListOf
<1>. QED BY <1>12, <1>13

\* LoaderList holds all files that are shown when its entries begin to be added.
LEMMA DirReadLists ==
    ASSUME TypeOK, Place, DirOK, DirRead, NEW n, NEW dir, n = scan.vol, dir = Item
    PROVE  ListOf(n, dir)' /\ AddsOf(n, dir)'
<1>1. /\ UNCHANGED <<machine, settings, launch, patterns, claims, scan>>
      /\ Files = FilesIn(machine[n], dir)
  BY InDirIs
<1>2. /\ DOMAIN dirScan = DOMAIN NoDir /\ dirScan.at = "read"
      /\ dirScan.done = Len(FilesIn(machine[n], dir)) /\ dirScan.first = 0
  BY <1>1 DEF TypeOK, DirRead, Place, ScanPlace, DirPlace
<1>3. dirScan' = [dirScan EXCEPT !.at = "add", !.done = 0]
  BY DEF DirRead
<1>4. /\ dirScan'.at = "add" /\ dirScan'.done = 0 /\ dirScan'.list = dirScan.list
      /\ dirScan'.duplicate = dirScan.duplicate /\ dirScan'.first = 0
  BY <1>2, <1>3 DEF NoDir
<1>5. ListOf(n, dir)
  BY <1>2 DEF DirOK
<1>6. ListOf(n, dir)'
  BY <1>1, <1>2, <1>4, <1>5, ListStays
<1>. QED BY <1>4, <1>6 DEF AddsOf

\* LoaderList is in order from the loader at hand on.
LEMMA ListFacts ==
    ASSUME TypeOK, Place, DirOK, Adds, NEW n, NEW dir, n = scan.vol, dir = Item
    PROVE  LET list == dirScan.list
               d == dirScan.done
               files == FilesIn(machine[n], dir)
           IN  /\ \A j \in 1..Len(list) : list[j] \in ToSet(files)
               /\ d \in Nat /\ Len(list) \in Nat /\ d + 1 \in 1..Len(list)
               /\ Loader = list[d + 1]
               /\ \A j \in (d + 2)..Len(list) : Older(Loader, list[j])
<1>1. /\ ListOf(n, dir) /\ dirScan.done + 1 \in 1..Len(dirScan.list) /\ Len(dirScan.list) \in Nat
      /\ Loader = dirScan.list[dirScan.done + 1]
  BY AtLoader
<1>2. dirScan.done \in Nat
  BY DEF TypeOK
<1>3. dirScan.list \in Seq(ToSet(FilesIn(machine[n], dir)))
  BY <1>1 DEF ListOf
<1>4. ASSUME NEW j \in 1..Len(dirScan.list) PROVE dirScan.list[j] \in ToSet(FilesIn(machine[n], dir))
  BY <1>3
<1>5. ASSUME NEW j \in (dirScan.done + 2)..Len(dirScan.list) PROVE Older(Loader, dirScan.list[j])
  <2>1. j \in 1..Len(dirScan.list) /\ dirScan.done + 1 < j
    BY <1>1, <1>2
  <2>. QED BY <1>1, <2>1 DEF ListOf
<1>. QED BY <1>1, <1>2, <1>4, <1>5

\* What was reachable of the list stays so.
LEMMA AddedStay ==
    ASSUME TypeOK, Place, DirOK, EntriesOK, Running, Adds,
           NEW n, NEW dir, n = scan.vol, dir = Item,
           NEW j \in 1..dirScan.done, NEW f, f = dirScan.list[j]
    PROVE  Reachable(n, dir, f)'
<1>1. /\ n \in 1..Len(machine) /\ AddsOf(n, dir) /\ Len(dirScan.list) \in Nat
      /\ dirScan.done + 1 \in 1..Len(dirScan.list) /\ dirScan.done \in Nat
  BY AtLoader, AtVolume DEF TypeOK
<1>2. f \in ToSet(FilesIn(machine[n], dir))
  <2>1. j \in 1..Len(dirScan.list)
    BY <1>1
  <2>. QED BY <2>1, ListFacts
<1>3. Reachable(n, dir, f)
  BY <1>1 DEF AddsOf
<1>. QED BY <1>1, <1>2, <1>3, StaysReachable

\* A folded kernel is no newer than those before it.
LEMMA FoldKernelAdds ==
    ASSUME TypeOK, Place, DirOK, EntriesOK, FoldKernel, NEW n, NEW dir, n = scan.vol, dir = Item
    PROVE  ListOf(n, dir)' /\ AddsOf(n, dir)'
<1> DEFINE list == dirScan.list
           d == dirScan.done
<1>1. /\ UNCHANGED <<machine, settings, launch, patterns, claims, scan>>
      /\ Volume = machine[n] /\ Running
  BY InDirIs
<1>2. /\ DOMAIN dirScan = DOMAIN NoDir /\ Adds /\ dirScan.at = "add" /\ d \in Nat
  BY DEF TypeOK, FoldKernel, Adds
<1>3. dirScan' = [dirScan EXCEPT !.done = d + 1]
  BY DEF FoldKernel
<1>4. /\ dirScan'.at = "add" /\ dirScan'.done = d + 1 /\ dirScan'.list = list
      /\ dirScan'.duplicate = dirScan.duplicate /\ dirScan'.first = dirScan.first
  BY <1>2, <1>3 DEF NoDir
<1>5. /\ ListOf(n, dir) /\ AddsOf(n, dir) /\ n \in 1..Len(machine)
      /\ FileOf(n, <<dir, Loader.name>>) = Loader
  BY <1>2, AtLoader, AtVolume DEF FileOf
<1>6. ListOf(n, dir)'
  BY <1>1, <1>2, <1>4, <1>5, ListStays
<1>7. PICK f, k, p : f = Loader /\ k = dirScan.first /\ p = <<dir, f.name>>
  OBVIOUS
<1>8. /\ k \in 1..Len(menu) /\ settings.fold /\ Linux(f)
      /\ machine[n].options[dir] \in Nat
      /\ FoldedInto(menu', menu, k, p, machine[n].options[dir])
  BY <1>1, <1>7, FoldIs
<1>9. PICK e, g : e = menu[k] /\ g = menu'[k]
  OBVIOUS
<1>10. /\ g.vol = e.vol /\ g.bls = e.bls /\ g.os = e.os /\ g.path = e.path
       /\ ToSet(g.sub) \subseteq ToSet(e.sub) \cup {p}
       /\ machine[n].options[dir] > 0 => p \in ToSet(g.sub)
       /\ IsSequence(menu') /\ Len(menu') = Len(menu)
  <2>1. g = [vol |-> e.vol, path |-> e.path, os |-> e.os, bls |-> e.bls, sub |-> g.sub]
    BY <1>8, <1>9 DEF FoldedInto
  <2>2. g.vol = e.vol /\ g.bls = e.bls /\ g.os = e.os /\ g.path = e.path
    BY <2>1
  <2>3. /\ ToSet(g.sub) \subseteq ToSet(e.sub) \cup {p}
        /\ machine[n].options[dir] > 0 => p \in ToSet(g.sub)
        /\ IsSequence(menu') /\ Len(menu') = Len(menu)
    BY <1>8, <1>9 DEF FoldedInto
  <2>. QED BY <2>2, <2>3
<1>11. /\ e.vol = n /\ e.bls = 0 /\ e.os = "L" /\ e.path[1] = dir /\ ReadFirst(n, e.path)
       /\ \A q \in KernelsOf(e) : \A j \in (d + 1)..Len(list) : Older(FileOf(n, q), list[j])
  <2>1. k # 0
    BY <1>8
  <2>. QED BY <1>5, <1>7, <1>9, <2>1 DEF AddsOf
<1>12. ReadFirst(n, e.path)'
  <2>1. \A v, h, i : IsShown(v, n, h, i)' = IsShown(v, n, h, i)
    BY <1>1 DEF IsShown, IsLoader
  <2>. QED BY <1>1, <1>11, <2>1 DEF ReadFirst, FileOf
<1>13. ASSUME NEW q \in KernelsOf(g), NEW j \in (d + 2)..Len(list)
       PROVE  Older(FileOf(n, q), list[j])
  <2>1. CASE q \in KernelsOf(e)
    <3>1. j \in (d + 1)..Len(list)
      BY <1>2, ListFacts
    <3>. QED BY <1>11, <2>1, <3>1
  <2>2. CASE q = p
    <3>1. Older(Loader, list[j])
      BY <1>2, ListFacts
    <3>. QED BY <1>5, <1>7, <2>2, <3>1
  <2>. QED BY <1>10, <2>1, <2>2 DEF KernelsOf
<1>14. Reachable(n, dir, f)'
  <2>1. CASE machine[n].options[dir] > 0
    <3>1. p \in ToSet(g.sub) /\ g.vol = n /\ g \in ToSet(menu')
      BY <1>8, <1>9, <1>10, <1>11, <2>1, SequenceFacts
    <3>2. Offered(n, p)'
      BY <3>1 DEF Offered
    <3>. QED BY <1>7, <3>2 DEF Reachable
  <2>2. CASE machine[n].options[dir] = 0
    <3>1. LostInFold(n, dir, f)'
      BY <1>1, <1>8, <2>2 DEF LostInFold
    <3>. QED BY <3>1 DEF Reachable
  <2>. QED BY <1>8, <2>1, <2>2
<1>15. ASSUME NEW j \in 1..(d + 1), NEW h, h = list[j]
       PROVE  Reachable(n, dir, h)'
  <2>1. j \in 1..d \/ j = d + 1
    BY <1>2
  <2>2. CASE j = d + 1
    BY <1>7, <1>14, <1>15, <2>2 DEF Loader
  <2>3. CASE j \in 1..d
    BY <1>1, <1>2, <1>15, <2>3, AddedStay
  <2>. QED BY <2>1, <2>2, <2>3
<1>16. k # 0 /\ dirScan'.first = k /\ menu'[dirScan'.first] = g
  BY <1>4, <1>7, <1>8, <1>9
<1>17. \A q \in KernelsOf(g) : \A j \in (d + 1 + 1)..Len(list) : Older(FileOf(n, q)', list[j])
  <2>1. d + 1 + 1 = d + 2
    BY <1>2
  <2>2. \A q : FileOf(n, q)' = FileOf(n, q)
    BY <1>1 DEF FileOf
  <2>. QED BY <1>13, <2>1, <2>2
<1>18. AddsOf(n, dir)'
  <2>. HIDE DEF d, list
  <2>. QED BY <1>4, <1>10, <1>11, <1>12, <1>15, <1>16, <1>17 DEF AddsOf, KernelsOf
<1>. QED BY <1>6, <1>18

\* A loader that is added can be reached, and the first kernel is the newest.
LEMMA AddListedAdds ==
    ASSUME TypeOK, Place, DirOK, EntriesOK, AddListed, NEW n, NEW dir, n = scan.vol, dir = Item
    PROVE  ListOf(n, dir)' /\ AddsOf(n, dir)'
<1> DEFINE list == dirScan.list
           d == dirScan.done
           files == FilesIn(machine[n], dir)
<1>1. /\ UNCHANGED <<machine, settings, launch, patterns, claims, scan>>
      /\ Volume = machine[n] /\ Running /\ FilesOK(machine[n], dir) /\ OnVolume
  BY InDirIs
<1>2. /\ DOMAIN dirScan = DOMAIN NoDir /\ Adds /\ ~Folds(Loader) /\ dirScan.at = "add" /\ d \in Nat
  BY DEF TypeOK, AddListed, Adds
<1>3. PICK f, p, e : /\ f = Loader /\ p = <<dir, f.name>>
                     /\ e = Entry(n, p, OSType(FileAt(machine[n], p)), 0)
  OBVIOUS
<1>4. /\ ListOf(n, dir) /\ AddsOf(n, dir) /\ n \in 1..Len(machine)
      /\ FileAt(machine[n], p) = f /\ f = list[d + 1] /\ f \in ToSet(files)
      /\ d + 1 \in 1..Len(list) /\ Len(list) \in Nat
  BY <1>2, <1>3, AtLoader, AtVolume
<1>5. menu' = Append(menu, e)
  <2>1. VolumeScanAllowed(machine[n], TRUE)
    BY <1>1, <1>2, AtLoader, AtVolume
  <2>2. menu' = AddLoaderEntry(menu, machine[n], n, p)
    BY <1>1, <1>3 DEF AddListed
  <2>3. menu' = Append(menu, Entry(n, p, OSType(FileAt(machine[n], p)), 0))
    BY <2>1, <2>2, LoaderAdded, ZenonT(60)
  <2>. QED BY <1>3, <2>3
<1>6. /\ e.vol = n /\ e.path = p /\ e.bls = 0 /\ e.os = OSType(f) /\ e.sub = <<>>
      /\ p[1] = dir
  BY <1>3, <1>4 DEF Entry
<1>7. /\ IsSequence(menu') /\ Len(menu') = Len(menu) + 1 /\ Len(menu) \in Nat
      /\ menu'[Len(menu) + 1] = e /\ e \in ToSet(menu')
      /\ \A i \in 1..Len(menu) : menu'[i] = menu[i]
  <2>1. IsSequence(menu) /\ Len(menu) \in Nat
    BY TypesAre, SequenceFacts DEF MenuTyped
  <2>. QED BY <1>5, <2>1, Appended
<1> DEFINE k == IF Linux(f) /\ dirScan.first = 0 THEN Len(menu) + 1 ELSE dirScan.first
<1>8. /\ dirScan'.at = "add" /\ dirScan'.done = d + 1 /\ dirScan'.list = list
      /\ dirScan'.duplicate = dirScan.duplicate /\ dirScan'.first = k
  <2>1. dirScan' = [dirScan EXCEPT !.done = d + 1, !.first = k]
    BY <1>3 DEF AddListed
  <2>. HIDE DEF k
  <2>. QED BY <1>2, <2>1 DEF NoDir
<1>9. ListOf(n, dir)'
  BY <1>1, <1>2, <1>4, <1>8, ListStays
<1>10. \A v, h, i : IsShown(v, n, h, i)' = IsShown(v, n, h, i)
  BY <1>1 DEF IsShown, IsLoader
<1>11. Reachable(n, dir, f)'
  <2>1. Offered(n, p)'
    BY <1>6, <1>7 DEF Offered
  <2>. QED BY <1>3, <2>1 DEF Reachable
<1>12. ASSUME NEW j \in 1..(d + 1), NEW h, h = list[j]
       PROVE  Reachable(n, dir, h)'
  <2>1. j \in 1..d \/ j = d + 1
    BY <1>2
  <2>2. CASE j = d + 1
    BY <1>4, <1>11, <1>12, <2>2
  <2>3. CASE j \in 1..d
    BY <1>1, <1>2, <1>12, <2>3, AddedStay
  <2>. QED BY <2>1, <2>2, <2>3
<1>13. \A j \in (d + 2)..Len(list) : Older(f, list[j])
  BY <1>2, <1>3, ListFacts
<1>14. d + 1 + 1 = d + 2
  BY <1>2
<1>15. \A q : FileOf(n, q)' = FileOf(n, q)
  BY <1>1 DEF FileOf
<1>16. CASE Linux(f) /\ dirScan.first = 0
  <2>1. dirScan'.first = Len(menu) + 1 /\ dirScan'.first # 0 /\ menu'[dirScan'.first] = e
    BY <1>7, <1>8, <1>16
  <2>2. e.os = "L"
    <3>1. OSType(f) = "L"
      BY <1>16, OSTypeIs
    <3>. QED BY <1>6, <3>1
  <2>3. ReadFirst(n, p)
    <3> SUFFICES ASSUME f.class = "rescue", NEW i \in 1..Len(files), NEW j \in 1..Len(files),
                        files[i] = f, Linux(files[j]), IsShown(machine[n], n, dir, files[j])
                 PROVE  i <= j
      BY <1>4, <1>6 DEF ReadFirst, FileOf
    <3>1. /\ IsSequence(files) /\ files[j] \in ToSet(files)
          /\ \A a, b \in 1..Len(files) : files[a].name = files[b].name => a = b
      BY <1>1 DEF FilesOK
    <3>2. files[j] \in ToSet(list)
      BY <1>2, <1>4, <3>1 DEF ListOf
    <3>3. PICK b \in 1..Len(list) : list[b] = files[j]
      <4>1. IsSequence(list)
        BY <1>4, OwnElements DEF ListOf
      <4>. QED BY <3>2, <4>1, SequenceFacts
    <3>4. CASE b <= d
      <4>1. b \in 1..d /\ ~Linux(list[b])
        BY <1>2, <1>4, <1>16, <3>4 DEF AddsOf
      <4>. QED BY <3>3, <4>1
    <3>5. CASE b = d + 1
      <4>1. files[i].name = files[j].name
        BY <1>4, <3>3, <3>5
      <4>. QED BY <3>1, <4>1
    <3>6. CASE d + 1 < b
      <4>1. \A x, y \in 1..Len(list) : x < y /\ list[x].class = "rescue" =>
               \A a, c \in 1..Len(files) : files[a] = list[x] /\ files[c] = list[y] => a <= c
        BY <1>4 DEF ListOf
      <4> DEFINE x == d + 1
      <4>2. x \in 1..Len(list) /\ x < b /\ list[x].class = "rescue" /\ files[i] = list[x]
        BY <1>4, <3>6
      <4>. HIDE DEF x
      <4>. QED BY <3>3, <4>1, <4>2
    <3>. QED BY <1>2, <3>4, <3>5, <3>6
  <2>4. ReadFirst(n, e.path)'
    BY <1>1, <1>6, <1>10, <2>3 DEF ReadFirst, FileOf
  <2>5. KernelsOf(e) = {p}
    BY <1>6 DEF KernelsOf, ToSet
  <2>6. \A q \in KernelsOf(e) : \A j \in (d + 1 + 1)..Len(list) : Older(FileOf(n, q)', list[j])
    BY <1>4, <1>13, <1>14, <1>15, <2>5 DEF FileOf
  <2>7. AddsOf(n, dir)'
    <3>. HIDE DEF d, list, k
    <3>. QED BY <1>6, <1>8, <1>12, <2>1, <2>2, <2>4, <2>6 DEF AddsOf, KernelsOf
  <2>. QED BY <1>9, <2>7
<1>17. CASE dirScan.first # 0
  <2>0. dirScan.first \in 1..Len(menu)
    BY <1>17 DEF TypeOK
  <2>1. PICK g : g = menu[dirScan.first]
    OBVIOUS
  <2>2. dirScan'.first = dirScan.first /\ dirScan'.first # 0 /\ menu'[dirScan'.first] = g
    BY <1>7, <1>8, <1>17, <2>0, <2>1
  <2>3. /\ g.vol = n /\ g.bls = 0 /\ g.os = "L" /\ g.path[1] = dir /\ ReadFirst(n, g.path)
        /\ \A q \in KernelsOf(g) : \A j \in (d + 1)..Len(list) : Older(FileOf(n, q), list[j])
    BY <1>4, <1>17, <2>1 DEF AddsOf
  <2>4. ReadFirst(n, g.path)'
    BY <1>1, <1>10, <2>3 DEF ReadFirst, FileOf
  <2>5. \A q \in KernelsOf(g) : \A j \in (d + 1 + 1)..Len(list) : Older(FileOf(n, q)', list[j])
    <3>1. \A j \in (d + 1 + 1)..Len(list) : j \in (d + 1)..Len(list)
      BY <1>2, <1>4
    <3>. QED BY <1>15, <2>3, <3>1
  <2>6. AddsOf(n, dir)'
    <3>. HIDE DEF d, list, k
    <3>. QED BY <1>8, <1>12, <2>2, <2>3, <2>4, <2>5 DEF AddsOf, KernelsOf
  <2>. QED BY <1>9, <2>6
<1>18. CASE ~Linux(f) /\ dirScan.first = 0
  <2>1. dirScan'.first = 0
    BY <1>8, <1>18
  <2>2. ASSUME NEW j \in 1..(d + 1) PROVE ~Linux(list[j])
    <3>1. j \in 1..d \/ j = d + 1
      BY <1>2
    <3>. QED BY <1>4, <1>18, <3>1 DEF AddsOf
  <2>3. AddsOf(n, dir)'
    <3>. HIDE DEF d, list, k
    <3>. QED BY <1>8, <1>12, <2>1, <2>2 DEF AddsOf
  <2>. QED BY <1>9, <2>3
<1>. QED BY <1>16, <1>17, <1>18

\* A step keeps what is known of LoaderList.
LEMMA DirStep ==
    ASSUME TypeOK, Place, DirOK, EntriesOK, [Next]_vars
    PROVE  DirOK'
<1>0. PICK n, dir : n = scan.vol /\ dir = Item
  OBVIOUS
<1>1. CASE UNCHANGED vars
  <2>1. \A v, m, h, i : IsShown(v, m, h, i)' = IsShown(v, m, h, i)
    BY <1>1 DEF IsShown, IsLoader, vars
  <2>2. /\ machine' = machine /\ launch' = launch /\ settings' = settings /\ patterns' = patterns
        /\ claims' = claims /\ dirScan' = dirScan /\ menu' = menu /\ scan' = scan /\ Item' = Item
    BY <1>1 DEF vars, Item
  <2>3. ListOf(n, dir) => ListOf(n, dir)'
    BY <2>2, ListStays
  <2>4. AddsOf(n, dir) => AddsOf(n, dir)'
    <3>1. \A m, h, f : Reachable(m, h, f) => Reachable(m, h, f)'
      BY <1>1, Stutters
    <3>2. \A m, p : ReadFirst(m, p) => ReadFirst(m, p)'
      BY <2>1, <2>2 DEF ReadFirst, FileOf
    <3>. QED BY <2>2, <3>1, <3>2 DEF AddsOf, KernelsOf, FileOf
  <2>. QED BY <1>0, <2>2, <2>3, <2>4 DEF DirOK
<1>2. CASE Begin \/ Rescan
  BY <1>2, Restarts DEF DirOK, NoDir
<1>3. CASE Running
  <2>1. CASE ~(OpenDir \/ ReadFile \/ DirRead \/ FoldKernel \/ AddListed)
    BY <1>3, <2>1, OutOfDir DEF DirOK, NoDir
  <2>2. CASE OpenDir \/ ReadFile \/ DirRead \/ FoldKernel \/ AddListed
    <3>1. scan' = scan /\ Item' = Item
      BY <2>2, InDirIs DEF Item
    <3>2. ListOf(n, dir)' /\ (dirScan'.at = "add" => AddsOf(n, dir)')
      BY <1>0, <2>2, OpenDirLists, ReadFileLists, DirReadLists, FoldKernelAdds, AddListedAdds
    <3>. QED BY <1>0, <3>1, <3>2 DEF DirOK
  <2>. QED BY <2>1, <2>2
<1>. QED BY <1>1, <1>2, <1>3 DEF Next, Running

-----------------------------------------------------------------------------
(* Nothing twice.  Where two sources find the same file no theorem holds:   *)
(* SourcesApart is assumed by the lemmas that need it.                      *)

\* scanfor names the kind of volume n twice.
Repeated(n) ==
    \E k, l \in DOMAIN settings.scanfor :
        /\ k # l /\ settings.scanfor[k] = settings.scanfor[l]
        /\ settings.scanfor[k] = machine[n].kind

FirstVisit(n) == OnVolume /\ n = scan.vol /\ ~Passed(n)

\* Whether the menu may hold a path once only.
Judged(n, p) == ~Repeated(n) \/ FirstVisit(n) \/ <<n, p>> \in claims

OnceOK ==
    \A i, j \in 1..Len(menu) :
        /\ menu[i].vol = menu[j].vol /\ menu[i].path = menu[j].path
        /\ Judged(menu[i].vol, menu[i].path)
        => i = j

\* Only volumes that were visited have entries.
VisitedOnly ==
    scan.stage # "undefined" =>
        \A e \in ToSet(menu) : Passed(e.vol) \/ (OnVolume /\ e.vol = scan.vol)

ClaimsAreKernels ==
    scan.stage # "off" => \A c \in claims :
        /\ c[1] \in 1..Len(machine)
        /\ \E e \in ToSet(machine[c[1]].entries) : e.kernel = c[2] /\ IsKernelEntry(machine[c[1]], e)

\* The kernels of loader\entries are claimed when a volume is left.
ClaimsEntry(n, i) ==
    IsKernelEntry(machine[n], machine[n].entries[i])
    => <<n, machine[n].entries[i].kernel>> \in claims

KernelsClaimed ==
    /\ \A n \in 1..Len(machine) : Passed(n) /\ ~SkipsVolume(machine[n]) =>
          \A i \in ToSet(EntriesOf(machine[n])) : ClaimsEntry(n, i)
    /\ scan.stage = "entries" => \A i \in Handled : ClaimsEntry(scan.vol, i)

ListInjective == dirScan.at # "out" => IsInjective(dirScan.list)

\* The entry comes from what ScanLoaderDir has gone through of its list.
FromList(p) ==
    /\ dirScan.at = "add" /\ p[1] = Item
    /\ \E j \in 1..dirScan.done : dirScan.list[j].name = p[2]

\* Where the entries of the volume at hand come from when it is visited for the first time.
OriginOf(v, p, bls) ==
    /\ p # FallbackPath
    /\ bls # 0 => scan.stage = "entries"
    /\ scan.stage = "named" => p \in Handled
    /\ scan.stage = "dirs" => p[1] \in NamedDirs(v) \cup Handled \/ FromList(p)
    /\ scan.stage = "also" /\ scan.fallback =>
          p[1] \in NamedDirs(v) \cup ToSet(RootAndEfi(v)) \cup Handled \/ FromList(p)

OriginsOK ==
    OnVolume => \A n \in {scan.vol} : ~Passed(n) =>
        \A e \in ToSet(menu) : e.vol = n => OriginOf(machine[n], e.path, e.bls)

TwiceInv == OnceOK /\ VisitedOnly /\ ClaimsAreKernels /\ KernelsClaimed /\ ListInjective /\ OriginsOK

\* An entry of the menu was there before, or is of the volume at hand.
CameFrom(g) ==
    \/ \E e \in ToSet(menu) : g.vol = e.vol /\ g.path = e.path /\ g.bls = e.bls
    \/ OnVolume /\ g.vol = scan.vol /\ g.bls = 0 /\ NewPath(g.path)
    \/ BlsEntry /\ More /\ IsKernelEntry(Volume, Volume.entries[Item])
       /\ g.vol = scan.vol /\ g.path = Volume.entries[Item].kernel

LEMMA EntriesCameFrom ==
    ASSUME TypeOK, Place, DirOK, Running
    PROVE  \A g \in ToSet(menu') : CameFrom(g)
<1>0. IsSequence(menu) /\ Len(menu) \in Nat /\ IsSequence(menu')
  BY MenuStays, TypesAre, SequenceFacts DEF MenuTyped
<1>1. CASE menu' = menu
  BY <1>1 DEF CameFrom
<1>2. CASE OnVolume /\ \E p : Added(scan.vol, p) /\ NewPath(p)
  <2>1. PICK p : Added(scan.vol, p) /\ NewPath(p)
    BY <1>2
  <2> DEFINE new == Entry(scan.vol, p, OSType(FileOf(scan.vol, p)), 0)
  <2>2. ToSet(menu') = ToSet(menu) \cup {new}
    BY <2>1, AddedIs
  <2>3. new.vol = scan.vol /\ new.path = p /\ new.bls = 0
    BY DEF Entry
  <2>. HIDE DEF new
  <2>. QED BY <1>2, <2>1, <2>2, <2>3, ZenonT(60) DEF CameFrom
<1>3. CASE FoldKernel
  <2> DEFINE k == dirScan.first
             p == <<Item, Loader.name>>
  <2>1. k \in 1..Len(menu) /\ FoldedInto(menu', menu, k, p, Volume.options[Item])
    BY <1>3, FoldIs
  <2>. HIDE DEF k, p
  <2>2. /\ Len(menu') = Len(menu)
        /\ \A i \in 1..Len(menu) : i # k => menu'[i] = menu[i]
        /\ menu'[k].vol = menu[k].vol /\ menu'[k].path = menu[k].path /\ menu'[k].bls = menu[k].bls
    BY <2>1 DEF FoldedInto
  <2> SUFFICES ASSUME NEW g \in ToSet(menu') PROVE CameFrom(g)
    OBVIOUS
  <2>3. PICK i \in 1..Len(menu) : menu'[i] = g
    BY <1>0, <2>2, SequenceFacts
  <2>4. menu[i] \in ToSet(menu)
    BY <1>0, SequenceFacts
  <2>. QED BY <2>2, <2>3, <2>4 DEF CameFrom
<1>4. CASE BlsEntry
  <2> DEFINE p == Volume.entries[Item].kernel
             new == Entry(scan.vol, p, "L", Item)
             added == Append(menu, new)
  <2>1. CASE ~IsKernelEntry(Volume, Volume.entries[Item])
    BY <1>1, <1>4, <2>1 DEF BlsEntry
  <2>2. CASE IsKernelEntry(Volume, Volume.entries[Item])
    <3>1. More /\ menu' = RemoveBlindLinuxLoaderForBls(added, scan.vol, p)
      BY <1>4, <2>2 DEF BlsEntry
    <3>2. new.vol = scan.vol /\ new.path = p
      BY DEF Entry
    <3>3. IsSequence(added) /\ ToSet(added) = ToSet(menu) \cup {new}
      <4>. HIDE DEF new
      <4>. QED BY <1>0, Appended
    <3>. HIDE DEF new, added, p
    <3>4. ToSet(menu') \subseteq ToSet(added)
      <4>1. CASE menu' = added
        BY <4>1
      <4>2. CASE menu' # added
        <5>1. PICK k \in 1..Len(added) : menu' = RemoveAt(added, k)
          BY <3>1, <3>3, <4>2, BlindRemoved
        <5>. QED BY <3>3, <5>1, Removed
      <4>. QED BY <4>1, <4>2
    <3>5. SUFFICES ASSUME NEW g \in ToSet(menu') PROVE CameFrom(g)
      OBVIOUS
    <3>6. CASE g \in ToSet(menu) BY <3>6 DEF CameFrom
    <3>7. CASE g = new BY <1>4, <2>2, <3>1, <3>2, <3>7 DEF CameFrom, p
    <3>. QED BY <3>3, <3>4, <3>6, <3>7
  <2>. QED BY <2>1, <2>2
<1>5. CASE DropEntry
  BY <1>5, DropIs DEF CameFrom
<1>. QED BY <1>1, <1>2, <1>3, <1>4, <1>5, AddSteps

\* What a step makes of the place of the scan.
LEMMA ScanMoves ==
    ASSUME TypeOK, Place, Running
    PROVE  /\ scan.letter \in Nat /\ scan.vol \in Nat
           /\ scan.stage \notin {"off", "menu", "undefined"}
           /\ \/ NextLetter /\ scan.stage = "letters" /\ scan'.stage = "volumes"
                 /\ scan'.letter = scan.letter /\ scan'.vol = 1
              \/ VolumesDone /\ scan.stage = "volumes" /\ scan'.stage = "letters"
                 /\ scan'.letter = scan.letter + 1
              \/ SkipVolume /\ scan.stage = "volumes" /\ scan'.stage = "volumes"
                 /\ scan'.letter = scan.letter /\ scan'.vol = scan.vol + 1
              \/ Fallback /\ scan.stage = "entries" /\ scan'.stage = "volumes"
                 /\ scan'.letter = scan.letter /\ scan'.vol = scan.vol + 1
              \/ scan.stage \in {"letters", "reconcile"} /\ scan'.stage \in {"reconcile", "menu"}
              \/ /\ EnterVentoy \/ EnterVolume
                 /\ scan.stage = "volumes" /\ OnTheSpot /\ OnVolume'
              \/ OnVolume /\ OnTheSpot /\ (OnVolume' \/ scan'.stage = "undefined")
<1>0. /\ DOMAIN scan = DOMAIN Idle /\ scan.letter \in Nat /\ scan.vol \in Nat
      /\ Onward.stage = scan.stage
  BY TypesAre, OnwardTyped DEF ScanTyped
<1>1. CASE NextLetter BY <1>0, <1>1 DEF NextLetter, Idle
<1>2. CASE VolumesDone BY <1>0, <1>2 DEF VolumesDone, Idle
<1>3. CASE SkipVolume BY <1>0, <1>3 DEF SkipVolume, Idle
<1>4. CASE Fallback BY <1>0, <1>4 DEF Fallback, Idle
<1>5. CASE Reconcile \/ KeepEntry \/ DropEntry \/ Reconciled
  <2>1. /\ scan.stage \in {"letters", "reconcile"}
        /\ \/ scan' \in {Idle, [Idle EXCEPT !.stage = "reconcile"]}
           \/ scan.stage = "reconcile" /\ scan' \in {scan, Onward}
    BY <1>5 DEF Reconcile, KeepEntry, DropEntry, Reconciled
  <2>2. Idle.stage = "menu" /\ [Idle EXCEPT !.stage = "reconcile"].stage = "reconcile"
    BY DEF Idle
  <2>. QED BY <1>0, <2>1, <2>2
<1>6. CASE EnterVentoy \/ EnterVolume
  <2>1. OnTheSpot
    BY <1>6, StaysOnTheSpot
  <2>2. scan.stage = "volumes" /\ scan'.stage \in {"entries", "named"}
    BY <1>0, <1>6 DEF EnterVentoy, EnterVolume, Idle
  <2>. QED BY <1>0, <1>6, <2>1, <2>2 DEF OnVolume
<1>7. CASE NamedLoader \/ NamedDone \/ LoaderDirs \/ OwnAndBsd \/ AlsoScanned \/ BlsEntry
  <2>1. OnTheSpot
    BY <1>7, StaysOnTheSpot
  <2>2. OnVolume
    BY <1>7 DEF NamedLoader, NamedDone, OwnAndBsd, AlsoScanned, BlsEntry, OnVolume,
       LoaderDirs, SkipDir, OpenDir, ReadFile, DirRead, FoldKernel, AddListed, DirDone,
       AtDir, Adds, Place, ScanPlace, DirPlace
  <2>3. OnVolume' \/ scan'.stage = "undefined"
    <3>1. CASE NamedLoader
      <4> DEFINE b == scan.fallback /\ ~DuplicatesFallback(Volume, Item)
      <4>1. (scan' = Onward \/ scan' = [Onward EXCEPT !.fallback = b])
        BY <3>1 DEF NamedLoader, Onward
      <4>. HIDE DEF b
      <4>2. scan'.stage = scan.stage
        BY <1>0, <4>1, OnwardTyped, TypesAre DEF Idle
      <4>. QED BY <2>2, <4>2 DEF OnVolume
    <3>2. CASE DirDone
      <4> DEFINE b == Onward.fallback /\ ~dirScan.duplicate
      <4>1. scan' = [Onward EXCEPT !.fallback = b]
        BY <3>2 DEF DirDone
      <4>. HIDE DEF b
      <4>2. scan'.stage = scan.stage
        BY <1>0, <4>1, OnwardTyped, TypesAre DEF Idle
      <4>. QED BY <2>2, <4>2 DEF OnVolume
    <3>3. CASE SkipDir \/ OpenDir \/ ReadFile \/ DirRead \/ FoldKernel \/ AddListed
      <4>1. scan' \in {scan, Onward}
        BY <3>3 DEF SkipDir, OpenDir, ReadFile, DirRead, FoldKernel, AddListed
      <4>. QED BY <1>0, <2>2, <4>1 DEF OnVolume
    <3>4. CASE NamedDone \/ AlsoScanned
      BY <1>0, <3>4 DEF NamedDone, AlsoScanned, OnVolume, Idle
    <3>5. CASE OwnAndBsd
      <4> DEFINE b == scan.fallback /\ ~OwnCopyIsFallback(Volume) /\ ~ScanBsdRootLoader(Volume)
      <4>1. scan' = [scan EXCEPT !.stage = "also", !.todo = AlsoScanDirs, !.done = 0, !.fallback = b]
        BY <3>5 DEF OwnAndBsd
      <4>. HIDE DEF b
      <4>2. scan'.stage = "also"
        BY <1>0, <4>1 DEF Idle
      <4>. QED BY <4>2 DEF OnVolume
    <3>6. CASE BlsEntry
      <4>1. scan' = Onward \/ scan' = [Onward EXCEPT !.stage = "undefined"]
        BY <3>6 DEF BlsEntry
      <4>2. scan'.stage = scan.stage \/ scan'.stage = "undefined"
        BY <1>0, <4>1, OnwardTyped, TypesAre DEF ScanTyped, Idle
      <4>. QED BY <2>2, <4>2 DEF OnVolume
    <3>. QED BY <1>7, <3>1, <3>2, <3>3, <3>4, <3>5, <3>6 DEF LoaderDirs
  <2>. QED BY <1>0, <2>1, <2>2, <2>3 DEF OnVolume
<1>. QED BY <1>1, <1>2, <1>3, <1>4, <1>5, <1>6, <1>7 DEF Running

\* A volume that is done with stays so.
LEMMA PassedStays ==
    ASSUME TypeOK, Place, Running, NEW n \in 1..Len(machine), Passed(n)
    PROVE  Passed(n)'
<1>0. machine' = machine /\ Ls' = Ls /\ n \in Nat /\ scan.letter \in Nat /\ scan.vol \in Nat
      /\ scan.stage \notin {"off", "menu", "undefined"}
  BY RunningIsSteady, Statics, ScanMoves
<1>1. PICK l \in 1..Len(Ls) : /\ Ls[l] = machine[n].kind
                              /\ \/ scan.stage \in {"reconcile", "menu"}
                                 \/ l < scan.letter
                                 \/ l = scan.letter /\ scan.stage # "letters" /\ n < scan.vol
  BY DEF Passed
<1>2. CASE scan'.stage \in {"reconcile", "menu"}
  BY <1>0, <1>1, <1>2 DEF Passed
<1>3. CASE scan'.stage \notin {"reconcile", "menu"} /\ scan.stage # "reconcile"
  <2>1. l < scan.letter \/ (l = scan.letter /\ scan.stage # "letters" /\ n < scan.vol)
    BY <1>0, <1>1, <1>3
  <2>2. \/ scan'.letter = scan.letter /\ scan.stage = "letters"
        \/ scan'.letter = scan.letter + 1
        \/ scan'.letter = scan.letter /\ scan'.stage # "letters" /\ scan'.vol \in {scan.vol, scan.vol + 1}
    BY <1>3, ScanMoves DEF OnTheSpot
  <2>3. l < scan'.letter \/ (l = scan'.letter /\ scan'.stage # "letters" /\ n < scan'.vol)
    BY <1>0, <2>1, <2>2
  <2>. QED BY <1>0, <1>1, <2>3 DEF Passed
<1>4. CASE scan.stage = "reconcile"
  BY <1>2, <1>4, ScanMoves DEF OnVolume
<1>. QED BY <1>2, <1>3, <1>4

\* After Fallback the volume at hand is done with.
LEMMA FallbackPasses ==
    ASSUME TypeOK, Place, Running, OnVolume, NEW n, n = scan.vol
    PROVE  \/ OnVolume' /\ scan'.vol = scan.vol
           \/ scan'.stage = "undefined"
           \/ Fallback /\ Passed(n)'
<1>0. /\ scan.letter \in Nat /\ scan.vol \in Nat
      /\ scan.stage \in {"named", "dirs", "also", "entries"}
  BY ScanMoves DEF OnVolume
<1>1. CASE ~Fallback
  BY <1>0, <1>1, ScanMoves DEF OnTheSpot
<1>2. CASE Fallback
  <2>1. scan'.stage = "volumes" /\ scan'.letter = scan.letter /\ scan'.vol = scan.vol + 1
    BY <1>2 DEF Fallback, TypeOK, Idle
  <2>2. machine' = machine /\ Ls' = Ls
    BY RunningIsSteady, Statics
  <2>3. scan.letter \in 1..Len(Ls) /\ Ls[scan.letter] = machine[scan.vol].kind
    BY DEF Place, ScanPlace, Visits, Ls, OnVolume
  <2>4. n < scan'.vol
    BY <1>0, <2>1
  <2>5. Passed(n)'
    BY <2>1, <2>2, <2>3, <2>4 DEF Passed
  <2>. QED BY <1>2, <2>5
<1>. QED BY <1>1, <1>2

\* A step keeps entries to the volumes that were visited.
LEMMA VisitedOnlyStep ==
    ASSUME TypeOK, Place, DirOK, VisitedOnly, [Next]_vars
    PROVE  VisitedOnly'
<1>1. CASE UNCHANGED vars
  BY <1>1 DEF vars, VisitedOnly, Passed, OnVolume, Ls
<1>2. CASE Begin \/ Rescan
  BY <1>2, Restarts DEF VisitedOnly
<1>3. CASE Running
  <2>1. SUFFICES ASSUME scan'.stage # "undefined", NEW g \in ToSet(menu')
                 PROVE  Passed(g.vol)' \/ (OnVolume' /\ g.vol = scan'.vol)
    BY DEF VisitedOnly
  <2>2. PICK n : n = g.vol
    OBVIOUS
  <2>3. Passed(n) \/ (OnVolume /\ n = scan.vol)
    <3>1. scan.stage # "undefined"
      BY <1>3, ScanMoves
    <3>2. (\E e \in ToSet(menu) : n = e.vol) \/ (OnVolume /\ n = scan.vol)
      <4>1. CameFrom(g)
        BY <1>3, EntriesCameFrom
      <4>. QED BY <2>2, <4>1 DEF CameFrom, BlsEntry, OnVolume
    <3>. QED BY <3>1, <3>2 DEF VisitedOnly
  <2>4. CASE Passed(n)
    <3>1. n \in 1..Len(machine)
      <4>1. MenuTyped(menu', Len(machine))
        BY <1>3, MenuStays
      <4>. QED BY <2>2, <4>1 DEF MenuTyped, EntryTyped
    <3>2. Passed(n)'
      BY <1>3, <2>4, <3>1, PassedStays
    <3>. QED BY <2>2, <3>2
  <2>5. CASE OnVolume /\ n = scan.vol
    BY <1>3, <2>1, <2>2, <2>5, FallbackPasses
  <2>. QED BY <2>3, <2>4, <2>5
<1>. QED BY <1>1, <1>2, <1>3 DEF Next, Running

\* A step claims kernels only.
LEMMA ClaimsAreKernelsStep ==
    ASSUME TypeOK, Place, DirOK, ClaimsAreKernels, [Next]_vars
    PROVE  ClaimsAreKernels'
<1>1. CASE UNCHANGED vars
  BY <1>1 DEF vars, ClaimsAreKernels
<1>2. CASE Begin
  BY <1>2 DEF Begin, ClaimsAreKernels
<1>3. CASE Rescan
  <2>1. scan'.stage = "off"
    BY <1>3 DEF Rescan, Idle
  <2>. QED BY <2>1 DEF ClaimsAreKernels
<1>4. CASE Running
  <2>1. machine' = machine /\ scan.stage # "off"
    BY <1>4, RunningIsSteady, ScanMoves DEF Steady
  <2>2. SUFFICES ASSUME NEW c \in claims'
                 PROVE  /\ c[1] \in 1..Len(machine)
                        /\ \E e \in ToSet(machine[c[1]].entries) :
                              e.kernel = c[2] /\ IsKernelEntry(machine[c[1]], e)
    BY <2>1 DEF ClaimsAreKernels
  <2>3. CASE c \in claims
    BY <2>1, <2>3 DEF ClaimsAreKernels
  <2>4. CASE c \notin claims
    <3>1. BlsEntry
      BY <1>4, <2>2, <2>4, MenuSteps DEF FoldKernel, DropEntry
    <3> DEFINE e == Volume.entries[Item]
    <3>2. c = <<scan.vol, e.kernel>> /\ IsKernelEntry(Volume, e)
      BY <2>2, <2>4, <3>1 DEF BlsEntry
    <3>3. /\ scan.vol \in 1..Len(machine) /\ Volume = machine[scan.vol]
          /\ e \in ToSet(Volume.entries)
      BY <3>1, AtVolume, AtEntry DEF BlsEntry, OnVolume
    <3>. HIDE DEF e
    <3>. QED BY <3>2, <3>3
  <2>. QED BY <2>3, <2>4
<1>. QED BY <1>1, <1>2, <1>3, <1>4 DEF Next, Running

\* After Begin and Rescan no volume is done with.
LEMMA NonePassed ==
    ASSUME Begin \/ Rescan
    PROVE  scan'.stage \in {"letters", "off"} /\ \A n : ~Passed(n)'
<1>1. scan' \in {[Idle EXCEPT !.stage = "letters", !.letter = 1], [Idle EXCEPT !.stage = "off"]}
  BY DEF Begin, Rescan
<1>2. /\ [Idle EXCEPT !.stage = "letters", !.letter = 1].stage = "letters"
      /\ [Idle EXCEPT !.stage = "letters", !.letter = 1].letter = 1
      /\ [Idle EXCEPT !.stage = "off"].stage = "off"
      /\ [Idle EXCEPT !.stage = "off"].letter = 0
  BY DEF Idle
<1>3. \/ scan'.stage = "letters" /\ scan'.letter = 1
      \/ scan'.stage = "off" /\ scan'.letter = 0
  BY <1>1, <1>2
<1>. QED BY <1>3 DEF Passed

\* The files of loader\entries are begun with, or gone on with.
LEMMA EntriesNext ==
    ASSUME TypeOK, Place, Running, scan'.stage = "entries"
    PROVE  \/ BlsEntry
           \/ (EnterVentoy \/ AlsoScanned) /\ scan'.done = 0
<1>0. DOMAIN scan = DOMAIN Idle
  BY DEF TypeOK
<1>1. CASE EnterVentoy \/ AlsoScanned
  BY <1>0, <1>1 DEF EnterVentoy, AlsoScanned, Idle
<1>2. CASE EnterVolume \/ NamedDone \/ OwnAndBsd
  <2>1. scan'.stage # "entries"
    <3> DEFINE b == scan.fallback /\ ~OwnCopyIsFallback(Volume) /\ ~ScanBsdRootLoader(Volume)
    <3>1. \/ EnterVolume \/ NamedDone
          \/ scan' = [scan EXCEPT !.stage = "also", !.todo = AlsoScanDirs, !.done = 0, !.fallback = b]
      BY <1>2 DEF OwnAndBsd
    <3>. HIDE DEF b
    <3>. QED BY <1>0, <3>1 DEF EnterVolume, NamedDone, Idle
  <2>. QED BY <2>1
<1>3. CASE NamedLoader \/ LoaderDirs
  <2>1. scan'.stage = scan.stage
    <3> DEFINE b == scan.fallback /\ ~DuplicatesFallback(Volume, Item)
               c == Onward.fallback /\ ~dirScan.duplicate
    <3>1. \/ scan' \in {scan, Onward}
          \/ scan' = [Onward EXCEPT !.fallback = b]
          \/ scan' = [Onward EXCEPT !.fallback = c]
      BY <1>3 DEF NamedLoader, Onward, LoaderDirs, SkipDir, OpenDir, ReadFile, DirRead,
         FoldKernel, AddListed, DirDone
    <3>. HIDE DEF b, c
    <3>. QED BY <1>0, <3>1, OnwardTyped, TypesAre DEF ScanTyped, Idle
  <2>2. scan.stage # "entries"
    BY <1>3 DEF NamedLoader, LoaderDirs, SkipDir, OpenDir, ReadFile, DirRead, FoldKernel,
       AddListed, DirDone, AtDir, Adds, Place, ScanPlace, DirPlace
  <2>. QED BY <2>1, <2>2
<1>4. CASE NextLetter \/ VolumesDone \/ SkipVolume \/ Fallback
  BY <1>0, <1>4 DEF NextLetter, VolumesDone, SkipVolume, Fallback, Idle
<1>5. CASE Reconcile \/ KeepEntry \/ DropEntry \/ Reconciled
  <2>1. scan.stage \in {"letters", "reconcile"}
    BY <1>5 DEF Reconcile, KeepEntry, DropEntry, Reconciled
  <2>. QED BY <2>1, ScanMoves DEF OnVolume
<1>. QED BY <1>1, <1>2, <1>3, <1>4, <1>5 DEF Running

\* A step keeps the kernels of loader\entries claimed.
LEMMA KernelsClaimedStep ==
    ASSUME TypeOK, Place, DirOK, KernelsClaimed, [Next]_vars
    PROVE  KernelsClaimed'
<1>1. CASE UNCHANGED vars
  BY <1>1, ZenonT(60) DEF vars, KernelsClaimed, Passed, Ls, Handled, ClaimsEntry, SkipsVolume
<1>2. CASE Begin \/ Rescan
  BY <1>2, NonePassed DEF KernelsClaimed
<1>3. CASE Running
  <2>1. Steady /\ machine' = machine /\ \A v : SkipsVolume(v)' = SkipsVolume(v)
    BY <1>3, RunningIsSteady, Statics
  <2>2. \A n, i : ClaimsEntry(n, i) => ClaimsEntry(n, i)'
    BY <2>1 DEF ClaimsEntry, Steady
  <2>3. ASSUME NEW n \in 1..Len(machine), Passed(n)', ~SkipsVolume(machine[n]),
               NEW i \in ToSet(EntriesOf(machine[n]))
        PROVE  ClaimsEntry(n, i)
    <3>1. CASE Passed(n)
      BY <2>3, <3>1 DEF KernelsClaimed
    <3>2. CASE Fallback /\ n = scan.vol
      <4>1. scan.stage = "entries" /\ ~More /\ OnVolume
        BY <3>2 DEF Fallback, OnVolume
      <4>2. scan.todo = EntriesOf(machine[n]) /\ IsSequence(scan.todo)
        <5>1. scan.todo = EntriesOf(machine[n])
          BY <3>2, <4>1 DEF Place, ScanPlace, Volume
        <5>2. IsSequence(machine[n].entries)
          BY <2>3, VolumeFacts DEF TypeOK
        <5>3. Len(machine[n].entries) \in Nat
              /\ DOMAIN machine[n].entries = 1..Len(machine[n].entries)
          BY <5>2, SequenceFacts
        <5>4. [k \in DOMAIN machine[n].entries |-> k] \in Seq(Nat)
          BY <5>3, FunctionIs
        <5>5. scan.todo \in Seq(Nat)
          BY <5>1, <5>4 DEF EntriesOf
        <5>. QED BY <5>1, <5>5, OwnElements
      <4>3. Handled = ToSet(scan.todo)
        BY <4>1, <4>2, HandledIs
      <4>. QED BY <2>3, <3>2, <4>1, <4>2, <4>3 DEF KernelsClaimed
    <3>. QED BY <1>3, <2>3, <3>1, <3>2, NewlyPassed
  <2>4. ASSUME scan'.stage = "entries", NEW i \in Handled', NEW n, n = scan'.vol
        PROVE  ClaimsEntry(n, i)'
    <3>1. CASE (EnterVentoy \/ AlsoScanned) /\ scan'.done = 0
      BY <2>4, <3>1 DEF Handled
    <3>2. CASE BlsEntry
      <4>1. OnVolume /\ scan.stage = "entries" /\ More
        BY <3>2 DEF BlsEntry, OnVolume
      <4>2. scan' = Onward
        <5>1. scan' = Onward \/ scan' = [Onward EXCEPT !.stage = "undefined"]
          BY <3>2 DEF BlsEntry
        <5>2. [Onward EXCEPT !.stage = "undefined"].stage = "undefined"
          BY OnwardTyped, TypesAre DEF ScanTyped, Idle
        <5>. QED BY <2>4, <5>1, <5>2
      <4>3. scan'.done = scan.done + 1 /\ scan'.todo = scan.todo /\ scan'.vol = scan.vol
        BY <4>2, OnwardTyped, TypesAre
      <4>4. Handled' = Handled \cup {Item}
        BY <4>1, <4>3, HandledIs
      <4>5. CASE i \in Handled
        BY <2>2, <2>4, <4>1, <4>3, <4>5 DEF KernelsClaimed
      <4>6. CASE i = Item
        BY <2>1, <2>4, <3>2, <4>3, <4>6 DEF ClaimsEntry, BlsEntry, Volume
      <4>. QED BY <2>4, <4>4, <4>5, <4>6
    <3>. QED BY <1>3, <2>4, <3>1, <3>2, EntriesNext
  <2>5. \A v : EntriesOf(v)' = EntriesOf(v)
    BY DEF EntriesOf
  <2>. QED BY <2>1, <2>2, <2>3, <2>4, <2>5 DEF KernelsClaimed
<1>. QED BY <1>1, <1>2, <1>3 DEF Next, Running

\* What a step on the volume at hand makes of the place of the scan.
InVolume ==
    \/ /\ NamedLoader /\ More /\ scan.stage = "named" /\ scan'.stage = "named"
       /\ scan'.done = scan.done + 1 /\ scan'.todo = scan.todo
    \/ /\ NamedDone /\ ~More /\ scan.stage = "named" /\ scan'.stage = "dirs" /\ scan'.done = 0
    \/ /\ SkipDir \/ DirDone
       /\ More /\ scan.stage \in {"dirs", "also"} /\ scan'.stage = scan.stage
       /\ scan'.done = scan.done + 1 /\ scan'.todo = scan.todo
       /\ scan'.fallback => scan.fallback
    \/ /\ OpenDir \/ ReadFile \/ DirRead \/ FoldKernel \/ AddListed
       /\ More /\ scan.stage \in {"dirs", "also"} /\ scan' = scan
    \/ /\ OwnAndBsd /\ ~More /\ scan.stage = "dirs" /\ scan'.stage = "also" /\ scan'.done = 0
       /\ scan'.fallback => scan.fallback /\ ~ScanBsdRootLoader(Volume)
    \/ AlsoScanned /\ scan.stage = "also" /\ scan'.stage = "entries"
    \/ BlsEntry /\ More /\ scan.stage = "entries" /\ scan'.stage = "entries"

LEMMA InVolumeIs ==
    ASSUME TypeOK, Place, Running, OnVolume, OnVolume'
    PROVE  InVolume
<1>0. /\ DOMAIN scan = DOMAIN Idle
      /\ DOMAIN Onward = DOMAIN Idle /\ Onward.done = scan.done + 1 /\ Onward.fallback = scan.fallback
      /\ Onward.stage = scan.stage /\ Onward.todo = scan.todo
  BY TypesAre, OnwardTyped DEF ScanTyped
<1>1. CASE NamedLoader
  <2> DEFINE b == scan.fallback /\ ~DuplicatesFallback(Volume, Item)
  <2>1. (scan' = Onward \/ scan' = [Onward EXCEPT !.fallback = b]) /\ More /\ scan.stage = "named"
    BY <1>1 DEF NamedLoader, Onward
  <2>. HIDE DEF b
  <2>2. scan'.stage = scan.stage /\ scan'.done = scan.done + 1 /\ scan'.todo = scan.todo
    BY <1>0, <2>1 DEF Idle
  <2>. QED BY <1>1, <2>1, <2>2 DEF InVolume
<1>2. CASE NamedDone
  BY <1>0, <1>2 DEF NamedDone, InVolume, Idle
<1>3. CASE SkipDir
  <2>1. scan' = Onward /\ More /\ scan.stage \in {"dirs", "also"}
    BY <1>3 DEF SkipDir, AtDir
  <2>2. scan'.fallback => scan.fallback
    BY <1>0, <2>1, Zenon
  <2>. QED BY <1>0, <1>3, <2>1, <2>2 DEF InVolume
<1>4. CASE DirDone
  <2> DEFINE b == Onward.fallback /\ ~dirScan.duplicate
  <2>1. scan' = [Onward EXCEPT !.fallback = b] /\ More /\ scan.stage \in {"dirs", "also"}
    BY <1>4 DEF DirDone, Place, ScanPlace, DirPlace
  <2>. HIDE DEF b
  <2>2. /\ scan'.stage = scan.stage /\ scan'.done = scan.done + 1 /\ scan'.todo = scan.todo
        /\ scan'.fallback = b
    BY <1>0, <2>1 DEF Idle
  <2>3. scan'.fallback => scan.fallback
    BY <1>0, <2>2, Zenon DEF b
  <2>. QED BY <1>4, <2>1, <2>2, <2>3 DEF InVolume
<1>5. CASE OpenDir \/ ReadFile \/ DirRead \/ FoldKernel \/ AddListed
  <2>1. scan' = scan /\ More /\ scan.stage \in {"dirs", "also"}
    BY <1>5 DEF OpenDir, ReadFile, DirRead, FoldKernel, AddListed, AtDir, Adds, Place, ScanPlace,
       DirPlace
  <2>. QED BY <1>5, <2>1 DEF InVolume
<1>6. CASE OwnAndBsd
  <2> DEFINE b == scan.fallback /\ ~OwnCopyIsFallback(Volume) /\ ~ScanBsdRootLoader(Volume)
  <2>1. /\ scan' = [scan EXCEPT !.stage = "also", !.todo = AlsoScanDirs, !.done = 0, !.fallback = b]
        /\ scan.stage = "dirs" /\ ~More
    BY <1>6 DEF OwnAndBsd
  <2>. HIDE DEF b
  <2>2. scan'.stage = "also" /\ scan'.done = 0 /\ scan'.fallback = b
    BY <1>0, <2>1 DEF Idle
  <2>3. scan'.fallback => scan.fallback /\ ~ScanBsdRootLoader(Volume)
    BY <2>2, Zenon DEF b
  <2>. QED BY <1>6, <2>1, <2>2, <2>3 DEF InVolume
<1>7. CASE AlsoScanned
  BY <1>0, <1>7 DEF AlsoScanned, InVolume, Idle
<1>8. CASE BlsEntry
  <2>1. (scan' = Onward \/ scan' = [Onward EXCEPT !.stage = "undefined"])
        /\ scan.stage = "entries" /\ More
    BY <1>8 DEF BlsEntry
  <2>2. scan'.stage # "undefined"
    BY DEF OnVolume
  <2>3. scan'.stage = scan.stage
    BY <1>0, <2>1, <2>2 DEF Idle
  <2>. QED BY <1>8, <2>1, <2>3 DEF InVolume
<1>9. CASE Fallback \/ NextLetter \/ VolumesDone \/ SkipVolume \/ EnterVentoy \/ EnterVolume
           \/ Reconcile \/ KeepEntry \/ DropEntry \/ Reconciled
  BY <1>0, <1>9 DEF Fallback, NextLetter, VolumesDone, SkipVolume, EnterVentoy, EnterVolume,
     Reconcile, KeepEntry, DropEntry, Reconciled, OnVolume, Idle
<1>. QED BY <1>1, <1>2, <1>3, <1>4, <1>5, <1>6, <1>7, <1>8, <1>9 DEF Running, LoaderDirs

\* What SourcesApart says of a volume.
ApartOn(v) ==
    /\ IsInjective(NamedOf(v)) /\ IsInjective(RootAndEfi(v))
    /\ ToSet(AlsoScanDirs) \cap ToSet(RootAndEfi(v)) = {}
    /\ NamedDirs(v) \cap (ToSet(AlsoScanDirs) \cup ToSet(RootAndEfi(v))) = {}
    /\ FallbackPath \notin ToSet(NamedOf(v))
    /\ BsdRootLoader(v.bsd)[1] \notin NamedDirs(v) \cup ToSet(RootAndEfi(v))
    /\ \A e \in ToSet(v.entries) : IsKernelEntry(v, e) =>
          /\ Linux(FileAt(v, e.kernel))
          /\ e.kernel \notin ToSet(NamedOf(v)) \cup {FallbackPath, BsdRootLoader(v.bsd)}

LEMMA ApartIs ==
    ASSUME SourcesApart, TypeOK, NEW n \in 1..Len(machine)
    PROVE  ApartOn(machine[n]) /\ IsInjective(AlsoScanDirs)
<1>1. machine \in Machines /\ machine[n] \in ToSet(machine)
  BY VolumeFacts DEF TypeOK
<1>. QED BY <1>1 DEF SourcesApart, ApartOn

\* What is gone through next was not gone through.
LEMMA ItemIsNew ==
    ASSUME TypeOK, Place, OnVolume, More, IsInjective(scan.todo)
    PROVE  Item \notin Handled
<1>1. /\ scan.done + 1 \in 1..Len(scan.todo) /\ scan.done \in Nat /\ Len(scan.todo) \in Nat
  BY AtItem, SequenceFacts DEF TypeOK
<1>2. ASSUME NEW j \in 1..scan.done PROVE scan.todo[j] # Item
  <2>1. j \in 1..Len(scan.todo) /\ j # scan.done + 1
    BY <1>1
  <2>. QED BY <1>1, <2>1 DEF IsInjective, Item
<1>. QED BY <1>2 DEF Handled

\* A loader put into a list it is not in.
LEMMA InsertedOnce ==
    ASSUME NEW X, NEW list \in Seq(X), NEW f \in X, \A x \in X : x.time \in Nat,
           \A i \in 1..Len(list) : list[i] # f, IsInjective(list)
    PROVE  IsInjective(AddLoaderListEntry(list, f))
<1> DEFINE new == AddLoaderListEntry(list, f)
<1>1. PICK k \in 1..(Len(list) + 1) : PutAt(new, list, f, k)
  BY Inserted
<1>2. /\ Len(new) = Len(list) + 1 /\ Len(list) \in Nat
      /\ \A i \in 1..(Len(list) + 1) :
            new[i] = IF i < k THEN list[i] ELSE IF i = k THEN f ELSE list[i - 1]
  BY <1>1, LenProperties DEF PutAt
<1>. HIDE DEF new
<1> DEFINE Old(i) == IF i < k THEN i ELSE i - 1
<1>3. \A i \in 1..(Len(list) + 1) : i # k => Old(i) \in 1..Len(list) /\ new[i] = list[Old(i)]
  BY <1>2
<1>4. \A i, j \in 1..(Len(list) + 1) : i # k /\ j # k /\ Old(i) = Old(j) => i = j
  BY <1>2
<1>5. new[k] = f
  BY <1>2
<1>. HIDE DEF Old
<1>6. SUFFICES ASSUME NEW i \in 1..(Len(list) + 1), NEW j \in 1..(Len(list) + 1), new[i] = new[j]
               PROVE  i = j
  BY <1>2 DEF IsInjective, new
<1>7. CASE i # k /\ j # k
  <2>1. list[Old(i)] = list[Old(j)] /\ Old(i) \in 1..Len(list) /\ Old(j) \in 1..Len(list)
    BY <1>3, <1>6, <1>7
  <2>. QED BY <1>4, <1>7, <2>1 DEF IsInjective
<1>8. CASE i = k \/ j = k
  BY <1>3, <1>5, <1>6, <1>8
<1>. QED BY <1>7, <1>8

\* A step keeps LoaderList without repetitions.
LEMMA ListInjectiveStep ==
    ASSUME TypeOK, Place, DirOK, ListInjective, [Next]_vars
    PROVE  ListInjective'
<1>1. CASE UNCHANGED vars
  BY <1>1 DEF vars, ListInjective, IsInjective
<1>2. CASE Begin \/ Rescan
  BY <1>2, Restarts DEF ListInjective, NoDir
<1>3. CASE Running /\ ~(OpenDir \/ ReadFile \/ DirRead \/ FoldKernel \/ AddListed)
  BY <1>3, OutOfDir DEF ListInjective, NoDir
<1>4. CASE OpenDir
  <2>1. dirScan' = [NoDir EXCEPT !.at = "read"]
    BY <1>4 DEF OpenDir
  <2>2. dirScan'.list = <<>> /\ Len(<<>>) = 0
    BY <2>1 DEF NoDir
  <2>. QED BY <2>2 DEF ListInjective, IsInjective
<1>5. CASE DirRead \/ FoldKernel \/ AddListed
  <2>1. dirScan'.list = dirScan.list /\ dirScan.at # "out"
    BY <1>5 DEF DirRead, FoldKernel, AddListed, TypeOK, NoDir, Adds
  <2>. QED BY <2>1 DEF ListInjective
<1>6. CASE ReadFile
  <2> DEFINE f == Files[dirScan.done + 1]
             list == dirScan.list
             X == ToSet(Files)
  <2>1. /\ dirScan.at = "read" /\ dirScan.done < Len(Files) /\ dirScan.done \in Nat
        /\ DOMAIN dirScan = DOMAIN NoDir /\ FilesOK(machine[scan.vol], Item)
        /\ Files = FilesIn(machine[scan.vol], Item)
    BY <1>6, InDirIs DEF ReadFile, TypeOK
  <2>2. /\ Len(Files) \in Nat /\ dirScan.done + 1 \in 1..Len(Files) /\ f \in X
        /\ \A x \in X : x.time \in Nat
        /\ \A i, j \in 1..Len(Files) : Files[i].name = Files[j].name => i = j
    <3>1. /\ Len(Files) \in Nat
          /\ \A i \in 1..Len(Files) : Files[i] \in X
          /\ \A i, j \in 1..Len(Files) : Files[i].name = Files[j].name => i = j
          /\ \A x \in X : x.time \in Nat
      BY <2>1, Zenon DEF FilesOK
    <3>. HIDE DEF X
    <3>2. dirScan.done + 1 \in 1..Len(Files)
      BY <2>1, <3>1
    <3>. QED BY <3>1, <3>2
  <2>3. /\ list \in Seq(X)
        /\ \A g \in X : g \in ToSet(list) => \E k \in 1..dirScan.done : Files[k] = g
    BY <2>1 DEF DirOK, ListOf
  <2>4. dirScan'.list = list \/ dirScan'.list = AddLoaderListEntry(list, f)
    <3> DEFINE b == dirScan.duplicate \/ DuplicatesFallback(Volume, <<Item, f.name>>)
               next == [dirScan EXCEPT !.done = @ + 1]
    <3>1. /\ DOMAIN next = DOMAIN NoDir /\ next.list = list /\ next.duplicate = dirScan.duplicate
      BY <2>1 DEF NoDir
    <3>2. dirScan' = IF IsShown(Volume, scan.vol, Item, f)
                     THEN [next EXCEPT
                             !.list = AddLoaderListEntry(@, f),
                             !.duplicate = @ \/ DuplicatesFallback(Volume, <<Item, f.name>>)]
                     ELSE next
      BY <1>6 DEF ReadFile
    <3>. HIDE DEF next, f, list
    <3>3. \/ dirScan' = next
          \/ dirScan' = [next EXCEPT !.list = AddLoaderListEntry(list, f), !.duplicate = b]
      BY <3>1, <3>2
    <3>. HIDE DEF b
    <3>. QED BY <3>1, <3>3 DEF NoDir
  <2>5. \A i \in 1..Len(list) : list[i] # f
    <3> SUFFICES ASSUME NEW i \in 1..Len(list), list[i] = f PROVE FALSE
      OBVIOUS
    <3>1. IsSequence(list)
      BY <2>3, OwnElements
    <3>2. f \in ToSet(list)
      BY <3>1, SequenceFacts
    <3>3. PICK k \in 1..dirScan.done : Files[k] = f
      BY <2>2, <2>3, <3>2
    <3>4. k \in 1..Len(Files) /\ k # dirScan.done + 1
      BY <2>1, <2>2
    <3>. QED BY <2>2, <3>3, <3>4
  <2>6. IsInjective(list)
    BY <2>1 DEF ListInjective
  <2>. HIDE DEF f, list, X
  <2>7. IsInjective(AddLoaderListEntry(list, f))
    BY <2>2, <2>3, <2>5, <2>6, InsertedOnce
  <2>. QED BY <2>4, <2>6, <2>7 DEF ListInjective, IsInjective
<1>. QED BY <1>1, <1>2, <1>3, <1>4, <1>5, <1>6 DEF Next, Running

\* What a stage goes through on a volume.
LEMMA StageGoesThrough ==
    ASSUME TypeOK, Place, OnVolume, NEW v, v = machine[scan.vol]
    PROVE  /\ scan.stage = "named" => scan.todo = NamedOf(v)
           /\ scan.stage = "dirs" => scan.todo = RootAndEfi(v)
           /\ scan.stage = "also" => scan.todo = AlsoScanDirs
           /\ scan.stage \in {"named", "dirs", "also"} => IsSequence(scan.todo)
<1>1. scan.vol \in 1..Len(machine) /\ machine \in Machines /\ Volume = v
  BY AtVolume
<1>2. IsSequence(v.efi) /\ IsSequence(v.guids) /\ IsSequence(AlsoScanDirs)
  BY <1>1, VolumeFacts, ScanAssumption
<1>3. IsSequence(NamedOf(v))
  BY <1>2, NamedAre DEF NamedOf
<1>4. IsSequence(RootAndEfi(v))
  BY <1>2, SingleIs, ConcatIs DEF RootAndEfi
<1>. QED BY <1>1, <1>2, <1>3, <1>4 DEF Place, ScanPlace, NamedOf, RootAndEfi

\* What the step adds is claimed by no entry of loader\entries.
LEMMA NotClaimed ==
    ASSUME SourcesApart, TypeOK, Place, DirOK, ClaimsAreKernels, Running, OnVolume,
           NEW n, n = scan.vol, NEW p, NewPath(p)
    PROVE  <<n, p>> \notin claims
<1> DEFINE v == machine[n]
<1>1. n \in 1..Len(machine) /\ Volume = v /\ ApartOn(v)
  BY AtVolume, ApartIs
<1>2. CASE AddListed /\ p = <<Item, Loader.name>>
  <2>1. IsShown(Volume, scan.vol, Item, Loader)
    BY <1>2, AtLoader DEF AddListed
  <2>. QED BY <1>2, <2>1 DEF IsShown
<1>3. CASE p \in ToSet(NamedOf(v)) \cup {FallbackPath, BsdRootLoader(v.bsd)}
  <2> SUFFICES ASSUME <<n, p>> \in claims PROVE FALSE
    OBVIOUS
  <2>1. scan.stage # "off"
    BY DEF OnVolume
  <2>2. <<n, p>>[1] = n /\ <<n, p>>[2] = p
    OBVIOUS
  <2>3. PICK e \in ToSet(v.entries) : e.kernel = p /\ IsKernelEntry(v, e)
    BY <2>1, <2>2 DEF ClaimsAreKernels
  <2>. QED BY <1>1, <1>3, <2>3 DEF ApartOn
<1>4. CASE NamedLoader /\ p = Item
  <2>1. scan.todo = NamedOf(v) /\ Item \in ToSet(scan.todo)
    BY <1>4, AtItem, StageGoesThrough DEF NamedLoader
  <2>. QED BY <1>3, <1>4, <2>1
<1>. QED BY <1>1, <1>2, <1>3, <1>4 DEF NewPath

\* On the first visit what the step adds is not on the menu yet.
LEMMA Fresh ==
    ASSUME SourcesApart, TypeOK, Place, DirOK, ListInjective, OriginsOK, Running, OnVolume,
           NEW n, n = scan.vol, ~Passed(n), NEW p, NewPath(p),
           NEW e \in ToSet(menu), e.vol = n
    PROVE  e.path # p
<1> DEFINE v == machine[n]
<1>1. n \in 1..Len(machine) /\ Volume = v /\ ApartOn(v) /\ IsInjective(AlsoScanDirs)
  BY AtVolume, ApartIs
<1>2. OriginOf(v, e.path, e.bls)
  BY DEF OriginsOK
<1>3. e.path # FallbackPath
  BY <1>2 DEF OriginOf
<1>4. CASE NamedLoader /\ p = Item
  <2>1. scan.stage = "named" /\ More
    BY <1>4 DEF NamedLoader
  <2>2. Item \notin Handled
    BY <1>1, <2>1, ItemIsNew, StageGoesThrough DEF ApartOn
  <2>. QED BY <1>2, <1>4, <2>1, <2>2 DEF OriginOf
<1>5. CASE AddListed /\ p = <<Item, Loader.name>>
  <2> SUFFICES ASSUME e.path = p PROVE FALSE
    OBVIOUS
  <2>0. Adds /\ dirScan.at = "add"
    BY <1>5 DEF AddListed, Adds
  <2>1. p[1] = Item /\ p[2] = Loader.name
    BY <1>5
  <2>2. More /\ scan.stage \in {"dirs", "also"} /\ (scan.stage = "also" => scan.fallback)
    BY <2>0 DEF Place, DirPlace
  <2>3. Item \in ToSet(scan.todo)
    BY <2>2, AtItem
  <2>4. Item \notin Handled
    BY <1>1, <2>2, ItemIsNew, StageGoesThrough DEF ApartOn
  <2>5. /\ Item \notin NamedDirs(v)
        /\ scan.stage = "also" => Item \notin ToSet(RootAndEfi(v))
    BY <1>1, <2>2, <2>3, StageGoesThrough DEF ApartOn
  <2>6. FromList(p)
    BY <1>2, <2>1, <2>2, <2>4, <2>5 DEF OriginOf
  <2>7. PICK j \in 1..dirScan.done : dirScan.list[j].name = Loader.name
    BY <2>1, <2>6 DEF FromList
  <2>8. /\ dirScan.done + 1 \in 1..Len(dirScan.list) /\ Len(dirScan.list) \in Nat
        /\ Loader = dirScan.list[dirScan.done + 1]
        /\ \A k \in 1..Len(dirScan.list) : dirScan.list[k] \in ToSet(FilesIn(v, Item))
    BY <2>0, AtLoader, ListFacts
  <2>9. j \in 1..Len(dirScan.list) /\ j # dirScan.done + 1
    BY <2>8 DEF TypeOK
  <2>10. dirScan.list[j] = Loader
    <3>1. FilesOK(v, Item)
      BY <1>1, FilesFacts DEF TypeOK
    <3>2. \A g \in ToSet(FilesIn(v, Item)) : FileAt(v, <<Item, g.name>>) = g
      BY <3>1 DEF FilesOK
    <3>. QED BY <2>7, <2>8, <2>9, <3>2
  <2>11. IsInjective(dirScan.list)
    BY <2>0 DEF ListInjective
  <2>. QED BY <2>8, <2>9, <2>10, <2>11 DEF IsInjective
<1>6. CASE OwnAndBsd /\ p = BsdRootLoader(v.bsd)
  <2>1. scan.stage = "dirs" /\ ~More
    BY <1>6 DEF OwnAndBsd
  <2>2. Handled = ToSet(RootAndEfi(v))
    BY <2>1, StageGoesThrough, HandledIs
  <2>3. ~FromList(e.path)
    BY <2>1 DEF FromList, Place, DirPlace
  <2>. QED BY <1>1, <1>2, <1>6, <2>1, <2>2, <2>3 DEF OriginOf, ApartOn
<1>. QED BY <1>1, <1>3, <1>4, <1>5, <1>6 DEF NewPath

\* An entry's origin on the volume at hand is still its origin after a step.
LEMMA OriginStays ==
    ASSUME SourcesApart, TypeOK, Place, DirOK, Running, OnVolume, OnVolume',
           NEW n, n = scan.vol, NEW v, v = machine[n], NEW p, NEW b, OriginOf(v, p, b)
    PROVE  OriginOf(v, p, b)'
<1>1. p # FallbackPath /\ (b # 0 => scan.stage = "entries")
  BY DEF OriginOf
<1>2. CASE scan.stage = "named"
  <2>0. b = 0 /\ p \in Handled
    BY <1>1, <1>2 DEF OriginOf
  <2>1. CASE /\ NamedLoader /\ More /\ scan'.stage = "named"
             /\ scan'.done = scan.done + 1 /\ scan'.todo = scan.todo
    <3>1. Handled' = Handled \cup {Item}
      BY <2>1, HandledIs
    <3>. QED BY <1>1, <2>0, <2>1, <3>1 DEF OriginOf
  <2>2. CASE NamedDone /\ ~More /\ scan'.stage = "dirs"
    <3>1. Handled = ToSet(NamedOf(v))
      BY <1>2, <2>2, StageGoesThrough, HandledIs
    <3>2. p[1] \in NamedDirs(v)
      BY <2>0, <3>1 DEF NamedDirs
    <3>3. NamedDirs(v)' = NamedDirs(v)
      BY DEF NamedDirs, NamedOf, MacPaths, WindowsPaths
    <3>. QED BY <1>1, <2>0, <2>2, <3>2, <3>3 DEF OriginOf
  <2>. QED BY <1>2, <2>1, <2>2, InVolumeIs DEF InVolume
<1>. DEFINE Dirs == IF scan.stage = "dirs" THEN NamedDirs(v)
                    ELSE NamedDirs(v) \cup ToSet(RootAndEfi(v))
<1>3. CASE scan.stage \in {"dirs", "also"} /\ (scan.stage = "also" => scan.fallback)
  <2>0. b = 0 /\ (p[1] \in Dirs \cup Handled \/ FromList(p))
    BY <1>1, <1>3 DEF OriginOf
  <2>1. NamedDirs(v)' = NamedDirs(v) /\ RootAndEfi(v)' = RootAndEfi(v)
    BY DEF NamedDirs, NamedOf, MacPaths, WindowsPaths, RootAndEfi
  <2>2. CASE /\ SkipDir \/ DirDone
             /\ More /\ scan'.stage = scan.stage
             /\ scan'.done = scan.done + 1 /\ scan'.todo = scan.todo
    <3>1. Handled' = Handled \cup {Item}
      BY <2>2, HandledIs
    <3>2. p[1] \in Dirs \cup Handled'
      BY <2>0, <3>1 DEF FromList
    <3>. QED BY <1>1, <1>3, <2>0, <2>1, <2>2, <3>2 DEF OriginOf
  <2>3. CASE (OpenDir \/ ReadFile \/ DirRead \/ FoldKernel \/ AddListed) /\ scan' = scan
    <3>1. Handled' = Handled /\ Item' = Item
      BY <2>3 DEF Handled, Item
    <3>2. FromList(p) => FromList(p)'
      <4> SUFFICES ASSUME FromList(p) PROVE FromList(p)'
        OBVIOUS
      <4>1. dirScan.at = "add" /\ p[1] = Item /\ dirScan.done \in Nat /\ DOMAIN dirScan = DOMAIN NoDir
        BY DEF FromList, TypeOK
      <4>2. FoldKernel \/ AddListed
        BY <2>3, <4>1 DEF OpenDir, ReadFile, DirRead, AtDir
      <4>3. dirScan'.at = "add" /\ dirScan'.list = dirScan.list /\ dirScan'.done = dirScan.done + 1
        BY <4>1, <4>2 DEF FoldKernel, AddListed, NoDir
      <4>4. PICK j \in 1..dirScan.done : dirScan.list[j].name = p[2]
        BY DEF FromList
      <4>5. j \in 1..dirScan'.done
        BY <4>1, <4>3
      <4>. QED BY <3>1, <4>1, <4>3, <4>4, <4>5 DEF FromList
    <3>. QED BY <1>1, <1>3, <2>0, <2>1, <2>3, <3>1, <3>2 DEF OriginOf
  <2>4. CASE OwnAndBsd /\ ~More /\ scan.stage = "dirs" /\ scan'.stage = "also"
    <3>1. Handled = ToSet(RootAndEfi(v))
      BY <2>4, StageGoesThrough, HandledIs
    <3>2. ~FromList(p)
      BY <2>4 DEF FromList, Place, DirPlace
    <3>3. p[1] \in NamedDirs(v) \cup ToSet(RootAndEfi(v))
      BY <2>0, <2>4, <3>1, <3>2
    <3>. QED BY <1>1, <2>0, <2>1, <2>4, <3>3 DEF OriginOf
  <2>5. CASE scan'.stage = "entries"
    BY <1>1, <2>5 DEF OriginOf
  <2>. QED BY <1>3, <2>2, <2>3, <2>4, <2>5, InVolumeIs DEF InVolume
<1>4. CASE scan.stage = "also" /\ ~scan.fallback
  <2>1. /\ scan'.stage = "also" /\ ~scan'.fallback
        \/ scan'.stage = "entries"
    <3>1. ~(OpenDir \/ ReadFile \/ DirRead \/ FoldKernel \/ AddListed)
      BY <1>4, InDirIs
    <3>. QED BY <1>4, <3>1, InVolumeIs DEF InVolume
  <2>. QED BY <1>1, <1>4, <2>1 DEF OriginOf
<1>5. CASE scan.stage = "entries"
  <2>1. scan'.stage = "entries"
    BY <1>5, InVolumeIs DEF InVolume
  <2>. QED BY <1>1, <2>1 DEF OriginOf
<1>. QED BY <1>2, <1>3, <1>4, <1>5 DEF OnVolume

\* What a step adds has its origin in it.
LEMMA OriginComes ==
    ASSUME SourcesApart, TypeOK, Place, DirOK, Running, OnVolume, OnVolume',
           NEW n, n = scan.vol, NEW v, v = machine[n], NEW p, NewPath(p)
    PROVE  OriginOf(v, p, 0)'
<1>1. n \in 1..Len(machine) /\ Volume = v /\ ApartOn(v)
  BY AtVolume, ApartIs
<1>2. CASE NamedLoader /\ p = Item
  <2>1. scan.stage = "named" /\ More
    BY <1>2 DEF NamedLoader
  <2>2. scan'.stage = "named" /\ scan'.done = scan.done + 1 /\ scan'.todo = scan.todo
    BY <1>2, <2>1, InVolumeIs DEF InVolume, NamedLoader, OpenDir, ReadFile, DirRead, FoldKernel,
       AddListed
  <2>3. Handled' = Handled \cup {Item}
    BY <2>1, <2>2, HandledIs
  <2>4. p # FallbackPath
    BY <1>1, <1>2, <2>1, AtItem, StageGoesThrough DEF ApartOn
  <2>. QED BY <1>2, <2>2, <2>3, <2>4 DEF OriginOf
<1>3. CASE AddListed /\ p = <<Item, Loader.name>>
  <2>1. p # FallbackPath
    BY <1>3, AtLoader DEF AddListed, IsShown, IsLoader
  <2>2. scan' = scan /\ Item' = Item /\ scan.stage \in {"dirs", "also"}
    BY <1>3, InDirIs DEF Item
  <2>3. FromList(p)'
    <3>1. /\ dirScan.at = "add" /\ dirScan.done \in Nat /\ DOMAIN dirScan = DOMAIN NoDir
      BY <1>3 DEF AddListed, Adds, TypeOK
    <3>2. dirScan'.at = "add" /\ dirScan'.list = dirScan.list /\ dirScan'.done = dirScan.done + 1
      BY <1>3, <3>1 DEF AddListed, NoDir
    <3>3. dirScan.done + 1 \in 1..dirScan'.done
      BY <3>1, <3>2
    <3>4. p[1] = Item /\ p[2] = dirScan.list[dirScan.done + 1].name
      BY <1>3 DEF Loader
    <3>. QED BY <2>2, <3>2, <3>3, <3>4 DEF FromList
  <2>. QED BY <2>1, <2>2, <2>3 DEF OriginOf
<1>4. CASE OwnAndBsd /\ ScanBsdRootLoader(Volume) /\ p = BsdRootLoader(v.bsd)
  <2>1. scan.stage = "dirs" /\ ~More
    BY <1>4 DEF OwnAndBsd
  <2>2. scan'.stage = "also" /\ ~scan'.fallback
    BY <1>4, <2>1, InVolumeIs DEF InVolume
  <2>3. p # FallbackPath
    BY <1>4 DEF BsdRootLoader, FallbackPath
  <2>. QED BY <2>2, <2>3 DEF OriginOf
<1>5. CASE Fallback
  BY <1>5 DEF Fallback, OnVolume, TypeOK, Idle
<1>. QED BY <1>1, <1>2, <1>3, <1>4, <1>5 DEF NewPath

\* A step keeps the origins of the entries.
LEMMA OriginsStep ==
    ASSUME SourcesApart, TypeOK, Place, DirOK, VisitedOnly, OriginsOK, [Next]_vars
    PROVE  OriginsOK'
<1>1. CASE UNCHANGED vars
  <2>1. /\ machine' = machine /\ scan' = scan /\ menu' = menu /\ Ls' = Ls
        /\ Handled' = Handled /\ dirScan' = dirScan /\ Item' = Item
    BY <1>1 DEF vars, Ls, Handled, Item
  <2>2. OnVolume' = OnVolume /\ \A n : Passed(n)' = Passed(n)
    BY <2>1 DEF OnVolume, Passed
  <2>3. \A v, p, b : OriginOf(v, p, b) => OriginOf(v, p, b)'
    <3>1. \A p : FromList(p)' <=> FromList(p)
      BY <2>1 DEF FromList
    <3>2. \A v : NamedDirs(v)' = NamedDirs(v) /\ RootAndEfi(v)' = RootAndEfi(v)
      BY DEF NamedDirs, NamedOf, MacPaths, WindowsPaths, RootAndEfi
    <3>. QED BY <2>1, <3>1, <3>2 DEF OriginOf
  <2>. QED BY <2>1, <2>2, <2>3 DEF OriginsOK
<1>2. CASE Begin \/ Rescan
  BY <1>2, NonePassed DEF OriginsOK, OnVolume
<1>3. CASE Running
  <2>1. machine' = machine
    BY <1>3, RunningIsSteady DEF Steady
  <2>2. SUFFICES ASSUME OnVolume', NEW n, n = scan'.vol, ~Passed(n)', NEW g \in ToSet(menu'), g.vol = n
                 PROVE  OriginOf(machine[n], g.path, g.bls)'
    BY <2>1 DEF OriginsOK
  <2>3. PICK v, p, b : v = machine[n] /\ p = g.path /\ b = g.bls
    OBVIOUS
  <2>4. SUFFICES OriginOf(v, p, b)'
    BY <2>1, <2>3
  <2>5. n \in 1..Len(machine)
    <3>1. MenuTyped(menu', Len(machine))
      BY <1>3, MenuStays
    <3>. QED BY <2>2, <3>1 DEF MenuTyped, EntryTyped
  <2>6. ~Passed(n)
    BY <1>3, <2>2, <2>5, PassedStays
  <2>7. \/ scan.stage = "volumes" /\ n = scan.vol
        \/ OnVolume /\ n = scan.vol
    BY <1>3, <2>2, ScanMoves DEF OnVolume, OnTheSpot
  <2>8. CameFrom(g)
    BY <1>3, <2>2, EntriesCameFrom
  <2>9. CASE scan.stage = "volumes"
    BY <2>2, <2>6, <2>8, <2>9 DEF CameFrom, BlsEntry, OnVolume, VisitedOnly
  <2>10. CASE OnVolume /\ n = scan.vol
    <3>1. CASE \E e \in ToSet(menu) : g.vol = e.vol /\ g.path = e.path /\ g.bls = e.bls
      <4>1. OriginOf(v, p, b)
        BY <2>2, <2>3, <2>6, <2>10, <3>1 DEF OriginsOK
      <4>. QED BY <1>3, <2>2, <2>3, <2>10, <4>1, OriginStays
    <3>2. CASE b = 0 /\ NewPath(p)
      <4>1. OriginOf(v, p, 0)'
        BY <1>3, <2>2, <2>3, <2>10, <3>2, OriginComes
      <4>. QED BY <3>2, <4>1
    <3>3. CASE BlsEntry /\ More /\ IsKernelEntry(Volume, Volume.entries[Item])
               /\ p = Volume.entries[Item].kernel
      <4>1. scan.stage = "entries" /\ Volume = v /\ ApartOn(v)
        BY <2>3, <2>10, <3>3, AtVolume, ApartIs DEF BlsEntry
      <4>2. Volume.entries[Item] \in ToSet(Volume.entries)
        BY <3>3, <4>1, AtEntry
      <4>3. p # FallbackPath
        BY <3>3, <4>1, <4>2 DEF ApartOn
      <4>4. scan'.stage = "entries"
        BY <1>3, <2>2, <2>10, <4>1, InVolumeIs DEF InVolume
      <4>. QED BY <4>3, <4>4 DEF OriginOf
    <3>. QED BY <2>3, <2>8, <3>1, <3>2, <3>3 DEF CameFrom
  <2>. QED BY <2>7, <2>9, <2>10
<1>. QED BY <1>1, <1>2, <1>3 DEF Next, Running

\* The letters that are gone through are the first of scanfor.
LEMMA LettersAreFirst ==
    \A s \in Settings : \A i \in 1..Len(Letters(s.scanfor)) :
        i \in DOMAIN s.scanfor /\ Letters(s.scanfor)[i] = s.scanfor[i]
<1> SUFFICES ASSUME NEW z \in Settings
             PROVE  \A i \in 1..Len(Letters(z.scanfor)) :
                        i \in DOMAIN z.scanfor /\ Letters(z.scanfor)[i] = z.scanfor[i]
  OBVIOUS
<1> DEFINE s == z.scanfor
           K == {i \in DOMAIN s : s[i] \in KnownLetters}
           M == {Len(s), Cardinality(K) + 1}
           m == Min(M)
<1>1. s \in Seq(ToSet(s)) /\ Len(s) \in Nat /\ DOMAIN s = 1..Len(s)
  BY ScanAssumption, SequenceFacts
<1>. HIDE DEF s
<1>2. Cardinality(K) \in Nat
  <2>1. IsFiniteSet(1..Len(s))
    BY <1>1, FS_Interval
  <2>2. K \subseteq 1..Len(s)
    BY <1>1
  <2>. QED BY <2>1, <2>2, FS_Subset, FS_CardinalityType
<1>. HIDE DEF K
<1>3. m \in M /\ \A x \in M : m <= x
  <2>1. M \in SUBSET Nat /\ M # {}
    BY <1>1, <1>2
  <2>. HIDE DEF M
  <2>. QED BY <2>1, MinIs
<1>. HIDE DEF m
<1>4. m \in Nat /\ m <= Len(s)
  BY <1>1, <1>2, <1>3
<1>. HIDE DEF M
<1>5. /\ Len(SubSeq(s, 1, m)) = m
      /\ \A i \in 1..m : SubSeq(s, 1, m)[i] = s[i]
  BY <1>1, <1>4
<1>6. \A i \in 1..m : i \in DOMAIN s
  BY <1>1, <1>4
<1>7. Letters(s) = SubSeq(s, 1, m)
  BY DEF Letters, m, M, K
<1>. QED BY <1>5, <1>6, <1>7 DEF s

\* A volume is visited again only if its letter is there twice.
LEMMA VisitedAgain ==
    ASSUME TypeOK, Place, OnVolume, NEW n, n = scan.vol, Passed(n)
    PROVE  Repeated(n)
<1>1. scan.letter \in 1..Len(Ls) /\ Ls[scan.letter] = machine[n].kind
  BY DEF Place, ScanPlace, Visits, Ls, OnVolume
<1>2. n \in Nat /\ settings \in Settings
  BY AtVolume DEF TypeOK
<1>3. PICK l \in 1..Len(Ls) : l # scan.letter /\ Ls[l] = machine[n].kind
  <2>1. PICK l \in 1..Len(Ls) : /\ Ls[l] = machine[n].kind
                                /\ \/ scan.stage \in {"reconcile", "menu"}
                                   \/ l < scan.letter
                                   \/ l = scan.letter /\ scan.stage # "letters" /\ n < scan.vol
    BY DEF Passed
  <2>2. l < scan.letter
    BY <1>2, <2>1 DEF OnVolume
  <2>. QED BY <1>1, <2>1, <2>2
<1>4. /\ l \in DOMAIN settings.scanfor /\ Ls[l] = settings.scanfor[l]
      /\ scan.letter \in DOMAIN settings.scanfor /\ Ls[scan.letter] = settings.scanfor[scan.letter]
  BY <1>1, <1>2, <1>3, LettersAreFirst DEF Ls
<1>. QED BY <1>1, <1>3, <1>4 DEF Repeated

\* A path that may be on the menu once only behind a step and is on it in front of it might
\* be on it once only in front of it, but for a new claim.
LEMMA JudgedBefore ==
    ASSUME TypeOK, Place, VisitedOnly, Running, NEW n \in 1..Len(machine), NEW p,
           NEW e \in ToSet(menu), e.vol = n,
           ~Repeated(n)' \/ FirstVisit(n)' \/ <<n, p>> \in claims
    PROVE  Judged(n, p)
<1>1. machine' = machine /\ settings' = settings
  BY RunningIsSteady DEF Steady
<1>2. CASE ~Repeated(n)' \/ <<n, p>> \in claims
  BY <1>1, <1>2 DEF Repeated, Judged
<1>3. CASE FirstVisit(n)'
  <2>1. OnVolume' /\ n = scan'.vol /\ ~Passed(n)'
    BY <1>3 DEF FirstVisit
  <2>2. ~Passed(n)
    BY <2>1, PassedStays
  <2>3. n = scan.vol /\ (scan.stage = "volumes" \/ OnVolume)
    BY <2>1, ScanMoves DEF OnVolume, OnTheSpot
  <2>4. OnVolume
    BY <2>2, <2>3 DEF VisitedOnly, OnVolume
  <2>. QED BY <2>2, <2>3, <2>4 DEF FirstVisit, Judged
<1>. QED BY <1>2, <1>3

\* Two places of the menu that hold the same path are one.
LEMMA OncePlaces ==
    ASSUME TypeOK, Place, DirOK, VisitedOnly, OnceOK, Running,
           NEW a \in 1..Len(menu), NEW b \in 1..Len(menu), NEW n, NEW p,
           menu[a].vol = n, menu[b].vol = n, menu[a].path = p, menu[b].path = p,
           ~Repeated(n)' \/ FirstVisit(n)' \/ <<n, p>> \in claims
    PROVE  a = b
<1>1. menu[a] \in ToSet(menu) /\ n \in 1..Len(machine)
  BY TypesAre, SequenceFacts DEF MenuTyped, EntryTyped
<1>2. Judged(n, p)
  BY <1>1, JudgedBefore
<1>. QED BY <1>2 DEF OnceOK

\* Once with a loader at the end.
LEMMA OnceAdded ==
    ASSUME SourcesApart, TypeOK, Place, DirOK, VisitedOnly, ClaimsAreKernels, ListInjective,
           OriginsOK, OnceOK, Running, OnVolume, claims' = claims,
           NEW q, Added(scan.vol, q), NewPath(q)
    PROVE  OnceOK'
<1> DEFINE new == Entry(scan.vol, q, OSType(FileOf(scan.vol, q)), 0)
           l == Len(menu) + 1
<1>1. /\ Len(menu') = l /\ menu'[l] = new /\ \A i \in 1..Len(menu) : menu'[i] = menu[i]
      /\ Len(menu) \in Nat /\ IsSequence(menu)
  BY AddedIs, TypesAre, SequenceFacts DEF MenuTyped
<1>2. new.vol = scan.vol /\ new.path = q
  BY DEF Entry
<1>. HIDE DEF new
<1>3. ASSUME NEW a \in 1..Len(menu), NEW n, NEW p, n = scan.vol, p = q,
             menu[a].vol = n, menu[a].path = p,
             ~Repeated(n)' \/ FirstVisit(n)' \/ <<n, p>> \in claims
      PROVE  FALSE
  <2>1. menu[a] \in ToSet(menu) /\ n \in 1..Len(machine)
    BY <1>1, <1>3, AtVolume, SequenceFacts
  <2>2. <<n, p>> \notin claims
    BY <1>3, NotClaimed
  <2>3. Judged(n, p)
    BY <1>3, <2>1, JudgedBefore
  <2>4. ~Passed(n)
    BY <1>3, <2>2, <2>3, VisitedAgain DEF Judged, FirstVisit
  <2>. QED BY <1>3, <2>1, <2>4, Fresh
<1>4. SUFFICES ASSUME NEW i \in 1..l, NEW j \in 1..l, NEW n, NEW p,
                      menu'[i].vol = n, menu'[j].vol = n, menu'[i].path = p, menu'[j].path = p,
                      Judged(n, p)'
               PROVE  i = j
  BY <1>1 DEF OnceOK
<1>5. ~Repeated(n)' \/ FirstVisit(n)' \/ <<n, p>> \in claims
  BY <1>4 DEF Judged
<1>6. CASE i \in 1..Len(menu) /\ j \in 1..Len(menu)
  BY <1>1, <1>4, <1>5, <1>6, OncePlaces
<1>7. CASE i = l /\ j \in 1..Len(menu)
  BY <1>1, <1>2, <1>3, <1>4, <1>5, <1>7
<1>8. CASE j = l /\ i \in 1..Len(menu)
  BY <1>1, <1>2, <1>3, <1>4, <1>5, <1>8
<1>9. /\ i \in 1..Len(menu) \/ i = l
      /\ j \in 1..Len(menu) \/ j = l
  BY <1>1, <1>4
<1>. QED BY <1>6, <1>7, <1>8, <1>9

\* Once without an entry of a sequence.
LEMMA OnceDropped ==
    ASSUME TypeOK, Place, DirOK, VisitedOnly, OnceOK, Running, DropEntry
    PROVE  OnceOK'
<1> DEFINE k == scan.done + 1
           Old(i) == IF i < k THEN i ELSE i + 1
<1>0. /\ IsSequence(menu) /\ Len(menu) \in Nat /\ menu' = RemoveAt(menu, k) /\ claims' = claims
      /\ scan.done < Len(menu)
  BY TypesAre, SequenceFacts DEF MenuTyped, DropEntry
<1>1. /\ IsSequence(menu) /\ Len(menu) \in Nat /\ menu' = RemoveAt(menu, k) /\ claims' = claims
      /\ k \in 1..Len(menu)
  BY <1>0 DEF TypeOK
<1>. HIDE DEF k
<1>2. /\ Len(menu') = Len(menu) - 1
      /\ \A i \in 1..(Len(menu) - 1) : menu'[i] = IF i < k THEN menu[i] ELSE menu[i + 1]
  BY <1>1, Removed
<1>3. \A i \in 1..(Len(menu) - 1) : Old(i) \in 1..Len(menu) /\ menu'[i] = menu[Old(i)]
  BY <1>1, <1>2
<1>4. \A i, j \in 1..(Len(menu) - 1) : Old(i) = Old(j) => i = j
  BY <1>1
<1>. HIDE DEF Old
<1>5. SUFFICES ASSUME NEW i \in 1..(Len(menu) - 1), NEW j \in 1..(Len(menu) - 1), NEW n, NEW p,
                      menu'[i].vol = n, menu'[j].vol = n, menu'[i].path = p, menu'[j].path = p,
                      Judged(n, p)'
               PROVE  i = j
  BY <1>2 DEF OnceOK
<1>6. ~Repeated(n)' \/ FirstVisit(n)' \/ <<n, p>> \in claims
  BY <1>1, <1>5 DEF Judged
<1>7. Old(i) = Old(j)
  BY <1>3, <1>5, <1>6, OncePlaces
<1>. QED BY <1>4, <1>7

\* Once when the menu keeps its entries' paths.
LEMMA OnceKept ==
    ASSUME TypeOK, Place, DirOK, VisitedOnly, OnceOK, Running, claims' = claims,
           Len(menu') = Len(menu),
           \A i \in 1..Len(menu) : menu'[i].vol = menu[i].vol /\ menu'[i].path = menu[i].path
    PROVE  OnceOK'
<1>1. SUFFICES ASSUME NEW i \in 1..Len(menu), NEW j \in 1..Len(menu), NEW n, NEW p,
                      menu'[i].vol = n, menu'[j].vol = n, menu'[i].path = p, menu'[j].path = p,
                      Judged(n, p)'
               PROVE  i = j
  BY DEF OnceOK
<1>2. ~Repeated(n)' \/ FirstVisit(n)' \/ <<n, p>> \in claims
  BY <1>1 DEF Judged
<1>. QED BY <1>1, <1>2, OncePlaces

\* Once with an entry for a kernel of loader\entries: an earlier one goes.
LEMMA OnceBls ==
    ASSUME SourcesApart, TypeOK, Place, DirOK, EntriesOK, VisitedOnly, KernelsClaimed, OnceOK,
           Running, BlsEntry, IsKernelEntry(Volume, Volume.entries[Item])
    PROVE  OnceOK'
<1> DEFINE m == scan.vol
           q == Volume.entries[Item].kernel
           new == Entry(m, q, "L", Item)
           added == Append(menu, new)
           l == Len(menu) + 1
           K == KernelEntries(added, m, q)
<1>1. /\ menu' = RemoveBlindLinuxLoaderForBls(added, m, q)
      /\ claims' = claims \cup {<<m, q>>}
      /\ scan.stage = "entries" /\ More /\ OnVolume
  BY DEF BlsEntry, OnVolume
<1>2. /\ m \in 1..Len(machine) /\ Volume = machine[m] /\ ApartOn(machine[m])
      /\ ~SkipsVolume(machine[m])
  BY <1>1, AtVolume, ApartIs
<1>3. Linux(FileOf(m, q))
  <2>1. Volume.entries[Item] \in ToSet(Volume.entries)
    BY <1>1, AtEntry
  <2>. QED BY <1>2, <2>1 DEF ApartOn, FileOf
<1>4. Judged(m, q)
  <2>1. CASE Passed(m)
    <3>1. Item \in ToSet(EntriesOf(machine[m]))
      BY <1>1, <1>2, AtItem DEF Place, ScanPlace
    <3>2. ClaimsEntry(m, Item)
      BY <1>2, <2>1, <3>1 DEF KernelsClaimed
    <3>. QED BY <1>2, <3>2 DEF ClaimsEntry, Judged
  <2>2. CASE ~Passed(m)
    BY <1>1, <2>2 DEF Judged, FirstVisit
  <2>. QED BY <2>1, <2>2
<1>5. /\ IsSequence(menu) /\ Len(menu) \in Nat
      /\ \A i \in 1..Len(menu) : menu[i] \in ToSet(menu)
  BY TypesAre, SequenceFacts DEF MenuTyped
<1>6. new.vol = m /\ new.path = q /\ new.os = "L"
  BY DEF Entry
<1>. HIDE DEF new, m, q
<1>7. /\ IsSequence(added) /\ Len(added) = l
      /\ \A i \in 1..l : added[i] = IF i = l THEN new ELSE menu[i]
  BY <1>5, Appended
<1>. HIDE DEF added
<1>8. \A i \in 1..l : added[i].vol = m /\ added[i].path = q => i \in K
  <2> SUFFICES ASSUME NEW i \in 1..l, added[i].vol = m, added[i].path = q PROVE i \in K
    OBVIOUS
  <2>0. DOMAIN added = 1..l
    BY <1>7, SequenceFacts
  <2>1. added[i].os = "L"
    <3>1. CASE i = l
      BY <1>6, <1>7, <3>1
    <3>2. CASE i # l
      <4>1. i \in 1..Len(menu) /\ added[i] = menu[i]
        BY <1>5, <1>7, <3>2
      <4>2. EntryOK(menu[i])
        BY <1>5, <4>1 DEF EntriesOK
      <4>3. OSType(FileOf(m, q)) = "L"
        BY <1>3, OSTypeIs
      <4>. QED BY <4>1, <4>2, <4>3 DEF EntryOK
    <3>. QED BY <3>1, <3>2
  <2>. QED BY <2>0, <2>1 DEF KernelEntries
<1>9. \A a, b \in 1..Len(menu) : a \in K /\ b \in K => a = b
  <2> SUFFICES ASSUME NEW a \in 1..Len(menu), NEW b \in 1..Len(menu), a \in K, b \in K PROVE a = b
    OBVIOUS
  <2>1. added[a] = menu[a] /\ added[b] = menu[b]
    BY <1>5, <1>7
  <2>. QED BY <1>4, <2>1 DEF KernelEntries, OnceOK
<1>10. ASSUME NEW a \in 1..l, NEW b \in 1..l, NEW n, NEW p,
              added[a].vol = n, added[b].vol = n, added[a].path = p, added[b].path = p,
              Judged(n, p)'
       PROVE  a = b \/ (a \in K /\ b \in K)
  <2>1. CASE n = m /\ p = q
    BY <1>8, <1>10, <2>1
  <2>2. CASE ~(n = m /\ p = q)
    <3>1. a # l /\ b # l
      BY <1>6, <1>7, <1>10, <2>2
    <3>2. a \in 1..Len(menu) /\ b \in 1..Len(menu) /\ added[a] = menu[a] /\ added[b] = menu[b]
      BY <1>5, <1>7, <3>1
    <3>3. <<n, p>> # <<m, q>>
      BY <2>2
    <3>4. ~Repeated(n)' \/ FirstVisit(n)' \/ <<n, p>> \in claims
      BY <1>1, <1>10, <3>3 DEF Judged
    <3>. QED BY <1>10, <3>2, <3>4, OncePlaces
  <2>. QED BY <2>1, <2>2
<1>11. CASE menu' = added /\ \A i, j \in K : i = j
  <2> SUFFICES ASSUME NEW i \in 1..l, NEW j \in 1..l, NEW n, NEW p,
                      menu'[i].vol = n, menu'[j].vol = n, menu'[i].path = p, menu'[j].path = p,
                      Judged(n, p)'
               PROVE  i = j
    BY <1>7, <1>11 DEF OnceOK
  <2>. QED BY <1>10, <1>11
<1>12. CASE \E k, j \in K : /\ k \in 1..Len(added) /\ j \in 1..Len(added) /\ k < j
                            /\ menu' = RemoveAt(added, k)
  <2>1. PICK k \in K : \E j \in 1..Len(added) : k < j /\ k \in 1..Len(added) /\ menu' = RemoveAt(added, k)
    BY <1>12
  <2>2. k \in 1..Len(menu) /\ k \in 1..Len(added)
    BY <1>5, <1>7, <2>1
  <2> DEFINE Old(i) == IF i < k THEN i ELSE i + 1
  <2>3. /\ Len(menu') = Len(added) - 1
        /\ \A i \in 1..(Len(added) - 1) : menu'[i] = IF i < k THEN added[i] ELSE added[i + 1]
    BY <1>7, <2>1, <2>2, Removed, ZenonT(60)
  <2>4. Len(menu') = Len(menu)
    BY <1>5, <1>7, <2>3
  <2>5. \A i \in 1..Len(menu) : Old(i) \in 1..l /\ Old(i) # k /\ menu'[i] = added[Old(i)]
    BY <1>5, <1>7, <2>2, <2>3
  <2>6. \A i, j \in 1..Len(menu) : Old(i) = Old(j) => i = j
    BY <1>5, <2>2
  <2>. HIDE DEF Old
  <2>7. \A a \in 1..l : a \in K /\ a # k => a = l
    BY <1>5, <1>9, <2>1, <2>2
  <2> SUFFICES ASSUME NEW i \in 1..Len(menu), NEW j \in 1..Len(menu), NEW n, NEW p,
                      menu'[i].vol = n, menu'[j].vol = n, menu'[i].path = p, menu'[j].path = p,
                      Judged(n, p)'
               PROVE  i = j
    BY <2>4 DEF OnceOK
  <2>8. Old(i) = Old(j) \/ (Old(i) \in K /\ Old(j) \in K)
    BY <1>10, <2>5
  <2>9. Old(i) = Old(j)
    BY <2>5, <2>7, <2>8
  <2>. QED BY <2>6, <2>9
<1>. QED
  <2>1. IsSequence(added)
    BY <1>7
  <2>2. \/ menu' = added /\ \A i, j \in K : i = j
        \/ \E k, j \in K : /\ k \in 1..Len(added) /\ j \in 1..Len(added) /\ k < j
                           /\ menu' = RemoveAt(added, k)
    BY <1>1, <2>1, BlindRemoved
  <2>. QED BY <1>11, <1>12, <2>2

\* A step puts no path on the menu a second time.
LEMMA OnceStep ==
    ASSUME SourcesApart, TypeOK, Place, DirOK, EntriesOK, TwiceInv, [Next]_vars
    PROVE  OnceOK'
<1>0. /\ OnceOK /\ VisitedOnly /\ ClaimsAreKernels /\ KernelsClaimed /\ ListInjective /\ OriginsOK
  BY DEF TwiceInv
<1>1. CASE UNCHANGED vars
  <2>1. /\ machine' = machine /\ settings' = settings /\ menu' = menu /\ claims' = claims
        /\ scan' = scan
    BY <1>1 DEF vars
  <2>2. \A n : Repeated(n)' <=> Repeated(n)
    BY <2>1 DEF Repeated
  <2>3. \A n : FirstVisit(n)' <=> FirstVisit(n)
    BY <2>1 DEF FirstVisit, OnVolume, Passed, Ls
  <2>. QED BY <1>0, <2>1, <2>2, <2>3 DEF OnceOK, Judged
<1>2. CASE Begin \/ Rescan
  BY <1>2, Restarts DEF OnceOK
<1>3. CASE Running
  <2>1. CASE claims' = claims /\ menu' = menu
    BY <1>0, <1>3, <2>1, OnceKept
  <2>2. CASE claims' = claims /\ OnVolume /\ \E p : Added(scan.vol, p) /\ NewPath(p)
    BY <1>0, <1>3, <2>2, OnceAdded
  <2>3. CASE FoldKernel
    <3> DEFINE k == dirScan.first
               p == <<Item, Loader.name>>
    <3>1. /\ k \in 1..Len(menu) /\ FoldedInto(menu', menu, k, p, Volume.options[Item])
          /\ claims' = claims
      BY <2>3, FoldIs DEF FoldKernel
    <3>. HIDE DEF k, p
    <3>2. /\ Len(menu') = Len(menu)
          /\ \A i \in 1..Len(menu) : i # k => menu'[i] = menu[i]
          /\ menu'[k].vol = menu[k].vol /\ menu'[k].path = menu[k].path
      BY <3>1 DEF FoldedInto
    <3>3. \A i \in 1..Len(menu) : menu'[i].vol = menu[i].vol /\ menu'[i].path = menu[i].path
      BY <3>2
    <3>. QED BY <1>0, <1>3, <3>1, <3>2, <3>3, OnceKept
  <2>4. CASE BlsEntry
    <3>1. CASE IsKernelEntry(Volume, Volume.entries[Item])
      BY <1>0, <1>3, <2>4, <3>1, OnceBls
    <3>2. CASE ~IsKernelEntry(Volume, Volume.entries[Item])
      BY <2>1, <2>4, <3>2 DEF BlsEntry
    <3>. QED BY <3>1, <3>2
  <2>5. CASE DropEntry
    BY <1>0, <1>3, <2>5, OnceDropped
  <2>. QED BY <1>3, <2>1, <2>2, <2>3, <2>4, <2>5, AddSteps
<1>. QED BY <1>1, <1>2, <1>3 DEF Next, Running

-----------------------------------------------------------------------------
(* The theorems.                                                            *)

\* The invariant holds at first.
LEMMA InitInv == Init => ScanInv
<1> SUFFICES ASSUME Init PROVE ScanInv
  OBVIOUS
<1>1. IsSequence(<<>>) /\ ToSet(<<>>) = {} /\ Len(<<>>) = 0
  BY DEF IsSequence, ToSet
<1>2. /\ DOMAIN scan = DOMAIN Idle /\ scan.stage = "off" /\ scan.letter = 0 /\ scan.vol = 0
      /\ scan.done = 0 /\ scan.fallback = FALSE
  BY DEF Init, Idle
<1>3. /\ DOMAIN dirScan = DOMAIN NoDir /\ dirScan = NoDir /\ dirScan.at = "out"
      /\ dirScan.done = 0 /\ dirScan.first = 0 /\ dirScan.duplicate = FALSE
  BY DEF Init, NoDir
<1>4. TypeOK
  <2>1. /\ machine \in Machines /\ settings \in Settings /\ launch \in Launches
        /\ patterns \subseteq BOOLEAN /\ hasMac \in BOOLEAN /\ hasOC \in BOOLEAN
    BY DEF Init
  <2>2. IsSequence(menu) /\ ToSet(menu) = {} /\ claims = {} /\ Len(menu) = 0
    BY <1>1 DEF Init
  <2>3. /\ scan.letter \in Nat /\ scan.vol \in Nat /\ scan.done \in Nat
        /\ dirScan.done \in Nat /\ dirScan.first \in 0..Len(menu)
    BY <1>2, <1>3, <2>2
  <2>4. scan.fallback \in BOOLEAN /\ dirScan.duplicate \in BOOLEAN
    BY <1>2, <1>3, Zenon
  <2>. QED BY <1>2, <1>3, <2>1, <2>2, <2>3, <2>4 DEF TypeOK
<1>5. Place
  BY <1>2, <1>3 DEF Init, Place, ScanPlace, DirPlace, OnVolume
<1>6. EntriesOK /\ DirOK /\ ClaimsOK /\ Found
  BY <1>1, <1>2, <1>3 DEF Init, EntriesOK, DirOK, ClaimsOK, Found, OnVolume
<1>7. \A n : ~Passed(n)
  <2>1. \A l \in 1..Len(Ls) : ~(l < scan.letter) /\ l # scan.letter
    BY <1>2, LettersAre, SequenceFacts DEF Init, Ls
  <2>. QED BY <1>2, <2>1 DEF Passed
<1>. QED BY <1>4, <1>5, <1>6, <1>7 DEF ScanInv, PassedFound

\* The invariant is inductive.
LEMMA StepInv == ScanInv /\ [Next]_vars => ScanInv'
BY TypeStep, PlaceStep, DirStep, EntriesStep, ClaimsStep, PassedStep, FoundStep DEF ScanInv

\* The inductive invariant: where a scan is, what LoaderList holds and in which order, what
\* an entry's submenu holds, and what has been found of the volumes that are done with and
\* of what has been gone through on the one at hand (ScanForBootloaders, ScanEfiFiles and
\* ScanLoaderDir).
THEOREM ScanInductive == Spec => []ScanInv
<1>. QED BY InitInv, StepInv, PTL DEF Spec

\* The variables stay in their types: every entry of the menu is of a volume that is
\* attached, and FirstKernel is an entry of the menu (discovery.c, scan.c).
THEOREM ScanTypeCorrect == Spec => []TypeOK
<1>1. ScanInv => TypeOK
  BY DEF ScanInv
<1>. QED BY <1>1, ScanInductive, PTL

\* The kernel that stands for a directory is the newest of those folded under it, and they
\* follow by age; a rescue kernel stands for others only if it was read first
\* (AddLoaderListEntry, and ScanLoaderDir's second loop).
THEOREM KernelsAreByAge == Spec => []NewestKernelFirst
<1>1. ScanInv => NewestKernelFirst
  <2> SUFFICES ASSUME ScanInv, NEW e \in ToSet(menu), e.bls = 0, e.sub # <<>>
               PROVE  LET v == machine[e.vol]
                          dir == e.path[1]
                          kernels == <<e.path>> \o e.sub
                          File(i) == FileAt(v, kernels[i])
                      IN  /\ \A i, j \in DOMAIN kernels :
                                i < j /\ "rescue" \notin {File(i).class, File(j).class} =>
                                    File(i).time >= File(j).time
                          /\ File(1).class = "rescue" =>
                                \A i, j \in DOMAIN FilesIn(v, dir) :
                                    /\ FilesIn(v, dir)[i] = File(1)
                                    /\ Linux(FilesIn(v, dir)[j])
                                    /\ IsShown(v, e.vol, dir, FilesIn(v, dir)[j])
                                    => i <= j
    BY DEF NewestKernelFirst
  <2> DEFINE v == machine[e.vol]
             kernels == <<e.path>> \o e.sub
             File(i) == FileOf(e.vol, kernels[i])
  <2>1. EntryOK(e) /\ machine \in Machines /\ e.vol \in 1..Len(machine) /\ IsSequence(e.sub)
    BY DEF ScanInv, EntriesOK, TypeOK
  <2>2. IsSequence(<<e.path>>) /\ Len(<<e.path>>) = 1
    BY SingleIs
  <2>3. /\ Len(e.sub) \in Nat /\ Len(kernels) = 1 + Len(e.sub)
        /\ DOMAIN kernels = 1..(1 + Len(e.sub))
        /\ \A i \in 1..(1 + Len(e.sub)) :
              kernels[i] = IF i <= 1 THEN <<e.path>>[i] ELSE e.sub[i - 1]
    BY <2>1, <2>2, ConcatIs, SequenceFacts
  <2>. HIDE DEF kernels
  <2>4. kernels[1] = e.path /\ \A i \in 2..(1 + Len(e.sub)) : kernels[i] = e.sub[i - 1]
    BY <2>3
  <2>5. ASSUME NEW i \in DOMAIN kernels, NEW j \in DOMAIN kernels, i < j
        PROVE  Older(File(i), File(j))
    <3>1. j - 1 \in 1..Len(e.sub) /\ kernels[j] = e.sub[j - 1] /\ e.sub[j - 1] \in ToSet(e.sub)
      BY <2>1, <2>3, <2>4, <2>5, SequenceFacts, SMTT(60)
    <3>2. CASE i = 1
      BY <2>1, <2>4, <3>1, <3>2 DEF EntryOK
    <3>3. CASE i # 1
      <4>1. i - 1 \in 1..Len(e.sub) /\ kernels[i] = e.sub[i - 1] /\ i - 1 < j - 1
        BY <2>3, <2>4, <2>5, <3>3
      <4>. QED BY <2>1, <3>1, <4>1 DEF EntryOK
    <3>. QED BY <3>2, <3>3
  <2>6. ReadFirst(e.vol, e.path)
    BY <2>1 DEF EntryOK
  <2>7. LET files == FilesIn(v, e.path[1]) IN DOMAIN files = 1..Len(files)
    BY <2>1, FilesFacts DEF FilesOK
  <2>. QED BY <2>4, <2>5, <2>6, <2>7 DEF Older, ReadFirst, FileOf, kernels
<1>. QED BY <1>1, ScanInductive, PTL

\* Every loader of a volume that is scanned can be reached from the menu when the scan is
\* over, whatever the disks hold: those looked for by name, those of its directories, the
\* kernels of loader\entries and the fallback (ScanEfiFiles); only folding loses kernels.
THEOREM NoLoaderIsLost == Spec => []NothingIsLost
<1>1. ScanInv => NothingIsLost
  <2> SUFFICES ASSUME ScanInv, Done PROVE NothingIsLost
    BY DEF NothingIsLost
  <2>1. /\ machine \in Machines /\ settings \in Settings /\ scan.stage = "menu"
        /\ PassedFound /\ ClaimsOK
    BY DEF ScanInv, TypeOK, Done
  <2>2. ASSUME NEW n \in DOMAIN machine, machine[n].kind \in ToSet(Letters(settings.scanfor)),
               ~SkipsVolume(machine[n])
        PROVE  VolumeFound(n)
    <3>1. PICK l \in 1..Len(Ls) : Ls[l] = machine[n].kind
      BY <2>1, <2>2, LettersAre, SequenceFacts DEF Ls
    <3>2. Passed(n)
      BY <2>1, <3>1 DEF Passed
    <3>3. n \in 1..Len(machine)
      BY <2>1, VolumeFacts
    <3>. QED BY <2>1, <2>2, <3>2, <3>3 DEF PassedFound
  <2>3. ASSUME NEW c \in claims PROVE Offered(c[1], c[2])
    BY <2>1 DEF ClaimsOK, Offered
  <2>. QED BY <2>2, <2>3 DEF NothingIsLost
<1>. QED BY <1>1, ScanInductive, PTL

\* Where no two sources find the same file, no loader is on the menu twice when the scan is
\* over, whether it was met in a directory, under a name of its own, as the fallback or in
\* loader\entries (ScanEfiFiles, ParseBlsEntryFile and RemoveBlindLinuxLoaderForBls).
THEOREM NoLoaderTwice == ASSUME SourcesApart PROVE Spec => []NothingTwice
<1>1. Init => TwiceInv
  <2> SUFFICES ASSUME Init PROVE TwiceInv
    OBVIOUS
  <2>1. menu = <<>> /\ ToSet(menu) = {} /\ Len(menu) = 0
    BY DEF Init, ToSet
  <2>2. scan.stage = "off" /\ scan.letter = 0 /\ dirScan.at = "out"
    BY DEF Init, Idle, NoDir
  <2>3. \A n : ~Passed(n)
    BY <2>2 DEF Passed
  <2>. QED BY <2>1, <2>2, <2>3 DEF TwiceInv, OnceOK, VisitedOnly, ClaimsAreKernels,
       KernelsClaimed, ListInjective, OriginsOK, OnVolume
<1>2. ScanInv /\ TwiceInv /\ [Next]_vars => TwiceInv'
  BY SourcesApart, OnceStep, VisitedOnlyStep, ClaimsAreKernelsStep, KernelsClaimedStep,
     ListInjectiveStep, OriginsStep DEF TwiceInv, ScanInv
<1>3. ScanInv /\ TwiceInv => NothingTwice
  <2> SUFFICES ASSUME ScanInv, TwiceInv, NEW i \in DOMAIN menu, NEW j \in DOMAIN menu,
                      menu[i].vol = menu[j].vol, menu[i].path = menu[j].path, i # j
               PROVE  <<menu[i].vol, menu[i].path>> \notin claims /\ Repeated(menu[i].vol)
    BY DEF NothingTwice, Repeated
  <2>1. DOMAIN menu = 1..Len(menu)
    BY TypesAre, SequenceFacts DEF ScanInv, MenuTyped
  <2>. QED BY <2>1 DEF TwiceInv, OnceOK, Judged
<1>. QED BY <1>1, <1>2, <1>3, ScanInductive, PTL DEF Spec
=============================================================================
