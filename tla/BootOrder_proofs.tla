--------------------------- MODULE BootOrder_proofs ---------------------------
(***************************************************************************)
(* What FindBootNum returns, for every table of Boot#### variables, every  *)
(* set of unreadable ones and every window; then registration, promotion   *)
(* and deletion of boot options, for every size of the table, every window *)
(* and whatever the firmware fails to read, which may change at any time.  *)
(* The invariants say what the operation under way still knows about the   *)
(* table: while a registration waits to write, its number is the one that  *)
(* FindBootNum returns where it can read what it could when it was called; *)
(* once it has written, or found the option, the number holds the option.  *)
(***************************************************************************)
EXTENDS BootOrder, TLAPS, WellFoundedInduction

USE BootTableAssumption

LEMMA NatLess ==
    IsWellFoundedOn({ss \in Nat \X Nat : ss[1] < ss[2]}, Nat)
BY NatLessThanWellFounded DEF OpToRel

\* Induction over a set of numbers, which needs no operator for a parameter.
LEMMA NatInduct ==
    ASSUME NEW U, 0 \in U, \A n \in Nat : n \in U => n + 1 \in U
    PROVE  Nat \subseteq U
<1> DEFINE R == {ss \in Nat \X Nat : ss[1] < ss[2]}
<1> SUFFICES ASSUME Nat \ U # {} PROVE FALSE
  OBVIOUS
<1>1. PICK n \in Nat \ U : \A m \in Nat \ U : ~(<<m, n>> \in R)
  <2>. HIDE DEF R
  <2>1. IsWellFoundedOn(R, Nat)
    BY NatLess DEF R
  <2>. QED BY <2>1, WFMin
<1>2. n # 0 /\ n - 1 \in Nat
  OBVIOUS
<1>3. n - 1 \in U
  <2>1. <<n - 1, n>> \in R
    BY <1>2
  <2>. QED BY <1>1, <1>2, <2>1
<1>. QED BY <1>2, <1>3

\* The function Kept is the last value of.
Body(s, S, f, n) == IF n = 0 THEN <<>>
            ELSE IF s[n] \in S THEN Append(f[n - 1], s[n])
            ELSE f[n - 1]

IsUpto(s, S, f, n) == f = [m \in 0..n |-> Body(s, S, f, m)]

\* It exists: it can be written down for one element more.
LEMMA UptoExists ==
    ASSUME NEW s, NEW S
    PROVE  \A n \in Nat : \E f : IsUpto(s, S, f, n)
<1> DEFINE U == {n \in Nat : \E f : IsUpto(s, S, f, n)}
<1>1. 0 \in U
  <2> DEFINE f == [m \in 0..0 |-> <<>>]
  <2>1. f = [m \in 0..0 |-> Body(s, S, f, m)]
    BY DEF Body
  <2>. QED BY <2>1 DEF IsUpto
<1>2. ASSUME NEW n \in Nat, n \in U PROVE n + 1 \in U
  <2>1. PICK f : IsUpto(s, S, f, n)
    BY <1>2
  <2> DEFINE g == [m \in 0..(n + 1) |-> IF m = n + 1 THEN Body(s, S, f, m) ELSE f[m]]
  <2>2. \A m \in 0..n : f[m] = Body(s, S, f, m)
    BY <2>1 DEF IsUpto
  <2>3. \A m \in 0..(n + 1) : g[m] = Body(s, S, g, m)
    <3> TAKE m \in 0..(n + 1)
    <3>1. \A k \in 0..n : g[k] = f[k]
      OBVIOUS
    <3>2. Body(s, S, g, m) = Body(s, S, f, m)
      BY <3>1 DEF Body
    <3>. QED BY <2>2, <3>2
  <2>4. IsUpto(s, S, g, n + 1)
    <3>. HIDE DEF g
    <3>1. g = [m \in 0..(n + 1) |-> g[m]]
      BY DEF g
    <3>. QED BY <2>3, <3>1 DEF IsUpto
  <2>. QED BY <2>4
<1>. QED
  <2>. HIDE DEF U
  <2>1. Nat \subseteq U
    BY <1>1, <1>2, NatInduct
  <2>. QED BY <2>1 DEF U

LEMMA KeptIs ==
    ASSUME NEW X, NEW s \in Seq(X), NEW S
    PROVE  \E f : IsUpto(s, S, f, Len(s)) /\ Kept(s, S) = f[Len(s)]
<1>1. Len(s) \in Nat
  OBVIOUS
<1>2. \E f : IsUpto(s, S, f, Len(s))
  BY <1>1, UptoExists
<1> DEFINE g == CHOOSE f : IsUpto(s, S, f, Len(s))
<1>3. IsUpto(s, S, g, Len(s))
  BY <1>2
<1>4. Kept(s, S) = g[Len(s)]
  BY DEF Kept, IsUpto, Body
<1>. QED BY <1>3, <1>4

\* Induction over sequences, as they are appended to.
LEMMA SeqInduct ==
    ASSUME NEW X, NEW U, <<>> \in U,
           \A u \in Seq(X), x \in X : u \in U => Append(u, x) \in U
    PROVE  Seq(X) \subseteq U
<1> DEFINE V == {n \in Nat : \A s \in Seq(X) : Len(s) = n => s \in U}
<1>1. 0 \in V
  OBVIOUS
<1>2. ASSUME NEW n \in Nat, n \in V PROVE n + 1 \in V
  <2> SUFFICES ASSUME NEW s \in Seq(X), Len(s) = n + 1 PROVE s \in U
    OBVIOUS
  <2> DEFINE u == SubSeq(s, 1, n)
  <2>1. u \in Seq(X) /\ Len(u) = n /\ s[n + 1] \in X
    OBVIOUS
  <2>2. s = Append(u, s[n + 1])
    OBVIOUS
  <2>3. u \in U
    BY <1>2, <2>1
  <2>. HIDE DEF u
  <2>. QED BY <2>1, <2>2, <2>3
<1>. QED
  <2>. HIDE DEF V
  <2>1. Nat \subseteq V
    BY <1>1, <1>2, NatInduct
  <2>2. \A s \in Seq(X) : Len(s) \in V
    BY <2>1
  <2>. QED BY <2>2 DEF V

\* The two equations of the copying loop.
LEMMA KeptEmpty ==
    ASSUME NEW S
    PROVE  Kept(<<>>, S) = <<>>
<1>1. <<>> \in Seq({}) /\ Len(<<>>) = 0
  OBVIOUS
<1>2. PICK f : IsUpto(<<>>, S, f, 0) /\ Kept(<<>>, S) = f[0]
  BY <1>1, KeptIs
<1>. QED BY <1>2 DEF IsUpto, Body

LEMMA UptoAgrees ==
    ASSUME NEW X, NEW s \in Seq(X), NEW x \in X, NEW S, NEW f, NEW g,
           IsUpto(s, S, f, Len(s)), IsUpto(Append(s, x), S, g, Len(s) + 1)
    PROVE  g[Len(s)] = f[Len(s)]
<1> DEFINE U == {n \in Nat : n <= Len(s) => g[n] = f[n]}
<1>0. /\ \A n \in 0..Len(s) : f[n] = Body(s, S, f, n)
      /\ \A n \in 0..(Len(s) + 1) : g[n] = Body(Append(s, x), S, g, n)
  BY DEF IsUpto
<1>1. 0 \in U
  BY <1>0 DEF Body
<1>2. ASSUME NEW n \in Nat, n \in U PROVE n + 1 \in U
  <2> SUFFICES ASSUME n + 1 <= Len(s) PROVE g[n + 1] = f[n + 1]
    OBVIOUS
  <2>1. Append(s, x)[n + 1] = s[n + 1]
    OBVIOUS
  <2>2. g[n] = f[n]
    BY <1>2
  <2>. QED BY <1>0, <2>1, <2>2 DEF Body
<1>. QED
  <2>. HIDE DEF U
  <2>1. Nat \subseteq U
    BY <1>1, <1>2, NatInduct
  <2>2. Len(s) \in U
    BY <2>1
  <2>. QED BY <2>2 DEF U

LEMMA KeptAppend ==
    ASSUME NEW X, NEW s \in Seq(X), NEW x \in X, NEW S
    PROVE  Kept(Append(s, x), S)
             = IF x \in S THEN Append(Kept(s, S), x) ELSE Kept(s, S)
<1>1. PICK f : IsUpto(s, S, f, Len(s)) /\ Kept(s, S) = f[Len(s)]
  BY KeptIs
<1>2. Append(s, x) \in Seq(X) /\ Len(Append(s, x)) = Len(s) + 1
      /\ Append(s, x)[Len(s) + 1] = x
  OBVIOUS
<1>3. PICK g : IsUpto(Append(s, x), S, g, Len(s) + 1) /\ Kept(Append(s, x), S) = g[Len(s) + 1]
  BY <1>2, KeptIs
<1>4. g[Len(s)] = f[Len(s)]
  BY <1>1, <1>3, UptoAgrees
<1>5. g[Len(s) + 1] = Body(Append(s, x), S, g, Len(s) + 1)
  BY <1>3 DEF IsUpto
<1>. QED BY <1>1, <1>2, <1>3, <1>4, <1>5 DEF Body

\* What is copied: wanted elements of the array, and every one of them.
LEMMA KeptMembers ==
    ASSUME NEW X, NEW s \in Seq(X), NEW S
    PROVE  /\ Kept(s, S) \in Seq(X)
           /\ \A k \in 1..Len(Kept(s, S)) :
                 Kept(s, S)[k] \in S /\ \E i \in 1..Len(s) : s[i] = Kept(s, S)[k]
           /\ \A i \in 1..Len(s) : s[i] \in S => \E k \in 1..Len(Kept(s, S)) : Kept(s, S)[k] = s[i]
<1> DEFINE U == {u \in Seq(X) :
        /\ Kept(u, S) \in Seq(X)
        /\ \A k \in 1..Len(Kept(u, S)) :
              Kept(u, S)[k] \in S /\ \E i \in 1..Len(u) : u[i] = Kept(u, S)[k]
        /\ \A i \in 1..Len(u) : u[i] \in S => \E k \in 1..Len(Kept(u, S)) : Kept(u, S)[k] = u[i]}
<1>1. <<>> \in U
  <2>1. <<>> \in Seq(X) /\ Len(<<>>) = 0 /\ 1..0 = {}
    OBVIOUS
  <2>2. Kept(<<>>, S) = <<>>
    BY KeptEmpty
  <2>. QED BY <2>1, <2>2
<1>2. ASSUME NEW u \in Seq(X), NEW x \in X, u \in U PROVE Append(u, x) \in U
  <2> DEFINE v == Append(u, x)
             t == Kept(u, S)
             w == Kept(v, S)
  <2>1. /\ v \in Seq(X) /\ Len(v) = Len(u) + 1 /\ v[Len(u) + 1] = x
        /\ \A i \in 1..Len(u) : v[i] = u[i]
    OBVIOUS
  <2>2. t \in Seq(X) /\ Len(t) \in Nat
    BY <1>2
  <2>3. /\ \A k \in 1..Len(t) : t[k] \in S /\ \E i \in 1..Len(u) : u[i] = t[k]
        /\ \A i \in 1..Len(u) : u[i] \in S => \E k \in 1..Len(t) : t[k] = u[i]
    BY <1>2
  <2>4. w = IF x \in S THEN Append(t, x) ELSE t
    BY KeptAppend
  <2>. HIDE DEF v, t, w
  <2>5. CASE x \in S
    <3>1. /\ w \in Seq(X) /\ Len(w) = Len(t) + 1 /\ w[Len(t) + 1] = x
          /\ \A k \in 1..Len(t) : w[k] = t[k]
      BY <2>2, <2>4, <2>5
    <3>2. \A k \in 1..Len(w) : w[k] \in S /\ \E i \in 1..Len(v) : v[i] = w[k]
      <4> TAKE k \in 1..Len(w)
      <4>1. CASE k \in 1..Len(t)
        <5>1. w[k] = t[k] /\ t[k] \in S
          BY <2>3, <3>1, <4>1
        <5>2. PICK i \in 1..Len(u) : u[i] = t[k]
          BY <2>3, <4>1
        <5>3. i \in 1..Len(v) /\ v[i] = u[i]
          BY <2>1
        <5>. QED BY <5>1, <5>2, <5>3
      <4>2. CASE k = Len(t) + 1
        <5>1. Len(u) + 1 \in 1..Len(v)
          BY <2>1
        <5>. QED BY <2>1, <2>5, <3>1, <4>2, <5>1
      <4>. QED BY <2>2, <3>1, <4>1, <4>2
    <3>3. \A i \in 1..Len(v) : v[i] \in S => \E k \in 1..Len(w) : w[k] = v[i]
      <4> SUFFICES ASSUME NEW i \in 1..Len(v), v[i] \in S
                   PROVE  \E k \in 1..Len(w) : w[k] = v[i]
        OBVIOUS
      <4>1. CASE i \in 1..Len(u)
        <5>1. PICK k \in 1..Len(t) : t[k] = u[i]
          BY <2>1, <2>3, <4>1
        <5>2. k \in 1..Len(w) /\ w[k] = t[k]
          BY <2>2, <3>1
        <5>. QED BY <2>1, <4>1, <5>1, <5>2
      <4>2. CASE i = Len(u) + 1
        <5>1. Len(t) + 1 \in 1..Len(w)
          BY <2>2, <3>1
        <5>. QED BY <2>1, <3>1, <4>2, <5>1
      <4>. QED BY <2>1, <4>1, <4>2
    <3>. QED BY <2>1, <3>1, <3>2, <3>3 DEF v, w
  <2>6. CASE x \notin S
    <3>1. \A k \in 1..Len(t) : t[k] \in S /\ \E i \in 1..Len(v) : v[i] = t[k]
      BY <2>1, <2>2, <2>3
    <3>2. \A i \in 1..Len(v) : v[i] \in S => \E k \in 1..Len(t) : t[k] = v[i]
      BY <2>1, <2>3, <2>6, SMTT(60)
    <3>. QED BY <2>1, <2>2, <2>4, <2>6, <3>1, <3>2 DEF v, w
  <2>. QED BY <2>5, <2>6
<1>. QED
  <2>. HIDE DEF U
  <2>1. Seq(X) \subseteq U
    BY <1>1, <1>2, SeqInduct
  <2>. QED BY <2>1 DEF U

\* Copying twice is copying what both want.
LEMMA KeptTwice ==
    ASSUME NEW X, NEW s \in Seq(X), NEW S, NEW T
    PROVE  Kept(Kept(s, S), T) = Kept(s, S \cap T)
<1> DEFINE U == {u \in Seq(X) : Kept(Kept(u, S), T) = Kept(u, S \cap T)}
<1>1. <<>> \in U
  BY KeptEmpty
<1>2. ASSUME NEW u \in Seq(X), NEW x \in X, u \in U PROVE Append(u, x) \in U
  <2>1. Kept(u, S) \in Seq(X)
    BY KeptMembers
  <2>2. Kept(Append(u, x), S \cap T)
          = IF x \in S \cap T THEN Append(Kept(u, S \cap T), x) ELSE Kept(u, S \cap T)
    BY KeptAppend
  <2>3. Kept(Append(u, x), S) = IF x \in S THEN Append(Kept(u, S), x) ELSE Kept(u, S)
    BY KeptAppend
  <2>4. Kept(Append(Kept(u, S), x), T)
          = IF x \in T THEN Append(Kept(Kept(u, S), T), x) ELSE Kept(Kept(u, S), T)
    BY <2>1, KeptAppend
  <2>5. Kept(Kept(u, S), T) = Kept(u, S \cap T)
    BY <1>2
  <2>6. Append(u, x) \in Seq(X)
    OBVIOUS
  <2>7. Kept(Kept(Append(u, x), S), T) = Kept(Append(u, x), S \cap T)
    <3>1. CASE x \in S
      <4>1. Kept(Append(u, x), S) = Append(Kept(u, S), x)
        BY <2>3, <3>1
      <4>2. Kept(Append(u, x), S \cap T)
              = IF x \in T THEN Append(Kept(u, S \cap T), x) ELSE Kept(u, S \cap T)
        BY <2>2, <3>1
      <4>. QED BY <2>4, <2>5, <4>1, <4>2
    <3>2. CASE x \notin S
      <4>1. Kept(Append(u, x), S) = Kept(u, S)
        BY <2>3, <3>2
      <4>2. Kept(Append(u, x), S \cap T) = Kept(u, S \cap T)
        BY <2>2, <3>2
      <4>. QED BY <2>5, <4>1, <4>2
    <3>. QED BY <3>1, <3>2
  <2>. QED BY <2>6, <2>7
<1>. QED
  <2>. HIDE DEF U
  <2>1. Seq(X) \subseteq U
    BY <1>1, <1>2, SeqInduct
  <2>. QED BY <2>1 DEF U

\* An unwanted element in front is not copied.
LEMMA KeptSkips ==
    ASSUME NEW X, NEW s \in Seq(X), NEW n \in X, NEW S, n \notin S
    PROVE  Kept(<<n>> \o s, S) = Kept(s, S)
<1> DEFINE U == {u \in Seq(X) : Kept(<<n>> \o u, S) = Kept(u, S)}
<1>1. <<>> \in U
  <2>1. <<>> \in Seq(X) /\ <<n>> \o <<>> = Append(<<>>, n)
    OBVIOUS
  <2>2. Kept(Append(<<>>, n), S) = Kept(<<>>, S)
    BY <2>1, KeptAppend
  <2>. QED BY <2>1, <2>2
<1>2. ASSUME NEW u \in Seq(X), NEW x \in X, u \in U PROVE Append(u, x) \in U
  <2>1. <<n>> \o u \in Seq(X) /\ <<n>> \o Append(u, x) = Append(<<n>> \o u, x)
    OBVIOUS
  <2>2. Kept(Append(u, x), S) = IF x \in S THEN Append(Kept(u, S), x) ELSE Kept(u, S)
    BY KeptAppend
  <2>3. Kept(Append(<<n>> \o u, x), S)
          = IF x \in S THEN Append(Kept(<<n>> \o u, S), x) ELSE Kept(<<n>> \o u, S)
    BY <2>1, KeptAppend
  <2>4. Kept(<<n>> \o u, S) = Kept(u, S) /\ Append(u, x) \in Seq(X)
    BY <1>2
  <2>5. Kept(<<n>> \o Append(u, x), S) = Kept(Append(u, x), S)
    <3>1. Kept(<<n>> \o Append(u, x), S) = Kept(Append(<<n>> \o u, x), S)
      BY <2>1
    <3>. QED BY <2>2, <2>3, <2>4, <3>1
  <2>. QED BY <2>4, <2>5
<1>. QED
  <2>. HIDE DEF U
  <2>1. Seq(X) \subseteq U
    BY <1>1, <1>2, SeqInduct
  <2>. QED BY <2>1 DEF U

Distinct(s) == \A i, j \in 1..Len(s) : s[i] = s[j] => i = j

\* No element is copied twice.
LEMMA KeptDistinct ==
    ASSUME NEW X, NEW s \in Seq(X), NEW S, Distinct(s)
    PROVE  Distinct(Kept(s, S))
<1> DEFINE U == {u \in Seq(X) : Distinct(u) => Distinct(Kept(u, S))}
<1>1. <<>> \in U
  BY KeptEmpty DEF Distinct
<1>2. ASSUME NEW u \in Seq(X), NEW x \in X, u \in U PROVE Append(u, x) \in U
  <2> SUFFICES ASSUME Distinct(Append(u, x)) PROVE Distinct(Kept(Append(u, x), S))
    OBVIOUS
  <2> DEFINE t == Kept(u, S)
             v == Append(u, x)
  <2>1. /\ Len(v) = Len(u) + 1 /\ v[Len(u) + 1] = x /\ Len(u) \in Nat
        /\ \A i \in 1..Len(u) : v[i] = u[i]
    OBVIOUS
  <2>2. Distinct(u) /\ \A i \in 1..Len(u) : u[i] # x
    BY <2>1 DEF Distinct
  <2>3. Distinct(t)
    BY <1>2, <2>2
  <2>4. t \in Seq(X) /\ \A k \in 1..Len(t) : t[k] # x
    BY <2>2, KeptMembers
  <2>5. Kept(v, S) = IF x \in S THEN Append(t, x) ELSE t
    BY KeptAppend
  <2>. HIDE DEF t, v
  <2>6. /\ Len(Append(t, x)) = Len(t) + 1 /\ Append(t, x)[Len(t) + 1] = x /\ Len(t) \in Nat
        /\ \A k \in 1..Len(t) : Append(t, x)[k] = t[k]
    BY <2>4
  <2>7. Distinct(Append(t, x))
    BY <2>3, <2>4, <2>6, SMTT(60) DEF Distinct
  <2>. QED BY <2>3, <2>5, <2>7 DEF v
<1>. QED
  <2>. HIDE DEF U
  <2>1. Seq(X) \subseteq U
    BY <1>1, <1>2, SeqInduct
  <2>. QED BY <2>1 DEF U
-----------------------------------------------------------------------------
\* A scan of FindBootNum that stops, stops at the first number it may stop at.
LEMMA LowestIsMember ==
    ASSUME NEW S \in SUBSET Nat, S # {}
    PROVE  Lowest(S) \in S /\ \A m \in S : Lowest(S) <= m
<1> DEFINE R == {ss \in Nat \X Nat : ss[1] < ss[2]}
<1>1. PICK x \in S : \A y \in S : ~(<<y, x>> \in R)
  <2>. HIDE DEF R
  <2>1. IsWellFoundedOn(R, Nat)
    BY NatLess DEF R
  <2>. QED BY <2>1, WFMin
<1>2. \A y \in S : x <= y
  <2> TAKE y \in S
  <2>1. <<y, x>> \in R <=> y < x
    OBVIOUS
  <2>. QED BY <1>1, <2>1
<1>. HIDE DEF R
<1>. QED BY <1>2 DEF Lowest

\* Both scans of FindBootNum stay within the table.
LEMMA ScansAreOfNumbers ==
    ASSUME NEW t, NEW bad, NEW e
    PROVE  /\ InWindow(t, bad, e) \subseteq Nums /\ InWindow(t, bad, e) \in SUBSET Nat
           /\ ScanEnds(t, bad, e) \subseteq Nums /\ ScanEnds(t, bad, e) \in SUBSET Nat
<1>1. Nums \subseteq Nat /\ Window \subseteq Nums
  BY DEF Nums
<1>2. InWindow(t, bad, e) \subseteq Window
  BY DEF InWindow
<1>3. ScanEnds(t, bad, e) \subseteq Nums
  BY DEF ScanEnds
<1>. QED BY <1>1, <1>2, <1>3

\* The result is a boot number of the table; it holds the option, or it can not be
\* read (absent, or its data is unreadable), or every number is taken by others.
LEMMA FindBootNumSound ==
    ASSUME NEW t, NEW bad, NEW e
    PROVE  LET f == FindBootNum(t, bad, e)
           IN  /\ f.num \in Nums
               /\ f.exists \in BOOLEAN
               /\ f.exists => t[f.num] = e
               /\ \/ f.exists
                  \/ ~Readable(t, bad, f.num)
                  \/ \A n \in Nums : Readable(t, bad, n) /\ t[n] # e
<1> DEFINE W == InWindow(t, bad, e)
           E == ScanEnds(t, bad, e)
           n == IF W # {} THEN Lowest(W) ELSE IF E # {} THEN Lowest(E) ELSE LastNum
<1>1. W \in SUBSET Nat /\ W \subseteq Nums /\ E \in SUBSET Nat /\ E \subseteq Nums
  BY ScansAreOfNumbers
<1>2. W # {} => Lowest(W) \in W
  BY <1>1, LowestIsMember
<1>3. E # {} => Lowest(E) \in E
  BY <1>1, LowestIsMember
<1>4. n \in Nums
  BY <1>1, <1>2, <1>3 DEF Nums
<1>5. \/ Matches(t, bad, e, n)
      \/ ~Readable(t, bad, n)
      \/ \A m \in Nums : Readable(t, bad, m) /\ t[m] # e
  <2>1. CASE W # {}
    BY <2>1, <1>2 DEF InWindow
  <2>2. CASE W = {} /\ E # {}
    BY <2>2, <1>3 DEF ScanEnds
  <2>3. CASE W = {} /\ E = {}
    BY <2>3 DEF ScanEnds, Matches
  <2>. QED BY <2>1, <2>2, <2>3
<1>6. FindBootNum(t, bad, e) = [num |-> n, exists |-> Matches(t, bad, e, n)]
  BY DEF FindBootNum
<1>7. Matches(t, bad, e, n) \in BOOLEAN /\ (Matches(t, bad, e, n) => t[n] = e)
  BY DEF Matches, Readable
<1>. HIDE DEF n
<1>. QED BY <1>4, <1>5, <1>6, <1>7

\* A match in the window, or one with no gap below it, is never missed.
LEMMA FindBootNumComplete ==
    ASSUME NEW t, NEW bad, NEW e, NEW m \in Nums, Matches(t, bad, e, m),
           m \in Window \/ \A k \in 0..m : Readable(t, bad, k)
    PROVE  FindBootNum(t, bad, e).exists
<1> DEFINE W == InWindow(t, bad, e)
           E == ScanEnds(t, bad, e)
           n == IF W # {} THEN Lowest(W) ELSE IF E # {} THEN Lowest(E) ELSE LastNum
<1>1. W \in SUBSET Nat /\ E \in SUBSET Nat
  BY ScansAreOfNumbers
<1>2. CASE W # {}
  <2>1. Lowest(W) \in W
    BY <1>1, <1>2, LowestIsMember
  <2>. QED BY <2>1, <1>2 DEF FindBootNum, InWindow
<1>3. CASE W = {}
  <2>1. m \notin Window /\ m \in E
    BY <1>3 DEF InWindow, ScanEnds
  <2>2. Lowest(E) \in E /\ Lowest(E) <= m
    BY <2>1, <1>1, LowestIsMember
  <2>3. Lowest(E) \in 0..m
    BY <2>2 DEF ScanEnds, Nums
  <2>4. Matches(t, bad, e, Lowest(E))
    BY <2>1, <2>2, <2>3 DEF ScanEnds
  <2>. QED BY <2>1, <2>4, <1>3 DEF FindBootNum
<1>. QED BY <1>2, <1>3

-----------------------------------------------------------------------------

Chosen == FindBootNum(table, op.blind, op.entry)

TableInv ==
    /\ table \in Tables
    /\ unreadable \subseteq Nums
    /\ op \in Op
    /\ op.pc = "idle" <=> op = NoOp
    /\ op.pc = "write" => /\ op.kind = "install"
                          /\ op.entry \in Options
                          /\ Chosen = [num |-> op.num, exists |-> FALSE]
    /\ op.pc \in {"erase", "prune"} => op.kind = "delete"

\* Every result of FindBootNum is the record of a number and a flag.
LEMMA FindBootNumType ==
    ASSUME NEW t, NEW bad, NEW e
    PROVE  FindBootNum(t, bad, e) \in [num : Nums, exists : BOOLEAN]
<1>1. FindBootNum(t, bad, e).num \in Nums /\ FindBootNum(t, bad, e).exists \in BOOLEAN
  BY FindBootNumSound
<1>. QED BY <1>1 DEF FindBootNum

LEMMA NoOpIsOp == NoOp \in Op /\ NoOp.pc = "idle"
<1>1. 0 \in Nums
  BY BootTableAssumption DEF Nums, BootTableAssumption
<1>. QED BY <1>1 DEF NoOp, Op

LEMMA TableInvInit == Init => TableInv
BY NoOpIsOp DEF Init, Faults, TableInv

\* The step of every operation keeps what the operation knows of the table.
LEMMA TableInvStep == TableInv /\ [Next]_vars => TableInv'
<1> SUFFICES ASSUME TableInv, [Next]_vars
             PROVE  TableInv'
  OBVIOUS
<1>0. unreadable' \subseteq Nums
  BY DEF Next, vars, Install, InstallFails, WriteOption, SetBootDefault, Promote, Delete,
     Erase, Prune, PowerOff, OtherSystem, ReadsChange, Faults, TableInv
<1>1. ASSUME NEW e \in Options, Install(e)
      PROVE  TableInv'
  <2>1. PICK copied \in BOOLEAN :
          op' = [kind |-> "install",
                 pc |-> IF FindBootNum(table, unreadable, e).exists THEN "default" ELSE "write",
                 num |-> FindBootNum(table, unreadable, e).num, entry |-> e, copied |-> copied,
                 blind |-> IF FindBootNum(table, unreadable, e).exists THEN {} ELSE unreadable]
    BY <1>1 DEF Install
  <2>2. table' = table /\ unreadable' = unreadable
    BY <1>1 DEF Install
  <2>3. PICK f \in [num : Nums, exists : BOOLEAN] : f = FindBootNum(table, unreadable, e)
    BY FindBootNumType
  <2>4. op' = [kind |-> "install", pc |-> IF f.exists THEN "default" ELSE "write",
               num |-> f.num, entry |-> e, copied |-> copied,
               blind |-> IF f.exists THEN {} ELSE unreadable]
    BY <2>1, <2>3
  <2>5. op' \in Op /\ op'.pc # "idle" /\ op' # NoOp
    BY <2>4 DEF Op, NoOp, TableInv
  <2>6. op'.entry = e /\ (~f.exists => Chosen' = f)
    BY <2>2, <2>3, <2>4 DEF Chosen
  <2>7. op'.pc = "write" => ~f.exists /\ f = [num |-> op'.num, exists |-> FALSE]
    BY <2>4
  <2>. QED BY <1>0, <2>2, <2>4, <2>5, <2>6, <2>7 DEF TableInv
<1>2. CASE InstallFails
  BY <1>0, <1>2 DEF InstallFails, TableInv, Chosen
<1>3. CASE WriteOption
  <2>1. CASE table' = [table EXCEPT ![op.num] = op.entry] /\ op' = [op EXCEPT !.pc = "default", !.blind = {}]
    BY <1>0, <1>3, <2>1, NoOpIsOp DEF WriteOption, TableInv, Tables, Op, NoOp
  <2>2. CASE op' = NoOp /\ table' = table
    BY <1>0, <2>2, NoOpIsOp DEF TableInv
  <2>. QED BY <1>3, <2>1, <2>2 DEF WriteOption, Registered, Ends
<1>4. CASE SetBootDefault
  <2>1. op' = NoOp /\ table' = table
    BY <1>4 DEF SetBootDefault, Ends
  <2>. QED BY <1>0, <2>1, NoOpIsOp DEF TableInv
<1>5. ASSUME NEW n \in Nums, Promote(n) \/ Delete(n)
      PROVE  TableInv'
  BY <1>0, <1>5 DEF Promote, Delete, TableInv, NoOp, Op
<1>6. CASE Erase
  <2>1. table' \in Tables
    BY <1>6 DEF Erase, TableInv, Tables, Op
  <2>. QED BY <1>0, <1>6, <2>1 DEF Erase, TableInv, Op, NoOp
<1>7. CASE Prune
  <2>1. op' = NoOp /\ table' = table
    BY <1>7 DEF Prune, Ends
  <2>. QED BY <1>0, <2>1, NoOpIsOp DEF TableInv
<1>8. CASE PowerOff
  BY <1>0, <1>8, NoOpIsOp DEF PowerOff, TableInv
<1>9. CASE OtherSystem
  <2>1. table' \in Tables /\ op' = NoOp
    BY <1>9 DEF OtherSystem, TableInv, Tables
  <2>. QED BY <1>0, <2>1, NoOpIsOp DEF TableInv
<1>10. CASE ReadsChange
  BY <1>0, <1>10 DEF ReadsChange, TableInv, Chosen
<1>11. CASE UNCHANGED vars
  BY <1>11 DEF vars, TableInv, Chosen
<1>. QED BY <1>1, <1>2, <1>3, <1>4, <1>5, <1>6, <1>7, <1>8, <1>9, <1>10, <1>11 DEF Next

\* While CreateNvramEntry is about to write Boot####, the number is one FindBootNum
\* would choose again from what it could read.
THEOREM TableInvariant == Spec => []TableInv
BY TableInvInit, TableInvStep, PTL DEF Spec
-----------------------------------------------------------------------------
\* A step of an operation that changes the table writes the operation's number.
LEMMA TableWrites ==
    ASSUME TableInv, [Next]_vars, op # NoOp, table' # table
    PROVE  \/ /\ op.pc = "write"
              /\ table' = [table EXCEPT ![op.num] = op.entry]
           \/ /\ op.pc = "erase"
              /\ table' = [table EXCEPT ![op.num] = Absent]
BY DEF Next, vars, Install, InstallFails, WriteOption, Registered, Ends, SetBootDefault,
       Promote, Delete, Erase, Prune, PowerOff, OtherSystem, ReadsChange, TableInv

\* CreateNvramEntry overwrites another system's option only where it could not be read
\* when its number was chosen or all numbers are taken, and ManageBootorder deletes the
\* option that was picked and no other, whatever can be read in between.
THEOREM TheirOptionsAreSafe == Spec => OthersKeepTheirOptions
<1>1. TableInv /\ [Next]_vars =>
        [\A n \in Nums : (op # NoOp /\ table[n] # Absent /\ table'[n] # table[n])
          => /\ n = op.num
             /\ \/ op.kind = "delete" /\ table'[n] = Absent
                \/ op.kind = "install" /\ (n \in op.blind \/ Full(op.entry))]_vars
  <2> SUFFICES ASSUME TableInv, Next, op # NoOp, NEW n \in Nums,
                      table[n] # Absent, table'[n] # table[n]
               PROVE  /\ n = op.num
                      /\ \/ op.kind = "delete" /\ table'[n] = Absent
                         \/ op.kind = "install" /\ (n \in op.blind \/ Full(op.entry))
    OBVIOUS
  <2>1. CASE /\ op.pc = "write"
             /\ table' = [table EXCEPT ![op.num] = op.entry]
    <3>1. n = op.num /\ op.kind = "install"
      BY <2>1 DEF TableInv, Tables
    <3>2. Chosen.num = n /\ ~Chosen.exists
      BY <2>1, <3>1 DEF TableInv
    <3>3. \/ ~Readable(table, op.blind, n)
          \/ \A m \in Nums : Readable(table, op.blind, m) /\ table[m] # op.entry
      BY <3>2, FindBootNumSound DEF Chosen
    <3>. QED BY <3>1, <3>3 DEF Readable, Full
  <2>2. CASE /\ op.pc = "erase"
             /\ table' = [table EXCEPT ![op.num] = Absent]
    BY <2>2 DEF TableInv, Tables, Op
  <2>. QED BY <2>1, <2>2, TableWrites
<1>. QED BY <1>1, TableInvariant, PTL DEF OthersKeepTheirOptions, Spec

\* InstallMeridian run again finds its own Boot#### as long as it can be read in the
\* window or below the first gap, and does not register it a second time.
THEOREM RegisteredOnce == Spec => NoSecondRegistration
<1>1. TableInv /\ [Next]_vars =>
        [\A m \in Nums :
          /\ op.kind = "install" /\ table' # table
          /\ Matches(table, op.blind, op.entry, m)
          => /\ m \notin Window
             /\ \E k \in 0..m : ~Readable(table, op.blind, k)]_vars
  <2> SUFFICES ASSUME TableInv, Next, NEW m \in Nums, op.kind = "install", table' # table,
                      Matches(table, op.blind, op.entry, m)
               PROVE  /\ m \notin Window
                      /\ \E k \in 0..m : ~Readable(table, op.blind, k)
    OBVIOUS
  <2>1. op # NoOp
    BY DEF NoOp
  <2>2. op.pc = "write"
    BY <2>1, TableWrites DEF TableInv
  <2>3. ~Chosen.exists
    BY <2>2 DEF TableInv
  <2>. QED BY <2>3, FindBootNumComplete DEF Chosen
<1>. QED BY <1>1, TableInvariant, PTL DEF NoSecondRegistration, Spec
-----------------------------------------------------------------------------
\* What the screen says holds as long as nothing is under way; while SetBootDefault
\* is about to run, the number it puts first holds Meridian's loader.
DefaultInv ==
    /\ op.pc = "default" /\ op.kind = "install" => table[op.num] = op.entry
    /\ screen.text = "installed" => op = NoOp
    /\ InstalledIsDefault

LEMMA DefaultInvInit == Init => DefaultInv
BY DEF Init, DefaultInv, InstalledIsDefault, NoOp, Blank

\* The list SetBootDefault writes begins with the number it was given.
LEMMA PromotedIsFirst ==
    ASSUME NEW o, NEW n
    PROVE  Promoted(o, n) # <<>> /\ Head(Promoted(o, n)) = n
BY SMT DEF Promoted

\* Every step leaves the screen truthful.
LEMMA DefaultInvStep == TableInv /\ DefaultInv /\ [Next]_vars => DefaultInv'
<1> SUFFICES ASSUME TableInv, DefaultInv, [Next]_vars
             PROVE  DefaultInv'
  OBVIOUS
<1> USE DEF DefaultInv
<1>1. ASSUME NEW e \in Options, Install(e)
      PROVE  DefaultInv'
  <2>1. PICK f \in [num : Nums, exists : BOOLEAN] : f = FindBootNum(table, unreadable, e)
    BY FindBootNumType
  <2>2. f.exists => table[f.num] = e
    BY <2>1, FindBootNumSound
  <2>3. op'.pc = (IF f.exists THEN "default" ELSE "write") /\ op'.num = f.num /\ op'.entry = e
    BY <1>1, <2>1 DEF Install
  <2>4. table' = table /\ screen' = Blank
    BY <1>1 DEF Install
  <2>. QED BY <2>2, <2>3, <2>4 DEF InstalledIsDefault, Blank
<1>2. CASE InstallFails
  BY <1>2 DEF InstallFails, InstalledIsDefault, NoOp
<1>3. CASE WriteOption
  <2>1. CASE Registered
    <3>1. op # NoOp
      BY <1>3 DEF WriteOption, NoOp
    <3>2. table'[op.num] = op.entry
      BY <2>1 DEF Registered, TableInv, Tables, Op
    <3>3. op'.num = op.num /\ op'.entry = op.entry /\ screen' = screen
      BY <2>1 DEF Registered, TableInv, Op
    <3>. QED BY <3>1, <3>2, <3>3 DEF InstalledIsDefault
  <2>2. CASE Ends("problems", FALSE)
    BY <2>2 DEF Ends, InstalledIsDefault, NoOp
  <2>. QED BY <1>3, <2>1, <2>2 DEF WriteOption
<1>4. CASE SetBootDefault
  <2>1. table' = table /\ op' = NoOp
    BY <1>4 DEF SetBootDefault, Ends
  <2>2. ASSUME screen'.text = "installed", ~screen'.short
        PROVE  /\ op.kind = "install" /\ screen'.op = op
               /\ order' # <<>> /\ Head(order') = op.num
    <3>1. Failure # "installed" /\ (Success = "installed" => op.kind = "install")
      BY DEF Failure, Success
    <3>2. \/ /\ order # <<>> /\ order[1] = op.num /\ order' = order
             /\ Ends(Success, FALSE)
          \/ order' = Promoted(order, op.num) /\ Ends(Success, FALSE)
      BY <1>4, <2>2, <3>1 DEF SetBootDefault, Ends, AlreadyFirst
    <3>. QED BY <2>2, <3>1, <3>2, PromotedIsFirst DEF Ends
  <2>3. op.pc = "default"
    BY <1>4 DEF SetBootDefault
  <2>. QED BY <2>1, <2>2, <2>3 DEF InstalledIsDefault, NoOp
<1>5. ASSUME NEW n \in Nums, Promote(n) \/ Delete(n)
      PROVE  DefaultInv'
  <2>1. op'.kind # "install" /\ screen' = Blank
    BY <1>5 DEF Promote, Delete, NoOp
  <2>. QED BY <2>1 DEF InstalledIsDefault, Blank
<1>6. CASE Erase
  BY <1>6 DEF Erase, TableInv, InstalledIsDefault, NoOp, Op
<1>7. CASE Prune
  BY <1>7 DEF Prune, Ends, InstalledIsDefault, NoOp
<1>8. CASE PowerOff
  BY <1>8 DEF PowerOff, InstalledIsDefault, NoOp, Blank
<1>9. CASE OtherSystem
  BY <1>9 DEF OtherSystem, InstalledIsDefault, NoOp, Blank
<1>10. CASE ReadsChange
  BY <1>10 DEF ReadsChange, InstalledIsDefault
<1>11. CASE UNCHANGED vars
  BY <1>11 DEF vars, InstalledIsDefault
<1>. QED BY <1>1, <1>2, <1>3, <1>4, <1>5, <1>6, <1>7, <1>8, <1>9, <1>10, <1>11 DEF Next

\* Once InstallMeridian has said that it was installed, Meridian's option is first in
\* BootOrder and holds its loader, whatever failed before it (SetBootDefault without
\* memory for the list excepted).
THEOREM InstalledOptionIsDefault == Spec => []InstalledIsDefault
<1>1. DefaultInv => InstalledIsDefault
  BY DEF DefaultInv
<1>. QED BY <1>1, DefaultInvInit, DefaultInvStep, TableInvariant, PTL DEF Spec
-----------------------------------------------------------------------------
\* BootOrder lists boot numbers, none of them twice, and the number SetBootDefault
\* is about to put first is that of an option.
OrderInv ==
    /\ order \in Seq(Nums) /\ Distinct(order)
    /\ op.pc = "default" => table[op.num] # Absent

LEMMA OrderInvInit == Init => OrderInv
<1> SUFFICES ASSUME Init PROVE OrderInv
  OBVIOUS
<1>1. PICK o \in {<<>>} \cup {<<n>> : n \in Nums} : order = o
  BY DEF Init
<1>2. order \in Seq(Nums) /\ Len(order) \in {0, 1}
  <2>1. CASE o = <<>>
    BY <1>1, <2>1
  <2>2. ASSUME NEW n \in Nums, o = <<n>> PROVE order \in Seq(Nums) /\ Len(order) = 1
    BY <1>1, <2>2
  <2>. QED BY <2>1, <2>2
<1>. QED BY <1>2 DEF Init, OrderInv, Distinct, NoOp

\* What either list takes over from BootOrder.
LEMMA KeptOfOrder ==
    ASSUME OrderInv, NEW S
    PROVE  /\ Kept(order, S) \in Seq(Nums)
           /\ Distinct(Kept(order, S))
           /\ \A k \in 1..Len(Kept(order, S)) :
                 Kept(order, S)[k] \in S /\ Kept(order, S)[k] \in Members(order)
<1>1. order \in Seq(Nums) /\ Distinct(order)
  BY DEF OrderInv
<1>2. /\ Kept(order, S) \in Seq(Nums)
      /\ \A k \in 1..Len(Kept(order, S)) :
            Kept(order, S)[k] \in S /\ \E i \in 1..Len(order) : order[i] = Kept(order, S)[k]
  BY <1>1, KeptMembers
<1>3. Distinct(Kept(order, S))
  BY <1>1, KeptDistinct
<1>. QED BY <1>2, <1>3 DEF Members

\* SetBootDefault's list: the number first, then the others as they were.
LEMMA PromotedKeeps ==
    ASSUME OrderInv, NEW n \in Nums, NEW S \in SUBSET (Nums \ {n})
    PROVE  /\ Promoted(order, n) \in Seq(Nums)
           /\ Distinct(Promoted(order, n))
           /\ Members(Promoted(order, n)) \subseteq {n} \cup Members(order)
           /\ Kept(Promoted(order, n), S) = Kept(order, S)
<1> DEFINE t == Kept(order, Nums \ {n})
           p == <<n>> \o t
<1>1. /\ t \in Seq(Nums) /\ Distinct(t)
      /\ \A k \in 1..Len(t) : t[k] # n /\ t[k] \in Members(order)
  <2>1. t \in Seq(Nums) /\ Distinct(t)
    BY KeptOfOrder
  <2>2. \A k \in 1..Len(t) : t[k] \in Nums \ {n} /\ t[k] \in Members(order)
    BY KeptOfOrder
  <2>. QED BY <2>1, <2>2
<1>2. Kept(t, S) = Kept(order, S)
  <2>1. Kept(t, S) = Kept(order, (Nums \ {n}) \cap S)
    BY KeptTwice DEF OrderInv
  <2>2. (Nums \ {n}) \cap S = S
    OBVIOUS
  <2>. QED BY <2>1, <2>2
<1>3. Kept(p, S) = Kept(t, S)
  BY <1>1, KeptSkips
<1>. HIDE DEF t
<1>4. /\ p \in Seq(Nums) /\ Len(p) = Len(t) + 1 /\ p[1] = n /\ Len(t) \in Nat
      /\ \A i \in 2..Len(p) : p[i] = t[i - 1] /\ i - 1 \in 1..Len(t)
  BY <1>1
<1>. HIDE DEF p
<1>5. \A i \in 1..Len(p) : i = 1 \/ i \in 2..Len(p)
  BY <1>4
<1>6. Distinct(p)
  <2> SUFFICES ASSUME NEW i \in 1..Len(p), NEW j \in 1..Len(p), p[i] = p[j] PROVE i = j
    BY DEF Distinct
  <2>1. CASE i = 1 \/ j = 1
    BY <1>1, <1>4, <1>5, <2>1
  <2>2. CASE i \in 2..Len(p) /\ j \in 2..Len(p)
    <3>1. t[i - 1] = t[j - 1] /\ i - 1 \in 1..Len(t) /\ j - 1 \in 1..Len(t)
      BY <1>4, <2>2
    <3>. QED BY <1>1, <2>2, <3>1 DEF Distinct
  <2>. QED BY <1>5, <2>1, <2>2
<1>7. Members(p) \subseteq {n} \cup Members(order)
  <2> SUFFICES ASSUME NEW i \in 1..Len(p) PROVE p[i] \in {n} \cup Members(order)
    BY DEF Members
  <2>. QED BY <1>1, <1>4, <1>5
<1>8. Promoted(order, n) = p
  BY DEF Promoted, p, t
<1>. QED BY <1>2, <1>3, <1>4, <1>6, <1>7, <1>8

\* DeleteInvalidBootEntries' list: the readable ones as they were.
LEMMA PrunedKeeps ==
    ASSUME OrderInv
    PROVE  /\ Pruned(order) \in Seq(Nums)
           /\ Distinct(Pruned(order))
           /\ Members(Pruned(order)) \subseteq Members(order)
           /\ OthersOf(Pruned(order)) = OthersOf(order)
<1> DEFINE R == {m \in Nums : Readable(table, unreadable, m)}
           S == {n \in Nums \ {op.num} : Readable(table, unreadable, n)}
<1>1. /\ Kept(order, R) \in Seq(Nums) /\ Distinct(Kept(order, R))
      /\ \A k \in 1..Len(Kept(order, R)) : Kept(order, R)[k] \in Members(order)
  <2>. HIDE DEF R
  <2>. QED BY KeptOfOrder
<1>2. Kept(Kept(order, R), S) = Kept(order, R \cap S)
  <2>. HIDE DEF R, S
  <2>. QED BY KeptTwice DEF OrderInv
<1>3. R \cap S = S
  OBVIOUS
<1>4. Pruned(order) = Kept(order, R) /\ OthersOf(Pruned(order)) = Kept(Pruned(order), S)
      /\ OthersOf(order) = Kept(order, S)
  BY DEF Pruned, OthersOf
<1>. HIDE DEF R, S
<1>. QED BY <1>1, <1>2, <1>3, <1>4 DEF Members

LEMMA AppendKeeps ==
    ASSUME OrderInv, NEW n \in Nums, n \notin Members(order)
    PROVE  Append(order, n) \in Seq(Nums) /\ Distinct(Append(order, n))
<1> DEFINE p == Append(order, n)
<1>1. /\ order \in Seq(Nums) /\ Distinct(order)
      /\ \A i \in 1..Len(order) : order[i] # n
  BY DEF OrderInv, Members
<1>2. /\ p \in Seq(Nums) /\ Len(p) = Len(order) + 1 /\ p[Len(order) + 1] = n
      /\ Len(order) \in Nat /\ \A i \in 1..Len(order) : p[i] = order[i]
  BY <1>1
<1>. HIDE DEF p
<1>3. Distinct(p)
  BY <1>1, <1>2 DEF Distinct
<1>. QED BY <1>2, <1>3 DEF p

LEMMA OrderInvStep == TableInv /\ OrderInv /\ [Next]_vars => OrderInv'
<1> SUFFICES ASSUME TableInv, OrderInv, [Next]_vars
             PROVE  OrderInv'
  OBVIOUS
<1> USE DEF OrderInv
<1>1. ASSUME NEW e \in Options, Install(e)
      PROVE  OrderInv'
  <2>1. PICK f \in [num : Nums, exists : BOOLEAN] : f = FindBootNum(table, unreadable, e)
    BY FindBootNumType
  <2>2. f.exists => table[f.num] # Absent
    <3>1. f.exists => table[f.num] = e
      BY <2>1, FindBootNumSound
    <3>. QED BY <3>1 DEF BootTableAssumption
  <2>3. op'.pc = (IF f.exists THEN "default" ELSE "write") /\ op'.num = f.num
    BY <1>1, <2>1 DEF Install
  <2>4. table' = table /\ order' = order
    BY <1>1 DEF Install
  <2>. QED BY <2>2, <2>3, <2>4
<1>2. CASE InstallFails
  BY <1>2 DEF InstallFails
<1>3. CASE WriteOption
  <2>1. CASE Registered
    <3>1. table'[op.num] = op.entry /\ op.entry # Absent /\ op'.num = op.num
      BY <1>3, <2>1 DEF WriteOption, Registered, TableInv, Tables, Op, BootTableAssumption
    <3>. QED BY <1>3, <3>1 DEF WriteOption
  <2>2. CASE Ends("problems", FALSE)
    BY <1>3, <2>2 DEF Ends, NoOp, WriteOption
  <2>. QED BY <1>3, <2>1, <2>2 DEF WriteOption
<1>4. CASE SetBootDefault
  <2>1. op' = NoOp /\ (order' = order \/ order' = Promoted(order, op.num))
    BY <1>4 DEF SetBootDefault, Ends
  <2>2. op.num \in Nums
    BY DEF TableInv, Op
  <2>. QED BY <2>1, <2>2, PromotedKeeps DEF NoOp
<1>5. ASSUME NEW n \in Nums, Promote(n) \/ Delete(n)
      PROVE  OrderInv'
  BY <1>5 DEF Promote, Delete, NoOp, Listed, Readable
<1>6. CASE Erase
  BY <1>6 DEF Erase, TableInv, Op
<1>7. CASE Prune
  <2>1. op' = NoOp /\ (order' = order \/ order' = Pruned(order))
    BY <1>7 DEF Prune, Ends
  <2>. QED BY <2>1, PrunedKeeps DEF NoOp
<1>8. CASE PowerOff
  BY <1>8 DEF PowerOff, NoOp
<1>9. CASE OtherSystem
  <2>1. /\ op' = NoOp
        /\ \/ order' = order
           \/ \E n \in Nums : n \notin Members(order) /\ order' = Append(order, n)
    BY <1>9 DEF OtherSystem
  <2>. QED BY <2>1, AppendKeeps DEF NoOp
<1>10. CASE ReadsChange
  BY <1>10 DEF ReadsChange
<1>11. CASE UNCHANGED vars
  BY <1>11 DEF vars
<1>. QED BY <1>1, <1>2, <1>3, <1>4, <1>5, <1>6, <1>7, <1>8, <1>9, <1>10, <1>11 DEF Next

THEOREM OrderInvariant == Spec => [](TableInv /\ OrderInv)
BY TableInvariant, OrderInvInit, OrderInvStep, PTL DEF Spec

\* An operation's step keeps every other readable option in its place, lists no
\* number twice and none without an option, but the one being deleted.
LEMMA StepKeepsOthers ==
    ASSUME TableInv, OrderInv, Next, op # NoOp
    PROVE  /\ OthersOf(order') = OthersOf(order)
           /\ Dangling' \subseteq
                Dangling \cup (IF op.kind = "delete" THEN {op.num} ELSE {})
<1>0. op.pc # "idle" /\ op.num \in Nums
  BY DEF TableInv, Op
<1>1. CASE WriteOption
  <2>1. order' = order
    BY <1>1 DEF WriteOption
  <2>2. \A n \in Nums : table'[n] = Absent => table[n] = Absent
    BY <1>1 DEF WriteOption, Registered, TableInv, Tables, BootTableAssumption
  <2>3. Members(order) \subseteq Nums
    BY DEF OrderInv, Members
  <2>. QED BY <2>1, <2>2, <2>3 DEF Dangling
<1>2. CASE SetBootDefault
  <2> DEFINE S == {n \in Nums \ {op.num} : Readable(table, unreadable, n)}
  <2>1. table' = table /\ (order' = order \/ order' = Promoted(order, op.num))
    BY <1>2 DEF SetBootDefault
  <2>2. OthersOf(order') = Kept(order', S) /\ OthersOf(order) = Kept(order, S)
    BY DEF OthersOf
  <2>3. S \in SUBSET (Nums \ {op.num})
    OBVIOUS
  <2>. HIDE DEF S
  <2>4. /\ Kept(order', S) = Kept(order, S)
        /\ Members(order') \subseteq {op.num} \cup Members(order)
    BY <1>0, <2>1, <2>3, PromotedKeeps
  <2>5. table[op.num] # Absent
    BY <1>2 DEF SetBootDefault, OrderInv
  <2>. QED BY <2>1, <2>2, <2>4, <2>5 DEF Dangling
<1>3. CASE Erase
  <2>1. order' = order /\ op.kind = "delete"
    BY <1>3 DEF Erase, TableInv
  <2>2. \A n \in Nums : n # op.num => table'[n] = table[n]
    BY <1>3 DEF Erase, TableInv, Tables
  <2>3. Members(order) \subseteq Nums
    BY DEF OrderInv, Members
  <2>. QED BY <2>1, <2>2, <2>3 DEF Dangling
<1>4. CASE Prune
  <2>1. table' = table /\ (order' = order \/ order' = Pruned(order))
    BY <1>4 DEF Prune
  <2>2. OthersOf(order') = OthersOf(order) /\ Members(order') \subseteq Members(order)
    BY <2>1, PrunedKeeps
  <2>. QED BY <2>1, <2>2 DEF Dangling
<1>5. CASE PowerOff
  BY <1>5 DEF PowerOff, Dangling
<1>6. CASE ReadsChange
  BY <1>6 DEF ReadsChange, Dangling
<1>. QED BY <1>0, <1>1, <1>2, <1>3, <1>4, <1>5, <1>6 DEF Next, Install, InstallFails, Promote,
         Delete, OtherSystem

\* BootOrder keeps what the installer and the BootOrder manager were not asked to
\* change, in its order, whichever write fails and wherever the power goes.
THEOREM OrderIsKept == Spec => OrderKeepsOthers
<1>1. (TableInv /\ OrderInv) /\ (TableInv /\ OrderInv)' /\ [Next]_vars =>
        [op # NoOp =>
          /\ order' \in Seq(Nums) /\ OrderHasNoDuplicates'
          /\ OthersOf(order') = OthersOf(order)
          /\ Dangling' \subseteq
                Dangling \cup (IF op.kind = "delete" THEN {op.num} ELSE {})]_vars
  <2> SUFFICES ASSUME TableInv, OrderInv, OrderInv', Next, op # NoOp
               PROVE  /\ order' \in Seq(Nums) /\ OrderHasNoDuplicates'
                      /\ OthersOf(order') = OthersOf(order)
                      /\ Dangling' \subseteq
                           Dangling \cup (IF op.kind = "delete" THEN {op.num} ELSE {})
    OBVIOUS
  <2>1. order' \in Seq(Nums) /\ OrderHasNoDuplicates'
    BY DEF OrderInv, OrderHasNoDuplicates, Distinct
  <2>. QED BY <2>1, StepKeepsOthers
<1>. QED BY <1>1, OrderInvariant, PTL DEF Spec, OrderKeepsOthers

\* What is left of the type invariant: the screen names an operation.
ScreenInv ==
    screen \in [text : {"none", "problems", "installed", "promoted", "deleted"},
               op : Op, short : BOOLEAN]

LEMMA ScreenInvStep == TableInv /\ ScreenInv /\ [Next]_vars => ScreenInv'
<1> SUFFICES ASSUME TableInv, ScreenInv, [Next]_vars
             PROVE  ScreenInv'
  OBVIOUS
<1>2. Blank \in [text : {"none"}, op : Op, short : BOOLEAN] /\ op \in Op
  BY NoOpIsOp DEF Blank, TableInv
<1>3. /\ Success \in {"installed", "promoted"} /\ Failure \in {"problems", "promoted"}
  BY DEF Success, Failure
<1>4. \/ screen' = screen \/ screen' = Blank
      \/ screen' = [text |-> "problems", op |-> NoOp, short |-> FALSE]
      \/ \E t \in {"problems", "installed", "promoted", "deleted"}, b \in BOOLEAN :
            screen' = [text |-> t, op |-> op, short |-> b]
  BY <1>3 DEF Next, vars, Install, InstallFails, WriteOption, Registered, SetBootDefault,
     Promote, Delete, Erase, Prune, PowerOff, OtherSystem, ReadsChange, Ends
<1>5. NoOp \in Op /\ Blank.text = "none"
  BY NoOpIsOp DEF Blank
<1> DEFINE T == [text : {"none", "problems", "installed", "promoted", "deleted"},
                 op : Op, short : BOOLEAN]
<1>6. screen' \in T
  <2>1. Blank \in T
    BY <1>2
  <2>2. screen \in T
    BY DEF ScreenInv
  <2>3. \A t \in {"problems", "installed", "promoted", "deleted"}, o \in Op, b \in BOOLEAN :
           [text |-> t, op |-> o, short |-> b] \in T
    OBVIOUS
  <2>. HIDE DEF T
  <2>. QED BY <1>2, <1>4, <1>5, <2>1, <2>2, <2>3, ZenonT(60)
<1>. QED BY <1>6 DEF ScreenInv

\* Types of the NVRAM state and of install.c's operations on it.
THEOREM TypeCorrect == Spec => []TypeOK
<1>1. Init => ScreenInv
  BY NoOpIsOp DEF Init, ScreenInv, Blank
<1>2. TableInv /\ OrderInv /\ ScreenInv => TypeOK
  BY DEF TableInv, OrderInv, ScreenInv, TypeOK, OrderHasNoDuplicates, Distinct
<1>. QED BY <1>1, <1>2, ScreenInvStep, OrderInvariant, PTL DEF Spec
=============================================================================
