-------------------------- MODULE MenuCache_proofs --------------------------
(***************************************************************************)
(* What a launch may rely on in menu.cache, for every set of volumes and   *)
(* loaders.  The invariant says when there is a menu at all (Session), that *)
(* a file whose checksums hold is the last save that went through (Sealed), *)
(* and what a launch without the cache leaves behind (Forgotten).          *)
(***************************************************************************)
EXTENDS MenuCache, WellFoundedInduction, TLAPS

Session ==
    /\ vols \in Seq(Volumes)
    /\ faults \in Nat
    /\ source # "none" => phase = "menu"

Sealed ==
    cache # NoFile =>
        /\ (cache.sound /\ cache.body = cache.sum) => cache.sum = stored
        /\ faults = 0 => cache.sound

Forgotten == forgot => cache = NoFile /\ (phase = "menu" => ~enabled)

IInv == Session /\ Sealed /\ Forgotten /\ ServedIsLive /\ ServedWasStored
            /\ OtherBuildsCacheIsGone

LEMMA NatLess ==
    IsWellFoundedOn({ss \in Nat \X Nat : ss[1] < ss[2]}, Nat)
BY NatLessThanWellFounded DEF OpToRel

\* Induction over a set of numbers, which needs no operator for a parameter.
LEMMA NatInduct ==
    ASSUME NEW U, 0 \in U, \A n \in Nat : n \in U => n + 1 \in U
    PROVE  Nat \subseteq U
<1> DEFINE R == {ss \in Nat \X Nat : ss[1] < ss[2]}
<1> SUFFICES ASSUME Nat \ U # {} PROVE FALSE
  OBVIOUS
<1>1. PICK n \in Nat \ U : \A m \in Nat \ U : ~(<<m, n>> \in R)
  <2>. HIDE DEF R
  <2>1. IsWellFoundedOn(R, Nat)
    BY NatLess DEF R
  <2>. QED BY <2>1, WFMin
<1>2. n # 0 /\ n - 1 \in Nat
  OBVIOUS
<1>3. n - 1 \in U
  <2>1. <<n - 1, n>> \in R
    BY <1>2
  <2>. QED BY <1>1, <1>2, <2>1
<1>. QED BY <1>2, <1>3

\* The function Kept is the last value of.
Body(s, S, f, n) == IF n = 0 THEN <<>>
            ELSE IF s[n] \in S THEN Append(f[n - 1], s[n])
            ELSE f[n - 1]

IsUpto(s, S, f, n) == f = [m \in 0..n |-> Body(s, S, f, m)]

\* It exists: it can be written down for one element more.
LEMMA UptoExists ==
    ASSUME NEW s, NEW S
    PROVE  \A n \in Nat : \E f : IsUpto(s, S, f, n)
<1> DEFINE U == {n \in Nat : \E f : IsUpto(s, S, f, n)}
<1>1. 0 \in U
  <2> DEFINE f == [m \in 0..0 |-> <<>>]
  <2>1. f = [m \in 0..0 |-> Body(s, S, f, m)]
    BY DEF Body
  <2>. QED BY <2>1 DEF IsUpto
<1>2. ASSUME NEW n \in Nat, n \in U PROVE n + 1 \in U
  <2>1. PICK f : IsUpto(s, S, f, n)
    BY <1>2
  <2> DEFINE g == [m \in 0..(n + 1) |-> IF m = n + 1 THEN Body(s, S, f, m) ELSE f[m]]
  <2>2. \A m \in 0..n : f[m] = Body(s, S, f, m)
    BY <2>1 DEF IsUpto
  <2>3. \A m \in 0..(n + 1) : g[m] = Body(s, S, g, m)
    <3> TAKE m \in 0..(n + 1)
    <3>1. \A k \in 0..n : g[k] = f[k]
      OBVIOUS
    <3>2. Body(s, S, g, m) = Body(s, S, f, m)
      BY <3>1 DEF Body
    <3>. QED BY <2>2, <3>2
  <2>4. IsUpto(s, S, g, n + 1)
    <3>. HIDE DEF g
    <3>1. g = [m \in 0..(n + 1) |-> g[m]]
      BY DEF g
    <3>. QED BY <2>3, <3>1 DEF IsUpto
  <2>. QED BY <2>4
<1>. QED
  <2>. HIDE DEF U
  <2>1. Nat \subseteq U
    BY <1>1, <1>2, NatInduct
  <2>. QED BY <2>1 DEF U

LEMMA KeptIs ==
    ASSUME NEW X, NEW s \in Seq(X), NEW S
    PROVE  \E f : IsUpto(s, S, f, Len(s)) /\ Kept(s, S) = f[Len(s)]
<1>1. Len(s) \in Nat
  OBVIOUS
<1>2. \E f : IsUpto(s, S, f, Len(s))
  BY <1>1, UptoExists
<1> DEFINE g == CHOOSE f : IsUpto(s, S, f, Len(s))
<1>3. IsUpto(s, S, g, Len(s))
  BY <1>2
<1>4. Kept(s, S) = g[Len(s)]
  BY DEF Kept, IsUpto, Body
<1>. QED BY <1>3, <1>4

\* Induction over sequences, as they are appended to.
LEMMA SeqInduct ==
    ASSUME NEW X, NEW U, <<>> \in U,
           \A u \in Seq(X), x \in X : u \in U => Append(u, x) \in U
    PROVE  Seq(X) \subseteq U
<1> DEFINE V == {n \in Nat : \A s \in Seq(X) : Len(s) = n => s \in U}
<1>1. 0 \in V
  OBVIOUS
<1>2. ASSUME NEW n \in Nat, n \in V PROVE n + 1 \in V
  <2> SUFFICES ASSUME NEW s \in Seq(X), Len(s) = n + 1 PROVE s \in U
    OBVIOUS
  <2> DEFINE u == SubSeq(s, 1, n)
  <2>1. u \in Seq(X) /\ Len(u) = n /\ s[n + 1] \in X
    OBVIOUS
  <2>2. s = Append(u, s[n + 1])
    OBVIOUS
  <2>3. u \in U
    BY <1>2, <2>1
  <2>. HIDE DEF u
  <2>. QED BY <2>1, <2>2, <2>3
<1>. QED
  <2>. HIDE DEF V
  <2>1. Nat \subseteq V
    BY <1>1, <1>2, NatInduct
  <2>2. \A s \in Seq(X) : Len(s) \in V
    BY <2>1
  <2>. QED BY <2>2 DEF V

\* The two equations of the copying loop.
LEMMA KeptEmpty ==
    ASSUME NEW S
    PROVE  Kept(<<>>, S) = <<>>
<1>1. <<>> \in Seq({}) /\ Len(<<>>) = 0
  OBVIOUS
<1>2. PICK f : IsUpto(<<>>, S, f, 0) /\ Kept(<<>>, S) = f[0]
  BY <1>1, KeptIs
<1>. QED BY <1>2 DEF IsUpto, Body

LEMMA UptoAgrees ==
    ASSUME NEW X, NEW s \in Seq(X), NEW x \in X, NEW S, NEW f, NEW g,
           IsUpto(s, S, f, Len(s)), IsUpto(Append(s, x), S, g, Len(s) + 1)
    PROVE  g[Len(s)] = f[Len(s)]
<1> DEFINE U == {n \in Nat : n <= Len(s) => g[n] = f[n]}
<1>0. /\ \A n \in 0..Len(s) : f[n] = Body(s, S, f, n)
      /\ \A n \in 0..(Len(s) + 1) : g[n] = Body(Append(s, x), S, g, n)
  BY DEF IsUpto
<1>1. 0 \in U
  BY <1>0 DEF Body
<1>2. ASSUME NEW n \in Nat, n \in U PROVE n + 1 \in U
  <2> SUFFICES ASSUME n + 1 <= Len(s) PROVE g[n + 1] = f[n + 1]
    OBVIOUS
  <2>1. Append(s, x)[n + 1] = s[n + 1]
    OBVIOUS
  <2>2. g[n] = f[n]
    BY <1>2
  <2>. QED BY <1>0, <2>1, <2>2 DEF Body
<1>. QED
  <2>. HIDE DEF U
  <2>1. Nat \subseteq U
    BY <1>1, <1>2, NatInduct
  <2>2. Len(s) \in U
    BY <2>1
  <2>. QED BY <2>2 DEF U

LEMMA KeptAppend ==
    ASSUME NEW X, NEW s \in Seq(X), NEW x \in X, NEW S
    PROVE  Kept(Append(s, x), S)
             = IF x \in S THEN Append(Kept(s, S), x) ELSE Kept(s, S)
<1>1. PICK f : IsUpto(s, S, f, Len(s)) /\ Kept(s, S) = f[Len(s)]
  BY KeptIs
<1>2. Append(s, x) \in Seq(X) /\ Len(Append(s, x)) = Len(s) + 1
      /\ Append(s, x)[Len(s) + 1] = x
  OBVIOUS
<1>3. PICK g : IsUpto(Append(s, x), S, g, Len(s) + 1) /\ Kept(Append(s, x), S) = g[Len(s) + 1]
  BY <1>2, KeptIs
<1>4. g[Len(s)] = f[Len(s)]
  BY <1>1, <1>3, UptoAgrees
<1>5. g[Len(s) + 1] = Body(Append(s, x), S, g, Len(s) + 1)
  BY <1>3 DEF IsUpto
<1>. QED BY <1>1, <1>2, <1>3, <1>4, <1>5 DEF Body

\* What is copied: wanted elements of the array, and every one of them.
LEMMA KeptMembers ==
    ASSUME NEW X, NEW s \in Seq(X), NEW S
    PROVE  /\ Kept(s, S) \in Seq(X)
           /\ \A k \in 1..Len(Kept(s, S)) :
                 Kept(s, S)[k] \in S /\ \E i \in 1..Len(s) : s[i] = Kept(s, S)[k]
           /\ \A i \in 1..Len(s) : s[i] \in S => \E k \in 1..Len(Kept(s, S)) : Kept(s, S)[k] = s[i]
<1> DEFINE U == {u \in Seq(X) :
        /\ Kept(u, S) \in Seq(X)
        /\ \A k \in 1..Len(Kept(u, S)) :
              Kept(u, S)[k] \in S /\ \E i \in 1..Len(u) : u[i] = Kept(u, S)[k]
        /\ \A i \in 1..Len(u) : u[i] \in S => \E k \in 1..Len(Kept(u, S)) : Kept(u, S)[k] = u[i]}
<1>1. <<>> \in U
  <2>1. <<>> \in Seq(X) /\ Len(<<>>) = 0 /\ 1..0 = {}
    OBVIOUS
  <2>2. Kept(<<>>, S) = <<>>
    BY KeptEmpty
  <2>. QED BY <2>1, <2>2
<1>2. ASSUME NEW u \in Seq(X), NEW x \in X, u \in U PROVE Append(u, x) \in U
  <2> DEFINE v == Append(u, x)
             t == Kept(u, S)
             w == Kept(v, S)
  <2>1. /\ v \in Seq(X) /\ Len(v) = Len(u) + 1 /\ v[Len(u) + 1] = x
        /\ \A i \in 1..Len(u) : v[i] = u[i]
    OBVIOUS
  <2>2. t \in Seq(X) /\ Len(t) \in Nat
    BY <1>2
  <2>3. /\ \A k \in 1..Len(t) : t[k] \in S /\ \E i \in 1..Len(u) : u[i] = t[k]
        /\ \A i \in 1..Len(u) : u[i] \in S => \E k \in 1..Len(t) : t[k] = u[i]
    BY <1>2
  <2>4. w = IF x \in S THEN Append(t, x) ELSE t
    BY KeptAppend
  <2>. HIDE DEF v, t, w
  <2>5. CASE x \in S
    <3>1. /\ w \in Seq(X) /\ Len(w) = Len(t) + 1 /\ w[Len(t) + 1] = x
          /\ \A k \in 1..Len(t) : w[k] = t[k]
      BY <2>2, <2>4, <2>5
    <3>2. \A k \in 1..Len(w) : w[k] \in S /\ \E i \in 1..Len(v) : v[i] = w[k]
      <4> TAKE k \in 1..Len(w)
      <4>1. CASE k \in 1..Len(t)
        <5>1. w[k] = t[k] /\ t[k] \in S
          BY <2>3, <3>1, <4>1
        <5>2. PICK i \in 1..Len(u) : u[i] = t[k]
          BY <2>3, <4>1
        <5>3. i \in 1..Len(v) /\ v[i] = u[i]
          BY <2>1
        <5>. QED BY <5>1, <5>2, <5>3
      <4>2. CASE k = Len(t) + 1
        <5>1. Len(u) + 1 \in 1..Len(v)
          BY <2>1
        <5>. QED BY <2>1, <2>5, <3>1, <4>2, <5>1
      <4>. QED BY <2>2, <3>1, <4>1, <4>2
    <3>3. \A i \in 1..Len(v) : v[i] \in S => \E k \in 1..Len(w) : w[k] = v[i]
      <4> SUFFICES ASSUME NEW i \in 1..Len(v), v[i] \in S
                   PROVE  \E k \in 1..Len(w) : w[k] = v[i]
        OBVIOUS
      <4>1. CASE i \in 1..Len(u)
        <5>1. PICK k \in 1..Len(t) : t[k] = u[i]
          BY <2>1, <2>3, <4>1
        <5>2. k \in 1..Len(w) /\ w[k] = t[k]
          BY <2>2, <3>1
        <5>. QED BY <2>1, <4>1, <5>1, <5>2
      <4>2. CASE i = Len(u) + 1
        <5>1. Len(t) + 1 \in 1..Len(w)
          BY <2>2, <3>1
        <5>. QED BY <2>1, <3>1, <4>2, <5>1
      <4>. QED BY <2>1, <4>1, <4>2
    <3>. QED BY <2>1, <3>1, <3>2, <3>3 DEF v, w
  <2>6. CASE x \notin S
    <3>1. \A k \in 1..Len(t) : t[k] \in S /\ \E i \in 1..Len(v) : v[i] = t[k]
      BY <2>1, <2>2, <2>3
    <3>2. \A i \in 1..Len(v) : v[i] \in S => \E k \in 1..Len(t) : t[k] = v[i]
      BY <2>1, <2>3, <2>6, SMTT(60)
    <3>. QED BY <2>1, <2>2, <2>4, <2>6, <3>1, <3>2 DEF v, w
  <2>. QED BY <2>5, <2>6
<1>. QED
  <2>. HIDE DEF U
  <2>1. Seq(X) \subseteq U
    BY <1>1, <1>2, SeqInduct
  <2>. QED BY <2>1 DEF U
-----------------------------------------------------------------------------
\* FirstOf: a set of positions of Volumes[] has a first one, so that a record
\* resolves to at most one volume, which is attached.
LEMMA FirstIsAttached ==
    ASSUME vols \in Seq(Volumes), NEW S \in SUBSET DOMAIN vols, S # {}
    PROVE  \E i \in S : FirstOf(S) = vols[i]
<1> DEFINE R == {ss \in Nat \X Nat : ss[1] < ss[2]}
<1>1. DOMAIN vols \subseteq Nat
  OBVIOUS
<1>2. PICK i \in S : \A j \in S : ~(<<j, i>> \in R)
  <2>. HIDE DEF R
  <2>1. IsWellFoundedOn(R, Nat)
    BY NatLess DEF R
  <2>. QED BY <1>1, <2>1, WFMin
<1>3. \A j \in S : i <= j
  <2>. TAKE j \in S
  <2>1. i \in Nat /\ j \in Nat
    BY <1>1
  <2>2. ~(j < i)
    BY <1>2, <2>1
  <2>. QED BY <2>1, <2>2
<1>. QED BY <1>3 DEF FirstOf

LEMMA ResolvedIsAttached ==
    ASSUME vols \in Seq(Volumes), NEW r, NEW v \in ResolveVolume(r)
    PROVE  /\ ResolveVolume(r) = {v}
           /\ \E i \in DOMAIN vols : vols[i] = v
<1>1. SamePart(r) \subseteq DOMAIN vols /\ SameUuid(r) \subseteq DOMAIN vols
  BY DEF SamePart, SameUuid
<1>2. CASE SamePart(r) \cap SameUuid(r) # {}
  BY <1>1, <1>2, FirstIsAttached DEF ResolveVolume
<1>3. CASE SamePart(r) \cap SameUuid(r) = {} /\ SamePart(r) # {}
  BY <1>1, <1>3, FirstIsAttached DEF ResolveVolume
<1>4. CASE SamePart(r) = {} /\ SameUuid(r) # {}
  BY <1>1, <1>4, FirstIsAttached DEF ResolveVolume
<1>5. CASE SamePart(r) = {} /\ SameUuid(r) = {}
  BY <1>5 DEF ResolveVolume
<1>. QED BY <1>2, <1>3, <1>4, <1>5

\* What a menu served from the cache is made of.
LEMMA HitIsFresh ==
    ASSUME vols \in Seq(Volumes), CacheHit, NEW e \in Rebuilt
    PROVE  \E i \in DOMAIN cache.body :
              /\ e.path = cache.body[i].path /\ e.title = cache.body[i].title
              /\ e.stamp = cache.body[i].stamp
              /\ e.vol \notin banned
              /\ \E j \in DOMAIN vols : vols[j] = e.vol
              /\ files[e.vol][e.path] # 0
              /\ e.stamp # 0 => files[e.vol][e.path] = e.stamp
<1>0. PICK i \in DOMAIN cache.body : e \in Rebuild(cache.body[i])
  BY DEF Rebuilt
<1>1. PICK v \in ResolveVolume(cache.body[i]) :
         /\ VolumeScanAllowed(v)
         /\ e = [path |-> cache.body[i].path, title |-> cache.body[i].title,
                 vol |-> v, stamp |-> cache.body[i].stamp]
  BY <1>0 DEF Rebuild
<1>2. /\ e.path = cache.body[i].path /\ e.title = cache.body[i].title
      /\ e.vol = v /\ e.stamp = cache.body[i].stamp
  BY <1>1
<1>3. ResolveVolume(cache.body[i]) = {v} /\ \E j \in DOMAIN vols : vols[j] = v
  BY <1>1, ResolvedIsAttached
<1>4. Fresh(cache.body[i])
  BY DEF CacheHit
<1>5. files[v][cache.body[i].path] # 0 /\ RecordContentUnchanged(cache.body[i], v)
  BY <1>3, <1>4 DEF Fresh
<1>. QED BY <1>1, <1>2, <1>3, <1>5 DEF RecordContentUnchanged, VolumeScanAllowed

\* A save that goes through seals its records in the file, one cut short
\* leaves a file whose checksums do not hold, a refused one the old file.
LEMMA SaveSeals ==
    ASSUME Session, Sealed, MenuCacheAssumption, NEW new, NEW vs,
           SaveWhole(new, vs) \/ SaveTorn(new, vs) \/ SaveRefused
    PROVE  Sealed' /\ faults' \in Nat
<1>1. CASE SaveWhole(new, vs)
  <2>1. cache' = FileOf(new, vs, Overwrite(new), TRUE) /\ stored' = new /\ faults' = faults
    BY <1>1 DEF SaveWhole
  <2>. QED BY <2>1 DEF FileOf, Sealed, Session
<1>2. CASE SaveTorn(new, vs)
  <2>1. faults' = faults + 1
    BY <1>2 DEF SaveTorn
  <2>2. CASE cache' = FileOf(new, vs, OldBody, FALSE)
    BY <2>1, <2>2 DEF FileOf, Sealed, Session
  <2>3. CASE \E k \in 0 .. Len(new) - 1 :
               Cut(new, k) # new /\ cache' = FileOf(new, vs, Cut(new, k), TRUE)
    BY <2>1, <2>3 DEF FileOf, Sealed, Session
  <2>. QED BY <1>2, <2>2, <2>3 DEF SaveTorn
<1>3. CASE SaveRefused
  BY <1>3 DEF SaveRefused, Sealed, Session
<1>. QED BY <1>1, <1>2, <1>3

LEMMA StoreSeals ==
    ASSUME Session, Sealed, MenuCacheAssumption, NEW vs, CacheStoreMenu(vs)
    PROVE  Sealed' /\ faults' \in Nat
<1>1. PICK stamped \in BOOLEAN :
         LET new == RecordsOf(ScanForBootloaders(vs), stamped)
         IN  IF new = <<>> THEN quiet' = FALSE /\ UNCHANGED <<cache, stored, faults>>
             ELSE SaveWhole(new, vs) \/ SaveTorn(new, vs) \/ SaveRefused
  BY DEF CacheStoreMenu
<1> DEFINE new == RecordsOf(ScanForBootloaders(vs), stamped)
<1>2. CASE new = <<>>
  BY <1>1, <1>2 DEF Sealed, Session
<1>3. CASE new # <<>>
  BY <1>1, <1>3, SaveSeals
<1>. QED BY <1>2, <1>3

LEMMA InvalidateSeals ==
    ASSUME Session, Sealed, CacheInvalidate
    PROVE  /\ Sealed' /\ faults' \in Nat
           /\ faults' = 0 => cache' = NoFile /\ faults' = faults
           /\ faults' = faults => cache' = NoFile
BY DEF CacheInvalidate, SaveRefused, Sealed, Session

LEMMA InitInv == ASSUME MenuCacheAssumption, Init PROVE IInv
BY DEF MenuCacheAssumption, Init, IInv, Session, Sealed, Forgotten, ServedIsLive,
   ServedWasStored, OtherBuildsCacheIsGone

\* A change to the machine happens while there is no menu.
LEMMA ChangeKeeps ==
    ASSUME IInv, Change, vols' \in Seq(Volumes)
    PROVE  IInv'
<1>1. /\ cache' = cache /\ phase' = phase /\ menu' = menu /\ source' = source
      /\ stored' = stored /\ forgot' = forgot /\ faults' = faults
      /\ phase = "off" /\ source = "none"
  BY DEF Change, session, IInv, Session
<1>2. Session' /\ Sealed' /\ Forgotten'
  BY <1>1 DEF IInv, Session, Sealed, Forgotten
<1>3. ServedIsLive' /\ ServedWasStored' /\ OtherBuildsCacheIsGone'
  BY <1>1 DEF ServedIsLive, ServedWasStored, OtherBuildsCacheIsGone
<1>. QED BY <1>2, <1>3 DEF IInv

LEMMA StepInv ==
    ASSUME MenuCacheAssumption, IInv, [Next]_vars
    PROVE  IInv'
<1>. USE DEF IInv
<1>1. CASE PowerOn
  <2>1. Session' /\ Sealed' /\ Forgotten'
    BY <1>1 DEF PowerOn, machine, Session, Sealed, Forgotten
  <2>2. phase' # "scan" \/ ~enabled'
    BY <1>1 DEF PowerOn, machine
  <2>3. source' = "none"
    BY <1>1 DEF PowerOn, Session
  <2>. QED BY <2>1, <2>2, <2>3 DEF ServedIsLive, ServedWasStored, OtherBuildsCacheIsGone
<1>2. CASE LoadHit
  <2>1. /\ UNCHANGED <<vols, files, oc, build, enabled, banned, cache, stored, forgot, faults>>
        /\ phase' = "menu" /\ source' = "hit" /\ menu' = Rebuilt /\ CacheHit
    BY <1>2 DEF LoadHit, machine
  <2>2. Session' /\ Sealed'
    BY <2>1 DEF Session, Sealed
  <2>3. cache # NoFile /\ cache.sound /\ cache.build = build /\ cache.body = cache.sum
    BY <2>1 DEF CacheHit, ParseBuffer
  <2>4. Forgotten'
    BY <2>1, <2>3 DEF Forgotten
  <2>5. ServedIsLive'
    BY <2>1, HitIsFresh DEF ServedIsLive, Session
  <2>6. cache.body = stored
    BY <2>3 DEF Sealed
  <2>7. ServedWasStored'
    BY <2>1, <2>6, HitIsFresh DEF ServedWasStored, Session
  <2>8. OtherBuildsCacheIsGone'
    BY <2>1, <2>3 DEF OtherBuildsCacheIsGone
  <2>. QED BY <2>2, <2>4, <2>5, <2>7, <2>8
<1>3. CASE LoadMiss
  <2>1. /\ UNCHANGED <<vols, oc, build, enabled, forgot, source>>
        /\ phase = "load" /\ phase' = "scan" /\ source = "none"
    BY <1>3 DEF LoadMiss, machine, Session
  <2>2. CASE Stale
    <3>1. CacheInvalidate
      BY <1>3, <2>2 DEF LoadMiss
    <3>2. Sealed' /\ faults' \in Nat /\ (cache' = NoFile \/ faults' # 0)
      BY <3>1, InvalidateSeals
    <3>3. cache' = NoFile \/ cache' = cache
      BY <3>1 DEF CacheInvalidate, SaveRefused
    <3>. QED BY <2>1, <3>2, <3>3 DEF Session, Forgotten, ServedIsLive, ServedWasStored,
             OtherBuildsCacheIsGone
  <2>3. CASE ~Stale
    <3>1. UNCHANGED <<cache, stored, faults>>
      BY <1>3, <2>3 DEF LoadMiss
    <3>2. Session' /\ Sealed' /\ Forgotten' /\ ServedIsLive' /\ ServedWasStored'
      BY <2>1, <3>1 DEF Session, Sealed, Forgotten, ServedIsLive, ServedWasStored
    <3>3. (cache # NoFile /\ faults = 0 /\ Fingerprint(vols, oc) # <<>>) => cache.build = build
      BY <2>3 DEF Stale, ParseBuffer, Sealed
    <3>4. Fingerprint(vols, oc)' = Fingerprint(vols, oc)
      <4>1. table' = table
        BY <1>3 DEF LoadMiss, machine
      <4>. QED BY <2>1, <4>1 DEF Fingerprint
    <3>. QED BY <2>1, <3>1, <3>2, <3>3, <3>4 DEF OtherBuildsCacheIsGone
  <2>. QED BY <2>2, <2>3
<1>4. CASE LoadUnreadable
  <2>1. /\ UNCHANGED <<vols, cache, stored, forgot, source>> /\ faults' = faults + 1
        /\ phase' = "scan" /\ source = "none"
    BY <1>4 DEF LoadUnreadable, machine, Session
  <2>2. Session' /\ Sealed' /\ Forgotten'
    BY <2>1 DEF Session, Sealed, Forgotten
  <2>3. faults' # 0
    BY <2>1 DEF Session
  <2>. QED BY <2>1, <2>2, <2>3 DEF ServedIsLive, ServedWasStored, OtherBuildsCacheIsGone
<1>5. CASE ScanAtBoot
  <2>1. /\ UNCHANGED <<vols, enabled>> /\ phase' = "menu" /\ source' = "scan"
        /\ forgot' = (~enabled /\ faults' = faults)
    BY <1>5 DEF ScanAtBoot, machine
  <2>2. Sealed' /\ faults' \in Nat /\ (~enabled => (faults' = faults => cache' = NoFile))
    <3>1. CASE enabled
      BY <1>5, <3>1, StoreSeals DEF ScanAtBoot
    <3>2. CASE ~enabled
      BY <1>5, <3>2, InvalidateSeals DEF ScanAtBoot
    <3>. QED BY <3>1, <3>2
  <2>3. Forgotten'
    BY <2>1, <2>2, Zenon DEF Forgotten
  <2>4. Session'
    BY <2>1, <2>2 DEF Session
  <2>. QED BY <2>1, <2>2, <2>3, <2>4 DEF ServedIsLive, ServedWasStored, OtherBuildsCacheIsGone
<1>6. ASSUME NEW vs, Rescan(vs), vols' \in Seq(Volumes) PROVE IInv'
  <2>1. /\ UNCHANGED <<enabled, phase, forgot>> /\ phase = "menu" /\ source' = "scan"
    BY <1>6 DEF Rescan
  <2>2. Sealed' /\ faults' \in Nat /\ (~enabled => cache' = cache)
    <3>1. CASE enabled
      BY <1>6, <3>1, StoreSeals DEF Rescan
    <3>2. CASE ~enabled
      BY <1>6, <3>2 DEF Rescan, Sealed, Session
    <3>. QED BY <3>1, <3>2
  <2>3. Session' /\ Forgotten'
    BY <1>6, <2>1, <2>2 DEF Session, Forgotten
  <2>. QED BY <2>1, <2>2, <2>3 DEF ServedIsLive, ServedWasStored, OtherBuildsCacheIsGone
<1>7. CASE ScanAll
  BY <1>6, <1>7 DEF ScanAll, Session
<1>8. CASE RescanAll
  <2>1. PICK vs \in Orders \ {vols} : vols' = vs /\ Rescan(vs)
    BY <1>8 DEF RescanAll
  <2>. QED BY <1>6, <2>1 DEF MenuCacheAssumption
<1>9. CASE PowerOff
  BY <1>9 DEF PowerOff, machine, Session, Sealed, Forgotten, ServedIsLive, ServedWasStored,
     OtherBuildsCacheIsGone
<1>10. CASE Attach
  BY <1>10, ChangeKeeps DEF Attach, MenuCacheAssumption
<1>11. CASE ChangeLauncher
  BY <1>11, ChangeKeeps DEF ChangeLauncher, Session
<1>12. CASE ChangeBuild
  BY <1>12, ChangeKeeps DEF ChangeBuild, Session
<1>13. CASE EditConfig
  BY <1>13, ChangeKeeps DEF EditConfig, Session
<1>14. ASSUME NEW v \in Volumes, Repartition(v) \/ Reformat(v) \/ \E p \in Paths : PutFile(v, p)
       PROVE  IInv'
  BY <1>14, ChangeKeeps DEF Repartition, Reformat, PutFile, Session
<1>15. CASE UNCHANGED vars
  <2>1. Session' /\ Sealed' /\ Forgotten' /\ ServedIsLive' /\ ServedWasStored'
    BY <1>15 DEF vars, Session, Sealed, Forgotten, ServedIsLive, ServedWasStored
  <2>2. Fingerprint(vols, oc)' = Fingerprint(vols, oc)
    BY <1>15 DEF vars, Fingerprint
  <2>3. OtherBuildsCacheIsGone'
    BY <1>15, <2>2 DEF vars, OtherBuildsCacheIsGone
  <2>. QED BY <2>1, <2>3
<1>. QED BY <1>1, <1>2, <1>3, <1>4, <1>5, <1>7, <1>8, <1>9, <1>10, <1>11, <1>12, <1>13,
         <1>14, <1>15 DEF Next

THEOREM Invariance == Spec => []IInv
BY InitInv, StepInv, MenuCacheAssumption, PTL DEF Spec

\* The menu a launch takes from menu.cache names only loaders that are there
\* to be started, whatever happened to disks, loaders, configuration and
\* menu.cache since it was stored, and is no mixture of two menus, wherever a
\* save is cut short.
THEOREM ServedMenusAreTrue == Spec => []ServedIsTrue
<1>1. IInv => ServedIsTrue
  BY DEF IInv, ServedIsTrue
<1>. QED BY <1>1, Invariance, PTL

\* A launch leaves no other build's cache behind.
THEOREM NoOtherBuildsCache == Spec => []OtherBuildsCacheIsGone
<1>1. IInv => OtherBuildsCacheIsGone
  BY DEF IInv
<1>. QED BY <1>1, Invariance, PTL

\* Turning the cache off for one launch forgets what was stored.
THEOREM OffForgets == Spec => DisablingForgets
<1>1. IInv /\ [Next]_vars => [phase = "load" /\ source' = "hit" => ~forgot]_vars
  <2>. SUFFICES ASSUME IInv, Next, phase = "load", source' = "hit"
                PROVE  ~forgot
    BY DEF vars
  <2>1. LoadHit
    BY DEF IInv, Session, Next, PowerOn, LoadMiss, LoadUnreadable, ScanAtBoot, ScanAll,
       RescanAll, Rescan, PowerOff, Attach, ChangeLauncher, ChangeBuild, EditConfig,
       Repartition, Reformat, PutFile, Change
  <2>2. cache # NoFile
    BY <2>1 DEF LoadHit, CacheHit
  <2>. QED BY <2>2 DEF IInv, Forgotten
<1>. QED BY <1>1, Invariance, PTL DEF Spec, DisablingForgets

\* Nothing that was invalidated is served or left for another build.
THEOREM InvalidatedMenusAreGone == Spec => InvalidatedIsGone
BY NoOtherBuildsCache, OffForgets, PTL DEF InvalidatedIsGone
-----------------------------------------------------------------------------
\* The place of an element of Places in the loops of the scan.
LEMMA DivWithin ==
    ASSUME NEW a \in Nat, NEW b \in Nat \ {0}, NEW i \in 1..(a * b)
    PROVE  /\ ((i - 1) \div b) + 1 \in 1..a
           /\ ((i - 1) % b) + 1 \in 1..b
<1> DEFINE q == (i - 1) \div b
           r == (i - 1) % b
<1>1. i \in Nat /\ i >= 1 /\ i <= a * b /\ a * b \in Nat
  OBVIOUS
<1>2. q \in Nat /\ r \in 0..(b - 1) /\ i - 1 = b * q + r
  BY <1>1
<1>. HIDE DEF q, r
<1>3. q < a
  <2> SUFFICES ASSUME q >= a PROVE FALSE
    BY <1>2
  <2>1. b * q >= b * a
    <3>1. PICK d \in Nat : q = a + d
      <4>1. q - a \in Nat /\ q = a + (q - a)
        BY <1>2
      <4>. QED BY <4>1
    <3>2. b * q = b * a + b * d /\ b * d \in Nat /\ b * a \in Nat
      BY <3>1
    <3>. QED BY <3>2
  <2>. QED BY <1>1, <1>2, <2>1
<1>. QED BY <1>2, <1>3 DEF q, r

\* What the scan looks at: paths, on volumes of Volumes[].
LEMMA PlacesAreOf ==
    ASSUME MenuCacheAssumption, NEW vs \in Seq(Volumes)
    PROVE  /\ Places(vs) \in Seq(Volumes \X Paths)
           /\ \A i \in 1..Len(Places(vs)) : \E j \in 1..Len(vs) : Places(vs)[i][1] = vs[j]
<1> DEFINE b == Len(PathOrder)
           n == Len(vs) * b
           P(i) == <<vs[((i - 1) \div b) + 1], PathOrder[((i - 1) % b) + 1]>>
<1>1. Len(vs) \in Nat /\ b \in Nat \ {0} /\ n \in Nat
  BY DEF MenuCacheAssumption
<1>2. ASSUME NEW i \in 1..n
      PROVE  /\ ((i - 1) \div b) + 1 \in 1..Len(vs)
             /\ ((i - 1) % b) + 1 \in DOMAIN PathOrder
  <2>1. DOMAIN PathOrder = 1..b
    BY DEF MenuCacheAssumption
  <2>. HIDE DEF b
  <2>. QED BY <1>1, <2>1, DivWithin
<1>3. ASSUME NEW i \in 1..n
      PROVE  P(i) \in Volumes \X Paths /\ P(i)[1] = vs[((i - 1) \div b) + 1]
  BY <1>2 DEF Paths
<1>4. Places(vs) = [i \in 1..n |-> P(i)]
  BY DEF Places
<1>. HIDE DEF P, n
<1>5. Places(vs) \in Seq(Volumes \X Paths) /\ Len(Places(vs)) = n
  BY <1>1, <1>3, <1>4
<1>6. ASSUME NEW i \in 1..Len(Places(vs))
      PROVE  \E j \in 1..Len(vs) : Places(vs)[i][1] = vs[j]
  <2>1. i \in 1..n /\ Places(vs)[i] = P(i)
    BY <1>4, <1>5
  <2>2. P(i)[1] = vs[((i - 1) \div b) + 1] /\ ((i - 1) \div b) + 1 \in 1..Len(vs)
    BY <1>2, <1>3, <2>1
  <2>. QED BY <2>1, <2>2
<1>. QED BY <1>5, <1>6

\* What it finds: loaders it may offer, on volumes of Volumes[].
LEMMA FoundIsOffered ==
    ASSUME MenuCacheAssumption, NEW vs \in Seq(Volumes)
    PROVE  LET found == ScanForBootloaders(vs)
           IN  /\ found \in Seq(Volumes \X Paths)
               /\ \A k \in 1..Len(found) :
                     /\ found[k][1] \in Volumes /\ found[k][2] \in Paths
                     /\ Offered(found[k][1], found[k][2])
                     /\ \E j \in 1..Len(vs) : vs[j] = found[k][1]
<1> DEFINE S == {x \in Volumes \X Paths : Offered(x[1], x[2])}
           X == Volumes \X Paths
           ps == Places(vs)
           found == Kept(ps, S)
<1>1. ScanForBootloaders(vs) = found
  BY DEF ScanForBootloaders
<1>2. ps \in Seq(X) /\ \A i \in 1..Len(ps) : \E j \in 1..Len(vs) : ps[i][1] = vs[j]
  BY PlacesAreOf
<1>3. /\ found \in Seq(X)
      /\ \A k \in 1..Len(found) : found[k] \in S /\ \E i \in 1..Len(ps) : ps[i] = found[k]
  <2>. HIDE DEF X, S, ps
  <2>. QED BY <1>2, KeptMembers
<1>. HIDE DEF found, ps
<1>4. ASSUME NEW k \in 1..Len(found)
      PROVE  /\ found[k][1] \in Volumes /\ found[k][2] \in Paths
             /\ Offered(found[k][1], found[k][2])
             /\ \E j \in 1..Len(vs) : vs[j] = found[k][1]
  <2>1. found[k] \in S
    BY <1>3
  <2>2. PICK j \in 1..Len(vs) : found[k][1] = vs[j]
    BY <1>2, <1>3
  <2>. QED BY <2>1, <2>2
<1>. QED BY <1>1, <1>3, <1>4
-----------------------------------------------------------------------------
\* Types: of the machine, of what is shown, and of menu.cache.
MachineTyped ==
    /\ vols \in Seq(Volumes)
    /\ table \in [Volumes -> Gens] /\ uuid \in [Volumes -> Gens]
    /\ files \in [Volumes -> [Paths -> Stamps]]
    /\ oc \in BOOLEAN /\ build \in Builds /\ enabled \in BOOLEAN /\ banned \subseteq Volumes
    /\ changes \in 0..MaxChanges

ShownTyped ==
    /\ phase \in {"off", "load", "scan", "menu"}
    /\ menu \subseteq Entries
    /\ source \in {"none", "hit", "scan"}
    /\ forgot \in BOOLEAN

CacheTyped ==
    /\ cache \in Files \cup {NoFile}
    /\ stored \in Seq(Records)
    /\ quiet \in BOOLEAN
    /\ faults \in 0..MaxFaults

Typed == MachineTyped /\ ShownTyped /\ CacheTyped

LEMMA TypedIsTypeOK == Typed <=> TypeOK
BY DEF Typed, MachineTyped, ShownTyped, CacheTyped, TypeOK

LEMMA IdentitiesTyped ==
    ASSUME MenuCacheAssumption, MachineTyped, NEW v \in Volumes
    PROVE  PartGuid(v) \in Guids \cup {NoGuid, MbrGuid} /\ VolUuid(v) \in Guids
<1>1. <<v, table[v]>> \in Guids /\ <<v, uuid[v]>> \in Guids
  BY DEF MachineTyped, Guids
<1>2. Kind[v] \in {"gpt", "mbr", "raw"}
  BY DEF MenuCacheAssumption
<1>. QED BY <1>1, <1>2 DEF PartGuid, VolUuid

\* What a scan shows and what it would store.
LEMMA ScanTyped ==
    ASSUME MenuCacheAssumption, MachineTyped, NEW vs \in Seq(Volumes), NEW stamped \in BOOLEAN
    PROVE  /\ MenuOf(ScanForBootloaders(vs)) \subseteq Entries
           /\ RecordsOf(ScanForBootloaders(vs), stamped) \in Seq(Records)
           /\ Len(RecordsOf(ScanForBootloaders(vs), stamped)) = Len(ScanForBootloaders(vs))
<1> DEFINE found == ScanForBootloaders(vs)
           R(i) == [path |-> found[i][2], title |-> found[i][1],
                    part |-> PartGuid(found[i][1]), uuid |-> VolUuid(found[i][1]),
                    stamp |-> IF stamped THEN files[found[i][1]][found[i][2]] ELSE 0]
<1>1. /\ found \in Seq(Volumes \X Paths)
      /\ \A k \in 1..Len(found) : found[k][1] \in Volumes /\ found[k][2] \in Paths
  BY FoundIsOffered
<1>. HIDE DEF found
<1>2. DOMAIN found = 1..Len(found) /\ Len(found) \in Nat
  BY <1>1
<1>3. ASSUME NEW k \in 1..Len(found)
      PROVE  files[found[k][1]][found[k][2]] \in Stamps /\ 0 \in Stamps
  <2>1. \A v \in Volumes, q \in Paths : files[v][q] \in Stamps
    BY DEF MachineTyped
  <2>2. 0 \in Stamps
    BY DEF Stamps, MenuCacheAssumption
  <2>. QED BY <1>1, <2>1, <2>2
<1>4. MenuOf(found) \subseteq Entries
  BY <1>1, <1>2, <1>3 DEF MenuOf, Entries
<1>5. ASSUME NEW k \in 1..Len(found)
      PROVE  R(k) \in Records
  BY <1>1, <1>3, IdentitiesTyped DEF Records
<1>6. RecordsOf(found, stamped) = [k \in 1..Len(found) |-> R(k)]
  BY <1>2 DEF RecordsOf
<1>. HIDE DEF R
<1>. QED BY <1>2, <1>4, <1>5, <1>6 DEF found

LEMMA BodiesTyped ==
    ASSUME CacheTyped, NEW new \in Seq(Records)
    PROVE  /\ OldBody \in Seq(Records)
           /\ Overwrite(new) \in Seq(Records)
           /\ \A k \in 0..(Len(new) - 1) : Cut(new, k) \in Seq(Records)
<1>1. OldBody \in Seq(Records)
  BY DEF OldBody, CacheTyped, Files
<1>2. \A o \in Seq(Records) : SubSeq(o, Len(new) + 1, Len(o)) \in Seq(Records)
  OBVIOUS
<1>3. Overwrite(new) \in Seq(Records)
  BY <1>1, <1>2 DEF Overwrite
<1>4. ASSUME NEW k \in 0..(Len(new) - 1) PROVE Cut(new, k) \in Seq(Records)
  <2>1. SubSeq(new, 1, k) \in Seq(Records)
    OBVIOUS
  <2>2. SubSeq(OldBody, k + 1, Len(OldBody)) \in Seq(Records)
    BY <1>1
  <2>. QED BY <2>1, <2>2 DEF Cut
<1>. QED BY <1>1, <1>3, <1>4

LEMMA PrintTyped ==
    ASSUME MenuCacheAssumption, MachineTyped, NEW vs \in Seq(Volumes)
    PROVE  Fingerprint(vs, oc) \in Prints
<1> DEFINE gpt == GptDisks(vs)
<1>1. gpt \in Seq(Volumes)
  BY KeptMembers DEF GptDisks
<1>. HIDE DEF gpt
<1>2. \A i \in DOMAIN gpt : <<gpt[i], table[gpt[i]]>> \in Volumes \X Gens
  BY <1>1 DEF MachineTyped
<1> DEFINE f == [i \in DOMAIN gpt |-> <<gpt[i], table[gpt[i]]>>]
<1>3. f \in Seq(Volumes \X Gens)
  <2>1. DOMAIN gpt = 1..Len(gpt) /\ Len(gpt) \in Nat
    BY <1>1
  <2> DEFINE G == Volumes \X Gens
  <2>2. f \in [1..Len(gpt) -> G]
    BY <1>2, <2>1
  <2>3. f \in Seq(G)
    <3>. HIDE DEF f, G
    <3>. QED BY <2>1, <2>2, SMTT(60)
  <2>. QED BY <2>3
<1>4. Fingerprint(vs, oc) = IF gpt = <<>> THEN <<>> ELSE <<f, oc>>
  BY DEF Fingerprint, gpt
<1>5. oc \in BOOLEAN
  BY DEF MachineTyped
<1>. HIDE DEF f
<1>6. <<f, oc>> \in Seq(Volumes \X Gens) \X BOOLEAN
  BY <1>3, <1>5
<1>. QED BY <1>4, <1>6 DEF Prints

LEMMA RefusedTyped ==
    ASSUME MenuCacheAssumption, CacheTyped, SaveRefused
    PROVE  CacheTyped'
<1>1. faults' \in 0..MaxFaults
  BY DEF SaveRefused, CacheTyped, MenuCacheAssumption
<1>2. UNCHANGED <<cache, stored>> /\ quiet' = FALSE
  BY DEF SaveRefused
<1>. QED BY <1>1, <1>2 DEF CacheTyped

\* Whatever becomes of a save, menu.cache keeps its types.
LEMMA SaveTyped ==
    ASSUME MenuCacheAssumption, MachineTyped, CacheTyped, NEW vs \in Seq(Volumes),
           NEW new \in Seq(Records), SaveWhole(new, vs) \/ SaveTorn(new, vs) \/ SaveRefused
    PROVE  CacheTyped'
<1>1. ASSUME NEW body \in Seq(Records), NEW sound \in BOOLEAN,
             cache' = FileOf(new, vs, body, sound),
             stored' \in Seq(Records), quiet' \in BOOLEAN, faults' \in 0..MaxFaults
      PROVE  CacheTyped'
  <2>1. FileOf(new, vs, body, sound) \in Files
    BY PrintTyped DEF FileOf, Files, MachineTyped
  <2>. QED BY <1>1, <2>1 DEF CacheTyped
<1>2. CASE SaveWhole(new, vs)
  BY <1>1, <1>2, BodiesTyped DEF SaveWhole, CacheTyped
<1>3. CASE SaveTorn(new, vs)
  <2>1. faults' \in 0..MaxFaults /\ stored' = <<>> /\ quiet' = FALSE
    BY <1>3 DEF SaveTorn, CacheTyped, MenuCacheAssumption
  <2>2. <<>> \in Seq(Records)
    OBVIOUS
  <2>3. CASE cache' = FileOf(new, vs, OldBody, FALSE)
    BY <1>1, <2>1, <2>2, <2>3, BodiesTyped
  <2>4. ASSUME NEW k \in 0..(Len(new) - 1), cache' = FileOf(new, vs, Cut(new, k), TRUE)
        PROVE  CacheTyped'
    BY <1>1, <2>1, <2>2, <2>4, BodiesTyped
  <2>. QED BY <1>3, <2>3, <2>4 DEF SaveTorn
<1>4. CASE SaveRefused
  BY <1>4, RefusedTyped
<1>. QED BY <1>2, <1>3, <1>4

LEMMA StoreTyped ==
    ASSUME MenuCacheAssumption, MachineTyped, CacheTyped, NEW vs \in Seq(Volumes),
           CacheStoreMenu(vs)
    PROVE  CacheTyped'
<1>1. PICK stamped \in BOOLEAN :
         LET new == RecordsOf(ScanForBootloaders(vs), stamped)
         IN  IF new = <<>> THEN quiet' = FALSE /\ UNCHANGED <<cache, stored, faults>>
             ELSE SaveWhole(new, vs) \/ SaveTorn(new, vs) \/ SaveRefused
  BY DEF CacheStoreMenu
<1> DEFINE new == RecordsOf(ScanForBootloaders(vs), stamped)
<1>2. new \in Seq(Records)
  BY ScanTyped
<1>3. CASE new = <<>>
  BY <1>1, <1>3 DEF CacheTyped
<1>4. CASE new # <<>>
  <2>1. SaveWhole(new, vs) \/ SaveTorn(new, vs) \/ SaveRefused
    BY <1>1, <1>4
  <2>. HIDE DEF new
  <2>. QED BY <1>2, <2>1, SaveTyped
<1>. QED BY <1>3, <1>4

LEMMA InvalidateTyped ==
    ASSUME MenuCacheAssumption, CacheTyped, CacheInvalidate
    PROVE  CacheTyped'
<1>1. CASE cache' = NoFile /\ stored' = <<>> /\ quiet' = FALSE /\ faults' = faults
  <2>1. <<>> \in Seq(Records)
    OBVIOUS
  <2>. QED BY <1>1, <2>1 DEF CacheTyped
<1>. QED BY <1>1, RefusedTyped DEF CacheInvalidate

\* What a launch makes of the records.
LEMMA RebuiltTyped ==
    ASSUME MachineTyped, CacheTyped, cache # NoFile
    PROVE  Rebuilt \subseteq Entries
<1> SUFFICES ASSUME NEW e \in Rebuilt PROVE e \in Entries
  OBVIOUS
<1>1. PICK i \in DOMAIN cache.body : e \in Rebuild(cache.body[i])
  BY DEF Rebuilt
<1> DEFINE r == cache.body[i]
<1>2. r \in Records
  BY DEF CacheTyped, Files
<1>3. PICK v \in ResolveVolume(r) :
         e = [path |-> r.path, title |-> r.title, vol |-> v, stamp |-> r.stamp]
  BY <1>1 DEF Rebuild
<1>4. v \in Volumes
  BY ResolvedIsAttached DEF MachineTyped
<1>. QED BY <1>2, <1>3, <1>4 DEF Records, Entries

\* A change of the machine leaves the rest alone.
LEMMA ChangeTyped ==
    ASSUME Typed, Change
    PROVE  ShownTyped' /\ CacheTyped' /\ changes' \in 0..MaxChanges
<1>1. /\ UNCHANGED <<cache, phase, menu, source, stored, forgot, faults>>
      /\ quiet' = FALSE /\ changes' = changes + 1 /\ changes < MaxChanges
  BY DEF Change, session
<1>2. changes' \in 0..MaxChanges
  BY <1>1, MenuCacheAssumption DEF Typed, MachineTyped, MenuCacheAssumption
<1>3. ShownTyped'
  BY <1>1 DEF Typed, ShownTyped
<1>. QED BY <1>1, <1>2, <1>3 DEF Typed, CacheTyped

LEMMA TypedInit == MenuCacheAssumption /\ Init => Typed
<1> SUFFICES ASSUME MenuCacheAssumption, Init PROVE Typed
  OBVIOUS
<1>1. 0 \in Gens /\ 0 \in 0..MaxChanges /\ 0 \in 0..MaxFaults /\ <<>> \in Seq(Records)
  BY DEF Gens, MenuCacheAssumption
<1>2. vols \in Seq(Volumes)
  BY DEF Init, MenuCacheAssumption
<1>3. MachineTyped
  BY <1>1, <1>2 DEF Init, MachineTyped, MenuCacheAssumption
<1>4. ShownTyped
  BY DEF Init, ShownTyped
<1>. QED BY <1>1, <1>3, <1>4 DEF Init, Typed, CacheTyped

LEMMA TypedStep ==
    ASSUME MenuCacheAssumption, Typed, [Next]_vars
    PROVE  Typed'
<1>. USE DEF Typed
<1>1. CASE PowerOn
  <2>1. UNCHANGED <<machine, cache, menu, source, stored, quiet, forgot, changes, faults>>
        /\ phase' \in {"load", "scan"}
    BY <1>1 DEF PowerOn
  <2>2. MachineTyped' /\ CacheTyped'
    BY <2>1 DEF MachineTyped, CacheTyped, machine
  <2>. QED BY <2>1, <2>2 DEF ShownTyped
<1>2. CASE LoadHit
  <2>1. /\ UNCHANGED <<machine, cache, stored, quiet, forgot, changes, faults>>
        /\ phase' = "menu" /\ source' = "hit" /\ menu' = Rebuilt /\ cache # NoFile
    BY <1>2 DEF LoadHit, CacheHit
  <2>2. MachineTyped' /\ CacheTyped'
    BY <2>1 DEF MachineTyped, CacheTyped, machine
  <2>. QED BY <2>1, <2>2, RebuiltTyped DEF ShownTyped
<1>3. CASE LoadMiss
  <2>1. UNCHANGED <<machine, menu, source, forgot, changes>> /\ phase' = "scan"
    BY <1>3 DEF LoadMiss
  <2>2. CacheTyped'
    <3>1. CASE Stale
      BY <1>3, <3>1, InvalidateTyped DEF LoadMiss
    <3>2. CASE ~Stale
      BY <1>3, <3>2 DEF LoadMiss, CacheTyped
    <3>. QED BY <3>1, <3>2
  <2>3. MachineTyped'
    BY <2>1 DEF MachineTyped, machine
  <2>. QED BY <2>1, <2>2, <2>3 DEF ShownTyped
<1>4. CASE LoadUnreadable
  <2>1. UNCHANGED <<machine, cache, menu, source, stored, quiet, forgot, changes>>
        /\ phase' = "scan"
    BY <1>4 DEF LoadUnreadable
  <2>2. faults' \in 0..MaxFaults
    BY <1>4 DEF LoadUnreadable, CacheTyped, MenuCacheAssumption
  <2>3. MachineTyped' /\ CacheTyped'
    BY <2>1, <2>2 DEF MachineTyped, CacheTyped, machine
  <2>. QED BY <2>1, <2>3 DEF ShownTyped
<1>5. CASE ScanAtBoot
  <2>1. /\ UNCHANGED <<machine, changes>> /\ phase' = "menu" /\ source' = "scan"
        /\ menu' = MenuOf(ScanForBootloaders(vols)) /\ forgot' \in BOOLEAN
    BY <1>5 DEF ScanAtBoot
  <2>2. CacheTyped'
    <3>1. vols \in Seq(Volumes)
      BY DEF MachineTyped
    <3>2. CASE enabled
      BY <1>5, <3>1, <3>2, StoreTyped DEF ScanAtBoot
    <3>3. CASE ~enabled
      BY <1>5, <3>3, InvalidateTyped DEF ScanAtBoot
    <3>. QED BY <3>2, <3>3
  <2>3. MachineTyped'
    BY <2>1 DEF MachineTyped, machine
  <2>4. menu' \subseteq Entries
    BY <2>1, ScanTyped DEF MachineTyped
  <2>. QED BY <2>1, <2>2, <2>3, <2>4 DEF ShownTyped
<1>6. ASSUME NEW vs \in Seq(Volumes), Rescan(vs), vols' \in Seq(Volumes),
             changes' \in 0..MaxChanges
      PROVE  Typed'
  <2>1. /\ UNCHANGED <<table, uuid, files, oc, build, enabled, banned, phase, forgot>>
        /\ source' = "scan" /\ menu' = MenuOf(ScanForBootloaders(vs))
    BY <1>6 DEF Rescan
  <2>2. CacheTyped'
    <3>1. CASE enabled
      BY <1>6, <3>1, StoreTyped DEF Rescan
    <3>2. CASE ~enabled
      <4>1. UNCHANGED <<cache, stored, faults>> /\ quiet' \in BOOLEAN
        BY <1>6, <3>2 DEF Rescan
      <4>. QED BY <4>1 DEF CacheTyped
    <3>. QED BY <3>1, <3>2
  <2>3. menu' \subseteq Entries
    BY <2>1, ScanTyped
  <2>4. MachineTyped'
    BY <1>6, <2>1 DEF MachineTyped
  <2>. QED BY <2>1, <2>2, <2>3, <2>4 DEF ShownTyped
<1>7. CASE ScanAll
  BY <1>6, <1>7 DEF ScanAll, MachineTyped
<1>8. CASE RescanAll
  <2>1. PICK vs \in Orders \ {vols} : vols' = vs /\ Rescan(vs)
    BY <1>8 DEF RescanAll
  <2>2. changes' \in 0..MaxChanges
    BY <1>8 DEF RescanAll, MachineTyped, MenuCacheAssumption
  <2>. QED BY <1>6, <2>1, <2>2 DEF MenuCacheAssumption
<1>9. CASE PowerOff
  <2>1. UNCHANGED <<machine, cache, stored, quiet, forgot, changes, faults>>
        /\ phase' = "off" /\ menu' = {} /\ source' = "none"
    BY <1>9 DEF PowerOff
  <2>2. MachineTyped' /\ CacheTyped'
    BY <2>1 DEF MachineTyped, CacheTyped, machine
  <2>. QED BY <2>1, <2>2 DEF ShownTyped
<1>10. CASE Attach
  <2>1. Change /\ vols' \in Seq(Volumes)
        /\ UNCHANGED <<table, uuid, files, oc, build, enabled, banned>>
    BY <1>10 DEF Attach, MenuCacheAssumption
  <2>. QED BY <2>1, ChangeTyped DEF MachineTyped
<1>11. ASSUME NEW v \in Volumes, Repartition(v)
       PROVE  Typed'
  <2>1. Change /\ UNCHANGED <<vols, uuid, files, oc, build, enabled, banned>>
    BY <1>11 DEF Repartition
  <2>2. table' \in [Volumes -> Gens]
    BY <1>11 DEF Repartition, MachineTyped, Gens, MenuCacheAssumption
  <2>. QED BY <2>1, <2>2, ChangeTyped DEF MachineTyped
<1>12. ASSUME NEW v \in Volumes, Reformat(v)
       PROVE  Typed'
  <2>1. Change /\ UNCHANGED <<vols, table, oc, build, enabled, banned>>
    BY <1>12 DEF Reformat
  <2>2. uuid' \in [Volumes -> Gens]
    BY <1>12 DEF Reformat, MachineTyped, Gens, MenuCacheAssumption
  <2>3. files' \in [Volumes -> [Paths -> Stamps]]
    <3>1. [p \in Paths |-> 0] \in [Paths -> Stamps]
      BY DEF Stamps, MenuCacheAssumption
    <3>. QED BY <1>12, <3>1 DEF Reformat, MachineTyped
  <2>. QED BY <2>1, <2>2, <2>3, ChangeTyped DEF MachineTyped
<1>13. ASSUME NEW v \in Volumes, NEW p \in Paths, PutFile(v, p)
       PROVE  Typed'
  <2>1. Change /\ UNCHANGED <<vols, table, uuid, oc, build, enabled, banned>>
    BY <1>13 DEF PutFile
  <2>2. files' \in [Volumes -> [Paths -> Stamps]]
    BY <1>13 DEF PutFile, MachineTyped
  <2>. QED BY <2>1, <2>2, ChangeTyped DEF MachineTyped
<1>14. CASE ChangeLauncher
  <2>1. Change /\ UNCHANGED <<vols, table, uuid, files, build, enabled, banned>>
        /\ oc' \in BOOLEAN
    BY <1>14 DEF ChangeLauncher
  <2>. QED BY <2>1, ChangeTyped DEF MachineTyped
<1>15. CASE ChangeBuild
  <2>1. Change /\ UNCHANGED <<vols, table, uuid, files, oc, enabled, banned>>
        /\ build' \in Builds
    BY <1>15 DEF ChangeBuild
  <2>. QED BY <2>1, ChangeTyped DEF MachineTyped
<1>16. CASE EditConfig
  <2>1. Change /\ UNCHANGED <<vols, table, uuid, files, oc, build>>
    BY <1>16 DEF EditConfig
  <2>2. enabled' \in BOOLEAN
    BY <1>16 DEF EditConfig, MachineTyped
  <2>3. banned' \subseteq Volumes
    BY <1>16 DEF EditConfig, MachineTyped
  <2>. QED BY <2>1, <2>2, <2>3, ChangeTyped DEF MachineTyped
<1>17. CASE UNCHANGED vars
  BY <1>17 DEF vars, MachineTyped, ShownTyped, CacheTyped
<1>. QED BY <1>1, <1>2, <1>3, <1>4, <1>5, <1>7, <1>8, <1>9, <1>10, <1>11, <1>12, <1>13,
         <1>14, <1>15, <1>16, <1>17 DEF Next

\* The file, the menu made of it and the machine keep their types.
THEOREM TypeCorrect == Spec => []TypeOK
BY TypedInit, TypedStep, TypedIsTypeOK, MenuCacheAssumption, PTL DEF Spec
-----------------------------------------------------------------------------
\* There is a menu only while it is shown; without OpenCore in the menu there is
\* none under OpenCore, and none in a sealed file whose fingerprint says OpenCore.
SealedFile == cache # NoFile /\ cache.sound /\ cache.body = cache.sum

NoOpenCore(records) == \A i \in DOMAIN records : records[i].path # OcPath

OpenCoreInv ==
    /\ phase # "menu" => menu = {}
    /\ NoOpenCoreUnderOpenCore
    /\ SealedFile /\ cache.fp # <<>> /\ cache.fp[2] => NoOpenCore(cache.body)

LEMMA FingerprintTellsOpenCore ==
    ASSUME NEW vs, NEW o, Fingerprint(vs, o) # <<>>
    PROVE  Fingerprint(vs, o)[2] = o
BY DEF Fingerprint

\* A scan under OpenCore finds no OpenCore.
LEMMA ScanFindsNoOpenCore ==
    ASSUME MenuCacheAssumption, NEW vs \in Seq(Volumes), NEW stamped, oc
    PROVE  /\ NoOpenCore(RecordsOf(ScanForBootloaders(vs), stamped))
           /\ \A e \in MenuOf(ScanForBootloaders(vs)) : e.path # OcPath
<1> DEFINE found == ScanForBootloaders(vs)
<1>1. /\ found \in Seq(Volumes \X Paths)
      /\ \A k \in 1..Len(found) : Offered(found[k][1], found[k][2])
  BY FoundIsOffered
<1>. HIDE DEF found
<1>2. DOMAIN found = 1..Len(found)
  BY <1>1
<1>3. \A k \in DOMAIN found : found[k][2] # OcPath
  BY <1>1, <1>2 DEF Offered
<1>4. NoOpenCore(RecordsOf(found, stamped))
  BY <1>3 DEF NoOpenCore, RecordsOf
<1>5. \A e \in MenuOf(found) : e.path # OcPath
  BY <1>3 DEF MenuOf
<1>. QED BY <1>4, <1>5 DEF found

\* A save that is sealed is one that went through, and says which it is.
LEMMA SaveOpenCore ==
    ASSUME MenuCacheAssumption, oc \in BOOLEAN, OpenCoreInv, NEW vs, NEW new,
           oc => NoOpenCore(new),
           SaveWhole(new, vs) \/ SaveTorn(new, vs) \/ SaveRefused
    PROVE  SealedFile' /\ cache'.fp # <<>> /\ cache'.fp[2] => NoOpenCore(cache'.body)
<1> SUFFICES ASSUME SealedFile', cache'.fp # <<>>, cache'.fp[2]
             PROVE  NoOpenCore(cache'.body)
  OBVIOUS
<1>1. CASE SaveWhole(new, vs)
  <2>1. cache' = FileOf(new, vs, Overwrite(new), TRUE)
    BY <1>1 DEF SaveWhole
  <2>2. cache'.sum = new /\ cache'.fp = Fingerprint(vs, oc)
    BY <2>1 DEF FileOf
  <2>3. oc
    BY <2>2, FingerprintTellsOpenCore
  <2>. QED BY <2>2, <2>3 DEF SealedFile
<1>2. CASE SaveTorn(new, vs)
  <2>1. CASE cache' = FileOf(new, vs, OldBody, FALSE)
    BY <2>1 DEF FileOf, SealedFile
  <2>2. ASSUME NEW k \in 0..(Len(new) - 1), Cut(new, k) # new,
               cache' = FileOf(new, vs, Cut(new, k), TRUE)
        PROVE  FALSE
    BY <2>2 DEF FileOf, SealedFile
  <2>. QED BY <1>2, <2>1, <2>2 DEF SaveTorn
<1>3. CASE SaveRefused
  BY <1>3 DEF SaveRefused, OpenCoreInv, SealedFile
<1>. QED BY <1>1, <1>2, <1>3

LEMMA StoreOpenCore ==
    ASSUME MenuCacheAssumption, oc \in BOOLEAN, OpenCoreInv, NEW vs \in Seq(Volumes),
           CacheStoreMenu(vs)
    PROVE  SealedFile' /\ cache'.fp # <<>> /\ cache'.fp[2] => NoOpenCore(cache'.body)
<1>1. PICK stamped \in BOOLEAN :
         LET new == RecordsOf(ScanForBootloaders(vs), stamped)
         IN  IF new = <<>> THEN quiet' = FALSE /\ UNCHANGED <<cache, stored, faults>>
             ELSE SaveWhole(new, vs) \/ SaveTorn(new, vs) \/ SaveRefused
  BY DEF CacheStoreMenu
<1> DEFINE new == RecordsOf(ScanForBootloaders(vs), stamped)
<1>2. oc => NoOpenCore(new)
  BY ScanFindsNoOpenCore
<1>3. CASE new = <<>>
  BY <1>1, <1>3 DEF OpenCoreInv, SealedFile
<1>4. CASE new # <<>>
  <2>1. SaveWhole(new, vs) \/ SaveTorn(new, vs) \/ SaveRefused
    BY <1>1, <1>4
  <2>. HIDE DEF new
  <2>. QED BY <1>2, <2>1, SaveOpenCore
<1>. QED BY <1>3, <1>4

LEMMA InvalidateOpenCore ==
    ASSUME OpenCoreInv, CacheInvalidate
    PROVE  SealedFile' /\ cache'.fp # <<>> /\ cache'.fp[2] => NoOpenCore(cache'.body)
BY DEF CacheInvalidate, SaveRefused, OpenCoreInv, SealedFile

\* A menu taken from the file is one stored by a launch of the same kind.
LEMMA HitHasNoOpenCore ==
    ASSUME OpenCoreInv, CacheHit, oc, NEW e \in Rebuilt
    PROVE  e.path # OcPath
<1>1. SealedFile /\ cache.fp = Fingerprint(vols, oc) /\ cache.fp # <<>>
  BY DEF CacheHit, ParseBuffer, SealedFile
<1>2. NoOpenCore(cache.body)
  BY <1>1, FingerprintTellsOpenCore DEF OpenCoreInv
<1>3. PICK i \in DOMAIN cache.body : e \in Rebuild(cache.body[i])
  BY DEF Rebuilt
<1>4. e.path = cache.body[i].path
  BY <1>3 DEF Rebuild
<1>. QED BY <1>2, <1>4 DEF NoOpenCore

LEMMA OpenCoreStep ==
    ASSUME MenuCacheAssumption, Typed, OpenCoreInv, [Next]_vars
    PROVE  OpenCoreInv'
<1> DEFINE FileInv == SealedFile /\ cache.fp # <<>> /\ cache.fp[2] => NoOpenCore(cache.body)
<1>0. oc \in BOOLEAN /\ vols \in Seq(Volumes) /\ FileInv
  BY DEF Typed, MachineTyped, OpenCoreInv
<1>1. ASSUME cache' = cache PROVE FileInv'
  BY <1>0, <1>1 DEF SealedFile, NoOpenCore
<1>2. ASSUME UNCHANGED cache, menu' = menu, phase' = phase \/ (phase # "menu" /\ phase' # "menu"),
             oc' = oc \/ menu = {}
      PROVE  OpenCoreInv'
  BY <1>1, <1>2 DEF OpenCoreInv, NoOpenCoreUnderOpenCore
<1>3. CASE PowerOn
  BY <1>2, <1>3 DEF PowerOn, machine
<1>4. CASE LoadHit
  <2>1. cache' = cache /\ oc' = oc /\ phase' = "menu" /\ menu' = Rebuilt /\ CacheHit
    BY <1>4 DEF LoadHit, machine
  <2>2. NoOpenCoreUnderOpenCore'
    BY <2>1, HitHasNoOpenCore DEF NoOpenCoreUnderOpenCore
  <2>. QED BY <1>1, <2>1, <2>2 DEF OpenCoreInv
<1>5. CASE LoadMiss
  <2>1. menu' = menu /\ oc' = oc /\ phase = "load" /\ phase' = "scan"
    BY <1>5 DEF LoadMiss, machine
  <2>2. CASE Stale
    <3>1. FileInv'
      BY <1>5, <2>2, InvalidateOpenCore DEF LoadMiss
    <3>. QED BY <2>1, <3>1 DEF OpenCoreInv, NoOpenCoreUnderOpenCore
  <2>3. CASE ~Stale
    BY <1>2, <1>5, <2>1, <2>3 DEF LoadMiss
  <2>. QED BY <2>2, <2>3
<1>6. CASE LoadUnreadable
  BY <1>2, <1>6 DEF LoadUnreadable, machine
<1>7. CASE ScanAtBoot
  <2>1. oc' = oc /\ phase' = "menu" /\ menu' = MenuOf(ScanForBootloaders(vols))
    BY <1>7 DEF ScanAtBoot, machine
  <2>2. FileInv'
    <3>1. CASE enabled
      BY <1>0, <1>7, <3>1, StoreOpenCore DEF ScanAtBoot
    <3>2. CASE ~enabled
      BY <1>7, <3>2, InvalidateOpenCore DEF ScanAtBoot
    <3>. QED BY <3>1, <3>2
  <2>3. oc => \A e \in MenuOf(ScanForBootloaders(vols)) : e.path # OcPath
    BY <1>0, ScanFindsNoOpenCore
  <2>. QED BY <2>1, <2>2, <2>3 DEF OpenCoreInv, NoOpenCoreUnderOpenCore
<1>8. ASSUME NEW vs \in Seq(Volumes), Rescan(vs) PROVE OpenCoreInv'
  <2>1. oc' = oc /\ phase' = "menu" /\ menu' = MenuOf(ScanForBootloaders(vs))
    BY <1>8 DEF Rescan
  <2>2. FileInv'
    <3>1. CASE enabled
      BY <1>0, <1>8, <3>1, StoreOpenCore DEF Rescan
    <3>2. CASE ~enabled
      BY <1>1, <1>8, <3>2 DEF Rescan
    <3>. QED BY <3>1, <3>2
  <2>3. oc => \A e \in MenuOf(ScanForBootloaders(vs)) : e.path # OcPath
    BY ScanFindsNoOpenCore
  <2>. QED BY <2>1, <2>2, <2>3 DEF OpenCoreInv, NoOpenCoreUnderOpenCore
<1>9. CASE ScanAll
  BY <1>0, <1>8, <1>9 DEF ScanAll
<1>10. CASE RescanAll
  <2>1. PICK vs \in Orders \ {vols} : Rescan(vs)
    BY <1>10 DEF RescanAll
  <2>. QED BY <1>8, <2>1 DEF MenuCacheAssumption
<1>11. CASE PowerOff
  BY <1>1, <1>11 DEF PowerOff, OpenCoreInv, NoOpenCoreUnderOpenCore
<1>12. ASSUME Change PROVE OpenCoreInv'
  <2>1. UNCHANGED <<cache, phase, menu>> /\ menu = {}
    BY <1>12 DEF Change, session, OpenCoreInv
  <2>. QED BY <1>2, <2>1
<1>13. CASE Attach \/ ChangeLauncher \/ ChangeBuild \/ EditConfig
  BY <1>12, <1>13 DEF Attach, ChangeLauncher, ChangeBuild, EditConfig
<1>14. ASSUME NEW v \in Volumes, Repartition(v) \/ Reformat(v) \/ \E p \in Paths : PutFile(v, p)
       PROVE  OpenCoreInv'
  BY <1>12, <1>14 DEF Repartition, Reformat, PutFile
<1>15. CASE UNCHANGED vars
  BY <1>2, <1>15 DEF vars
<1>. QED BY <1>3, <1>4, <1>5, <1>6, <1>7, <1>9, <1>10, <1>11, <1>13, <1>14, <1>15 DEF Next

\* Under OpenCore no menu offers OpenCore, whichever launch stored it.
THEOREM NoOpenCoreInItsOwnMenu == Spec => []NoOpenCoreUnderOpenCore
<1>1. Init => OpenCoreInv
  BY DEF Init, OpenCoreInv, NoOpenCoreUnderOpenCore, SealedFile
<1>2. OpenCoreInv => NoOpenCoreUnderOpenCore
  BY DEF OpenCoreInv
<1>. QED BY <1>1, <1>2, OpenCoreStep, TypedInit, TypedStep, MenuCacheAssumption, PTL DEF Spec
-----------------------------------------------------------------------------
\* As long as nothing has changed since a save went through, menu.cache is the file
\* that save wrote, and a scan would find what it found.
QuietInv ==
    quiet =>
        /\ enabled /\ cache # NoFile /\ cache.sound /\ cache.build = build
        /\ cache.fp = Fingerprint(vols, oc)
        /\ Len(cache.body) = Len(cache.sum) => cache.body = cache.sum
        /\ ScanForBootloaders(vols) # <<>>
        /\ \E stamped \in BOOLEAN :
              cache.sum = RecordsOf(ScanForBootloaders(vols), stamped)

\* The menu of a save that goes through is the whole body, if nothing follows it.
LEMMA OverwriteIsNew ==
    ASSUME CacheTyped, NEW new \in Seq(Records), Len(Overwrite(new)) = Len(new)
    PROVE  Overwrite(new) = new
<1> DEFINE rest == SubSeq(OldBody, Len(new) + 1, Len(OldBody))
<1>1. OldBody \in Seq(Records)
  BY BodiesTyped
<1>2. rest \in Seq(Records)
  BY <1>1
<1>3. Overwrite(new) = new \o rest
  BY DEF Overwrite
<1>. HIDE DEF rest
<1>4. Len(rest) = 0
  BY <1>2, <1>3
<1>. QED BY <1>2, <1>3, <1>4

\* What the next step sees of a scan depends on the disks and the settings only.
LEMMA SameScan ==
    ASSUME UNCHANGED <<table, uuid, files, oc, banned>>, NEW vs, NEW stamped
    PROVE  /\ ScanForBootloaders(vs)' = ScanForBootloaders(vs)
           /\ RecordsOf(ScanForBootloaders(vs), stamped)'
                = RecordsOf(ScanForBootloaders(vs), stamped)
           /\ Fingerprint(vs, oc)' = Fingerprint(vs, oc)
<1>. QED BY DEF ScanForBootloaders, Offered, VolumeScanAllowed, RecordsOf, PartGuid, VolUuid,
            Fingerprint

LEMMA StoreQuiet ==
    ASSUME MenuCacheAssumption, Typed, NEW vs \in Seq(Volumes), vols' = vs, enabled,
           UNCHANGED <<table, uuid, files, oc, build, enabled, banned>>, CacheStoreMenu(vs)
    PROVE  QuietInv'
<1>1. PICK stamped \in BOOLEAN :
         LET new == RecordsOf(ScanForBootloaders(vs), stamped)
         IN  IF new = <<>> THEN quiet' = FALSE /\ UNCHANGED <<cache, stored, faults>>
             ELSE SaveWhole(new, vs) \/ SaveTorn(new, vs) \/ SaveRefused
  BY DEF CacheStoreMenu
<1> DEFINE new == RecordsOf(ScanForBootloaders(vs), stamped)
<1>2. CASE ~quiet'
  BY <1>2 DEF QuietInv
<1>3. CASE quiet'
  <2>1. new # <<>> /\ SaveWhole(new, vs)
    BY <1>1, <1>3 DEF SaveTorn, SaveRefused
  <2>2. cache' = FileOf(new, vs, Overwrite(new), TRUE)
    BY <2>1 DEF SaveWhole
  <2>3. /\ new \in Seq(Records) /\ Len(new) = Len(ScanForBootloaders(vs))
        /\ Overwrite(new) \in Seq(Records)
    BY ScanTyped, BodiesTyped DEF Typed
  <2>4. ScanForBootloaders(vs) # <<>>
    BY <2>1, <2>3
  <2>5. /\ ScanForBootloaders(vols)' = ScanForBootloaders(vs)
        /\ RecordsOf(ScanForBootloaders(vols), stamped)' = new
        /\ Fingerprint(vols, oc)' = Fingerprint(vs, oc)
    BY DEF ScanForBootloaders, Offered, VolumeScanAllowed, RecordsOf, PartGuid, VolUuid,
           Fingerprint
  <2>6. Len(Overwrite(new)) = Len(new) => Overwrite(new) = new
    BY <2>3, OverwriteIsNew DEF Typed
  <2>. HIDE DEF new
  <2>7. /\ cache'.sound = TRUE /\ cache'.build = build /\ cache'.fp = Fingerprint(vs, oc)
        /\ cache'.sum = new /\ cache'.body = Overwrite(new)
    BY <2>2 DEF FileOf
  <2>8. cache' # NoFile
    <3>1. cache' \in Files
      BY <2>2, <2>3, PrintTyped DEF FileOf, Files, Typed, MachineTyped
    <3>. QED BY <3>1, NoFileAssumption
  <2>9. \E st \in BOOLEAN : cache'.sum = RecordsOf(ScanForBootloaders(vols), st)'
    BY <2>5, <2>7
  <2>. QED BY <2>4, <2>5, <2>6, <2>7, <2>8, <2>9 DEF QuietInv
<1>. QED BY <1>2, <1>3

LEMMA QuietStep ==
    ASSUME MenuCacheAssumption, Typed, QuietInv, [Next]_vars
    PROVE  QuietInv'
<1>0. vols \in Seq(Volumes)
  BY DEF Typed, MachineTyped
<1>1. ASSUME UNCHANGED <<machine, cache, quiet>> PROVE QuietInv'
  <2>1. UNCHANGED <<vols, table, uuid, files, oc, build, enabled, banned, cache, quiet>>
    BY <1>1 DEF machine
  <2>2. /\ ScanForBootloaders(vols)' = ScanForBootloaders(vols)
        /\ \A st : RecordsOf(ScanForBootloaders(vols), st)' = RecordsOf(ScanForBootloaders(vols), st)
        /\ Fingerprint(vols, oc)' = Fingerprint(vols, oc)
    BY <2>1 DEF ScanForBootloaders, Offered, VolumeScanAllowed, RecordsOf, PartGuid, VolUuid,
                Fingerprint
  <2>. QED BY <2>1, <2>2 DEF QuietInv
<1>2. ASSUME quiet' = FALSE PROVE QuietInv'
  BY <1>2 DEF QuietInv
<1>3. CASE PowerOn
  BY <1>1, <1>3 DEF PowerOn
<1>4. CASE LoadHit
  BY <1>1, <1>4 DEF LoadHit
<1>5. CASE LoadMiss
  <2>1. CASE Stale
    BY <1>2, <1>5, <2>1 DEF LoadMiss, CacheInvalidate, SaveRefused
  <2>2. CASE ~Stale
    BY <1>1, <1>5, <2>2 DEF LoadMiss
  <2>. QED BY <2>1, <2>2
<1>6. CASE LoadUnreadable
  BY <1>1, <1>6 DEF LoadUnreadable
<1>7. CASE ScanAtBoot
  <2>1. CASE enabled
    BY <1>0, <1>7, <2>1, StoreQuiet DEF ScanAtBoot, machine
  <2>2. CASE ~enabled
    BY <1>2, <1>7, <2>2 DEF ScanAtBoot, CacheInvalidate, SaveRefused
  <2>. QED BY <2>1, <2>2
<1>8. ASSUME NEW vs \in Seq(Volumes), Rescan(vs), vols' = vs PROVE QuietInv'
  <2>1. CASE enabled
    BY <1>8, <2>1, StoreQuiet DEF Rescan
  <2>2. CASE ~enabled
    <3>1. quiet' = (quiet /\ vs = vols)
      BY <1>8, <2>2 DEF Rescan
    <3>2. ~quiet
      BY <2>2 DEF QuietInv
    <3>. QED BY <1>2, <3>1, <3>2
  <2>. QED BY <2>1, <2>2
<1>9. CASE ScanAll
  BY <1>0, <1>8, <1>9 DEF ScanAll
<1>10. CASE RescanAll
  <2>1. PICK vs \in Orders \ {vols} : vols' = vs /\ Rescan(vs)
    BY <1>10 DEF RescanAll
  <2>2. vs \in Seq(Volumes)
    BY DEF MenuCacheAssumption
  <2>. QED BY <1>8, <2>1, <2>2
<1>11. CASE PowerOff
  BY <1>1, <1>11 DEF PowerOff
<1>12. ASSUME Change PROVE QuietInv'
  BY <1>2, <1>12 DEF Change
<1>13. CASE Attach \/ ChangeLauncher \/ ChangeBuild \/ EditConfig
  BY <1>12, <1>13 DEF Attach, ChangeLauncher, ChangeBuild, EditConfig
<1>14. ASSUME NEW v \in Volumes, Repartition(v) \/ Reformat(v) \/ \E p \in Paths : PutFile(v, p)
       PROVE  QuietInv'
  BY <1>12, <1>14 DEF Repartition, Reformat, PutFile
<1>15. CASE UNCHANGED vars
  BY <1>1, <1>15 DEF vars, machine
<1>. QED BY <1>3, <1>4, <1>5, <1>6, <1>7, <1>9, <1>10, <1>11, <1>13, <1>14, <1>15 DEF Next

\* A record of an attached volume resolves to that volume and no other: of the volumes
\* with its partition's identity, the file system tells it apart.
LEMMA ResolvesToItself ==
    ASSUME vols \in Seq(Volumes), NEW r, NEW j \in DOMAIN vols,
           r.part = PartGuid(vols[j]), r.uuid = VolUuid(vols[j])
    PROVE  ResolveVolume(r) = {vols[j]}
<1>1. SamePart(r) \in SUBSET DOMAIN vols /\ SameUuid(r) \in SUBSET DOMAIN vols
  BY DEF SamePart, SameUuid
<1>2. j \in SameUuid(r) /\ \A i \in SameUuid(r) : vols[i] = vols[j]
  BY DEF SameUuid, VolUuid
<1>3. CASE r.part # NoGuid
  <2> DEFINE S == SamePart(r) \cap SameUuid(r)
  <2>1. j \in S
    BY <1>2, <1>3 DEF SamePart
  <2>2. S \in SUBSET DOMAIN vols /\ S # {}
    BY <1>1, <2>1
  <2>3. \A i \in S : vols[i] = vols[j]
    BY <1>2
  <2>4. ResolveVolume(r) = {FirstOf(S)}
    BY <2>2 DEF ResolveVolume
  <2>. HIDE DEF S
  <2>5. PICK i \in S : FirstOf(S) = vols[i]
    BY <2>2, FirstIsAttached
  <2>. QED BY <2>3, <2>4, <2>5
<1>4. CASE r.part = NoGuid
  <2>1. SamePart(r) = {}
    BY <1>4 DEF SamePart
  <2>2. ResolveVolume(r) = {FirstOf(SameUuid(r))}
    BY <1>2, <2>1 DEF ResolveVolume
  <2>3. PICK i \in SameUuid(r) : FirstOf(SameUuid(r)) = vols[i]
    BY <1>1, <1>2, FirstIsAttached
  <2>. QED BY <1>2, <2>2, <2>3
<1>. QED BY <1>3, <1>4

\* What a scan would find now, a launch takes from the file.
LEMMA QuietHits ==
    ASSUME MenuCacheAssumption, Typed, QuietInv, quiet, NothingPast,
           Fingerprint(vols, oc) # <<>>
    PROVE  /\ CacheHit
           /\ {<<e.vol, e.path>> : e \in Rebuilt}
                = {<<e.vol, e.path>> : e \in MenuOf(ScanForBootloaders(vols))}
<1> DEFINE found == ScanForBootloaders(vols)
<1>0. vols \in Seq(Volumes) /\ DOMAIN vols = 1..Len(vols)
  BY DEF Typed, MachineTyped
<1>1. /\ found \in Seq(Volumes \X Paths)
      /\ \A k \in 1..Len(found) :
            /\ Offered(found[k][1], found[k][2])
            /\ \E j \in 1..Len(vols) : vols[j] = found[k][1]
  BY <1>0, FoundIsOffered
<1>2. /\ enabled /\ cache # NoFile /\ cache.sound /\ cache.build = build
      /\ cache.fp = Fingerprint(vols, oc) /\ cache.body = cache.sum /\ found # <<>>
  BY DEF QuietInv, NothingPast
<1>3. PICK stamped \in BOOLEAN : cache.sum = RecordsOf(found, stamped)
  BY DEF QuietInv
<1>. HIDE DEF found
<1>4. DOMAIN found = 1..Len(found) /\ 1 \in DOMAIN found
  BY <1>1, <1>2
<1>5. ASSUME NEW k \in DOMAIN found
      PROVE  LET r == cache.body[k]
                 v == found[k][1]
             IN  /\ r.path = found[k][2] /\ r.title = v
                 /\ ResolveVolume(r) = {v}
                 /\ Fresh(r)
                 /\ Rebuild(r) = {[path |-> r.path, title |-> r.title, vol |-> v,
                                   stamp |-> r.stamp]}
  <2> DEFINE v == found[k][1]
             p == found[k][2]
             r == [path |-> p, title |-> v, part |-> PartGuid(v), uuid |-> VolUuid(v),
                   stamp |-> IF stamped THEN files[v][p] ELSE 0]
  <2>1. cache.body[k] = r
    BY <1>2, <1>3 DEF RecordsOf
  <2>2. Offered(v, p) /\ \E j \in 1..Len(vols) : vols[j] = v
    BY <1>1, <1>4
  <2>. HIDE DEF v, p
  <2>3. /\ r.path = p /\ r.title = v /\ r.part = PartGuid(v) /\ r.uuid = VolUuid(v)
        /\ r.stamp # 0 => files[v][p] = r.stamp
    OBVIOUS
  <2>. HIDE DEF r
  <2>4. ResolveVolume(r) = {v}
    BY <1>0, <2>2, <2>3, ResolvesToItself
  <2>5. Fresh(r)
    BY <2>2, <2>3, <2>4 DEF Fresh, RecordContentUnchanged, Offered
  <2>6. Rebuild(r) = {[path |-> r.path, title |-> r.title, vol |-> v, stamp |-> r.stamp]}
    BY <2>2, <2>4 DEF Rebuild, Offered
  <2>. QED BY <2>1, <2>3, <2>4, <2>5, <2>6 DEF v, p
<1>6. DOMAIN cache.body = DOMAIN found
  BY <1>2, <1>3 DEF RecordsOf
<1>7. Rebuilt = {[path |-> found[k][2], title |-> found[k][1], vol |-> found[k][1],
                  stamp |-> cache.body[k].stamp] : k \in DOMAIN found}
  BY <1>5, <1>6 DEF Rebuilt
<1> DEFINE F == {<<found[k][1], found[k][2]>> : k \in DOMAIN found}
           E(k) == [path |-> found[k][2], title |-> found[k][1], vol |-> found[k][1],
                    stamp |-> cache.body[k].stamp]
           M(k) == [path |-> found[k][2], title |-> found[k][1], vol |-> found[k][1],
                    stamp |-> files[found[k][1]][found[k][2]]]
<1>8. {<<e.vol, e.path>> : e \in Rebuilt} = F
  <2>1. \A k : E(k).vol = found[k][1] /\ E(k).path = found[k][2]
    OBVIOUS
  <2>2. Rebuilt = {E(k) : k \in DOMAIN found}
    BY <1>7
  <2>. HIDE DEF E
  <2>3. ASSUME NEW e \in Rebuilt PROVE <<e.vol, e.path>> \in F
    BY <2>1, <2>2
  <2>4. ASSUME NEW x \in F PROVE \E e \in Rebuilt : x = <<e.vol, e.path>>
    <3>1. PICK k \in DOMAIN found : x = <<found[k][1], found[k][2]>>
      OBVIOUS
    <3>2. E(k) \in Rebuilt /\ x = <<E(k).vol, E(k).path>>
      BY <2>1, <2>2, <3>1
    <3>. QED BY <3>2
  <2>. HIDE DEF F
  <2>. QED BY <2>3, <2>4
<1>9. {<<e.vol, e.path>> : e \in MenuOf(found)} = F
  <2>1. \A k : M(k).vol = found[k][1] /\ M(k).path = found[k][2]
    OBVIOUS
  <2>2. MenuOf(found) = {M(k) : k \in DOMAIN found}
    BY DEF MenuOf
  <2>. HIDE DEF M
  <2>3. ASSUME NEW e \in MenuOf(found) PROVE <<e.vol, e.path>> \in F
    BY <2>1, <2>2
  <2>4. ASSUME NEW x \in F PROVE \E e \in MenuOf(found) : x = <<e.vol, e.path>>
    <3>1. PICK k \in DOMAIN found : x = <<found[k][1], found[k][2]>>
      OBVIOUS
    <3>2. M(k) \in MenuOf(found) /\ x = <<M(k).vol, M(k).path>>
      BY <2>1, <2>2, <3>1
    <3>. QED BY <3>2
  <2>. HIDE DEF F
  <2>. QED BY <2>3, <2>4
<1>10. CacheHit
  <2>1. ParseBuffer = "parsed"
    BY <1>2 DEF ParseBuffer
  <2>2. \A i \in DOMAIN cache.body : Fresh(cache.body[i])
    BY <1>5, <1>6
  <2>3. E(1) \in Rebuilt
    BY <1>4, <1>7
  <2>. QED BY <1>2, <2>1, <2>2, <2>3 DEF CacheHit
<1>. QED BY <1>8, <1>9, <1>10 DEF found

\* With nothing changed since the menu was stored, and nothing behind it in the file,
\* the next launch shows from the file what a scan would find.
THEOREM UnchangedMenusHit == Spec => UnchangedLaunchHits
<1>1. MenuCacheAssumption /\ Typed /\ QuietInv /\ [Next]_vars =>
        [phase = "load" /\ phase' # "off" /\ quiet /\ faults' = faults /\ NothingPast
           /\ Fingerprint(vols, oc) # <<>>
           => /\ source' = "hit"
              /\ {<<e.vol, e.path>> : e \in menu'}
                   = {<<e.vol, e.path>> : e \in MenuOf(ScanForBootloaders(vols))}]_vars
  <2> SUFFICES ASSUME MenuCacheAssumption, Typed, QuietInv, Next, phase = "load",
                      phase' # "off", quiet, faults' = faults, NothingPast,
                      Fingerprint(vols, oc) # <<>>
               PROVE  /\ source' = "hit"
                      /\ {<<e.vol, e.path>> : e \in menu'}
                           = {<<e.vol, e.path>> : e \in MenuOf(ScanForBootloaders(vols))}
    BY DEF vars
  <2>1. CacheHit
    BY QuietHits
  <2>2. faults \in Nat
    BY DEF Typed, CacheTyped, MenuCacheAssumption
  <2>3. LoadHit
    <3>1. ~LoadMiss
      BY <2>1 DEF LoadMiss
    <3>2. ~LoadUnreadable
      <4>1. faults' # faults + 1
        BY <2>2
      <4>. QED BY <4>1 DEF LoadUnreadable
    <3>3. ~PowerOff
      BY DEF PowerOff
    <3>4. ~PowerOn /\ ~ScanAtBoot /\ ~ScanAll /\ ~RescanAll
      BY DEF PowerOn, ScanAtBoot, ScanAll, RescanAll, Rescan
    <3>5. ~Change
      BY DEF Change
    <3>. QED BY <3>1, <3>2, <3>3, <3>4, <3>5 DEF Next, Attach, ChangeLauncher, ChangeBuild,
             EditConfig, Repartition, Reformat, PutFile
  <2>. QED BY <2>3, QuietHits DEF LoadHit
<1>2. Init => QuietInv
  BY DEF Init, QuietInv
<1>. QED BY <1>1, <1>2, QuietStep, TypedInit, TypedStep, MenuCacheAssumption, PTL
         DEF Spec, UnchangedLaunchHits
=============================================================================
