--------------------------- MODULE NvmeAsync_proofs ---------------------------
(***************************************************************************)
(* The asynchronous NVMe queue, for every number of requests and parts,    *)
(* every size of the rings and every set of faults.  The invariant has     *)
(* three layers.  Types and RequestInv say how requests, tasks and tokens  *)
(* fit together and need nothing from the controller; RingInv and          *)
(* CommandInv say how the two sides of the rings fit together as long as   *)
(* nobody resets the block device; Data says where the parts of a request  *)
(* that has not failed are.                                                *)
(***************************************************************************)
EXTENDS NvmeAsync, TLAPS, SequenceTheorems, FiniteSetTheorems, WellFoundedInduction

-----------------------------------------------------------------------------
(***************************************************************************)
(* Sequences and sets.                                                     *)
(***************************************************************************)

\* The waiting subtask that is handed over or thrown away is the first.
LEMMA TailIs ==
    ASSUME NEW S, NEW s \in Seq(S), s # <<>>
    PROVE  /\ Tail(s) \in Seq(S) /\ Len(Tail(s)) = Len(s) - 1 /\ Len(s) \in Nat \ {0}
           /\ DOMAIN s = 1 .. Len(s) /\ DOMAIN Tail(s) = 1 .. Len(s) - 1
           /\ Head(s) = s[1] /\ s[1] \in S
           /\ \A k \in DOMAIN Tail(s) : k + 1 \in DOMAIN s /\ Tail(s)[k] = s[k + 1]
<1>1. Len(s) \in Nat \ {0}
  BY EmptySeq
<1>2. /\ Tail(s) \in Seq(S) /\ Len(Tail(s)) = Len(s) - 1
      /\ \A k \in 1 .. Len(Tail(s)) : Tail(s)[k] = s[k + 1]
  BY HeadTailProperties
<1>3. DOMAIN s = 1 .. Len(s) /\ DOMAIN Tail(s) = 1 .. Len(Tail(s))
  BY <1>2, LenProperties
<1>4. Head(s) = s[1] /\ s[1] \in S
  BY <1>1, <1>3, ElementOfSeq, HeadTailProperties
<1>. QED BY <1>1, <1>2, <1>3, <1>4

\* A list with one more element at its end.
LEMMA AppendIs ==
    ASSUME NEW S, NEW s \in Seq(S), NEW e \in S
    PROVE  /\ Append(s, e) \in Seq(S) /\ Append(s, e) # <<>>
           /\ Len(s) \in Nat /\ DOMAIN s = 1 .. Len(s)
           /\ DOMAIN Append(s, e) = 1 .. Len(s) + 1
           /\ \A k \in DOMAIN Append(s, e) :
                 Append(s, e)[k] = IF k = Len(s) + 1 THEN e ELSE s[k]
<1>1. /\ Append(s, e) \in Seq(S) /\ Len(Append(s, e)) = Len(s) + 1 /\ Append(s, e) # <<>>
      /\ \A k \in 1 .. Len(s) : Append(s, e)[k] = s[k]
      /\ Append(s, e)[Len(s) + 1] = e
  BY AppendProperties
<1>2. /\ DOMAIN s = 1 .. Len(s) /\ Len(s) \in Nat
      /\ DOMAIN Append(s, e) = 1 .. Len(Append(s, e))
  BY <1>1, LenProperties, SMTT(60)
<1>. QED BY <1>1, <1>2

\* A queue without its k-th entry keeps the others in their order.
LEMMA RemoveAtIs ==
    ASSUME NEW S, NEW s \in Seq(S), NEW k \in DOMAIN s
    PROVE  /\ RemoveAt(s, k) \in Seq(S)
           /\ DOMAIN s = 1 .. Len(s) /\ Len(s) \in Nat
           /\ DOMAIN RemoveAt(s, k) = 1 .. Len(s) - 1
           /\ \A i \in DOMAIN RemoveAt(s, k) :
                 RemoveAt(s, k)[i] = IF i < k THEN s[i] ELSE s[i + 1]
<1> DEFINE a == SubSeq(s, 1, k - 1)
           b == SubSeq(s, k + 1, Len(s))
<1>1. DOMAIN s = 1 .. Len(s) /\ Len(s) \in Nat /\ \A i \in 1 .. Len(s) : s[i] \in S
  BY LenProperties, ElementOfSeq
<1>2. k \in Nat /\ 1 <= k /\ k <= Len(s)
  BY <1>1
<1>3. a \in Seq(S) /\ Len(a) = k - 1 /\ \A i \in 1 .. k - 1 : a[i] = s[i]
  <2>1. \A i \in 1 .. k - 1 : s[i] \in S
    BY <1>1, <1>2
  <2>2. 1 \in Int /\ k - 1 \in Int
    BY <1>2
  <2>3. /\ a \in Seq(S) /\ Len(a) = IF 1 <= k - 1 THEN k - 1 - 1 + 1 ELSE 0
        /\ \A i \in 1 .. k - 1 - 1 + 1 : a[i] = s[1 + i - 1]
    BY <2>1, <2>2, SubSeqProperties
  <2>. HIDE DEF a
  <2>. QED BY <2>3, <1>2
<1>4. b \in Seq(S) /\ Len(b) = Len(s) - k /\ \A i \in 1 .. Len(s) - k : b[i] = s[k + i]
  <2>1. \A i \in k + 1 .. Len(s) : s[i] \in S
    BY <1>1, <1>2
  <2>2. k + 1 \in Int /\ Len(s) \in Int
    BY <1>1, <1>2
  <2>3. /\ b \in Seq(S) /\ Len(b) = IF k + 1 <= Len(s) THEN Len(s) - (k + 1) + 1 ELSE 0
        /\ \A i \in 1 .. Len(s) - (k + 1) + 1 : b[i] = s[k + 1 + i - 1]
    BY <2>1, <2>2, SubSeqProperties
  <2>. HIDE DEF b
  <2>4. Len(b) = Len(s) - k
    BY <2>3, <1>1, <1>2
  <2>5. ASSUME NEW i \in 1 .. Len(s) - k
        PROVE  b[i] = s[k + i]
    <3>1. i \in 1 .. Len(s) - (k + 1) + 1 /\ k + 1 + i - 1 = k + i
      BY <2>5, <1>1, <1>2
    <3>. QED BY <3>1, <2>3
  <2>. QED BY <2>3, <2>4, <2>5
<1>5. RemoveAt(s, k) = a \o b
  BY DEF RemoveAt
<1>. HIDE DEF a, b
<1>6. /\ a \o b \in Seq(S) /\ Len(a \o b) = Len(s) - 1
      /\ \A i \in 1 .. Len(s) - 1 :
            (a \o b)[i] = IF i <= k - 1 THEN a[i] ELSE b[i - (k - 1)]
  <2>1. /\ a \o b \in Seq(S) /\ Len(a \o b) = Len(a) + Len(b)
        /\ \A i \in 1 .. Len(a) + Len(b) :
              (a \o b)[i] = IF i <= Len(a) THEN a[i] ELSE b[i - Len(a)]
    BY <1>3, <1>4, ConcatProperties
  <2>2. Len(a) + Len(b) = Len(s) - 1
    BY <1>1, <1>2, <1>3, <1>4
  <2>. QED BY <2>1, <2>2, <1>3
<1>7. DOMAIN (a \o b) = 1 .. Len(s) - 1
  BY <1>6, LenProperties
<1>8. ASSUME NEW i \in 1 .. Len(s) - 1
      PROVE  (a \o b)[i] = IF i < k THEN s[i] ELSE s[i + 1]
  <2>1. CASE i < k
    <3>1. i <= k - 1 /\ i \in 1 .. k - 1
      BY <2>1, <1>1, <1>2
    <3>. QED BY <3>1, <1>3, <1>6, <2>1
  <2>2. CASE ~(i < k)
    <3>1. ~(i <= k - 1) /\ i - (k - 1) \in 1 .. Len(s) - k /\ k + (i - (k - 1)) = i + 1
      BY <2>2, <1>1, <1>2
    <3>. QED BY <3>1, <1>4, <1>6, <2>2
  <2>. QED BY <2>1, <2>2
<1>. QED BY <1>1, <1>5, <1>6, <1>7, <1>8, ZenonT(60)

LEMMA NatLess ==
    IsWellFoundedOn({ss \in Nat \X Nat : ss[1] < ss[2]}, Nat)
BY NatLessThanWellFounded DEF OpToRel

\* The request a completion belongs to: the first entry with its identifier.
LEMMA TakenIs ==
    ASSUME NEW S, async \in Seq(S), NEW e, Taken(e) # {}
    PROVE  LET k == CHOOSE k \in Taken(e) : \A j \in Taken(e) : k <= j
           IN  k \in DOMAIN async /\ async[k].cid = e.cid
<1> DEFINE R == {ss \in Nat \X Nat : ss[1] < ss[2]}
<1>1. DOMAIN async = 1 .. Len(async) /\ Len(async) \in Nat
  BY LenProperties
<1>2. Taken(e) \in SUBSET Nat
  BY <1>1 DEF Taken
<1>3. PICK x \in Taken(e) : \A y \in Taken(e) : ~(<<y, x>> \in R)
  <2>. HIDE DEF R
  <2>1. IsWellFoundedOn(R, Nat)
    BY NatLess DEF R
  <2>. QED BY <2>1, <1>2, WFMin
<1>4. \A y \in Taken(e) : x <= y
  <2> TAKE y \in Taken(e)
  <2>1. <<y, x>> \in R <=> y < x
    BY <1>2
  <2>. QED BY <1>2, <1>3, <2>1
<1>. HIDE DEF R
<1>5. LET k == CHOOSE k \in Taken(e) : \A j \in Taken(e) : k <= j
      IN  k \in Taken(e)
  BY <1>4
<1>. QED BY <1>5 DEF Taken

\* UnsubmittedSubtaskNum is zero when no subtask of the request waits.
LEMMA UnsubmittedIs ==
    ASSUME NEW S, NEW q \in Seq(S), NEW r
    PROVE  /\ Unsubmitted(q, r) = 0 <=> \A k \in DOMAIN q : q[k][1] # r
           /\ Unsubmitted(q, r) > 0 <=> \E k \in DOMAIN q : q[k][1] = r
<1> DEFINE U == {k \in DOMAIN q : q[k][1] = r}
<1>1. DOMAIN q = 1 .. Len(q) /\ Len(q) \in Nat
  BY LenProperties
<1>2. IsFiniteSet(1 .. Len(q)) /\ U \in SUBSET (1 .. Len(q))
  BY <1>1, FS_Interval
<1>3. IsFiniteSet(U)
  BY <1>2, FS_Subset
<1>4. Cardinality(U) \in Nat /\ (Cardinality(U) = 0 <=> U = {})
  BY <1>3, FS_CardinalityType, FS_EmptySet
<1>5. Unsubmitted(q, r) = Cardinality(U)
  BY DEF Unsubmitted
<1>6. U = {} <=> \A k \in DOMAIN q : q[k][1] # r
  OBVIOUS
<1>. HIDE DEF U
<1>. QED BY <1>4, <1>5, <1>6

-----------------------------------------------------------------------------
(***************************************************************************)
(* The shape of the state.                                                 *)
(***************************************************************************)
Entry == [cid : 0 .. Cids - 1, task : Task]
Shape == [live : BOOLEAN, next : Nat, subs : SUBSET Nat, last : BOOLEAN]

\* The records of TypeOK, by name.
HostType == [sqt : 0 .. QueueSize - 1, sqHead : 0 .. QueueSize - 1,
             cid : 0 .. Cids - 1, cqh : 0 .. CqSize - 1, pt : {0, 1}]
Completion == [cid : 0 .. Cids - 1, phase : {0, 1},
               sqhd : 0 .. QueueSize - 1, error : BOOLEAN]
DevType == [on : BOOLEAN, head : 0 .. QueueSize - 1,
            tail : 0 .. QueueSize - 1, fly : SUBSET Stamp,
            ctail : 0 .. CqSize - 1, phase : {0, 1}, chead : 0 .. CqSize - 1]
PartsOf(r) == [live : BOOLEAN, next : 0 .. Parts[r],
               subs : SUBSET (1 .. Parts[r]), last : BOOLEAN]
TokenType == [event : {"idle", "waiting", "signalled"},
              status : {"success", "device_error", "aborted"}]

ReqTypes == req \in [Requests -> Shape] /\ \A r \in Requests : req[r] \in PartsOf(r)

Types ==
    /\ faults \in FaultSets
    /\ started \in 0 .. MaxReads
    /\ caller \in {"idle", "read", "zeroed", "disabled", "cleared"}
    /\ tick \in {"idle", "submit", "reap", "reaped"}
    /\ armed \in BOOLEAN
    /\ host \in HostType
    /\ sq \in [0 .. QueueSize - 1 -> Stamp]
    /\ cq \in [0 .. CqSize - 1 -> Completion]
    /\ dev \in DevType
    /\ unsub \in Seq(Task) /\ async \in Seq(Entry) /\ notify \in Seq(Task)
    /\ ReqTypes
    /\ token \in [Requests -> TokenType]
    /\ failed \subseteq Task /\ moved \subseteq Task

LEMMA TypesAreOK == Types => TypeOK
BY DEF Types, TypeOK, HostType, Completion, DevType, PartsOf, TokenType, Entry, ReqTypes

\* A subtask is a request and the number of one of its parts.
LEMMA TaskIs ==
    /\ \A t \in Task : t[1] \in Requests /\ t[2] \in 1 .. Parts[t[1]] /\ t = <<t[1], t[2]>>
    /\ \A r \in Requests : \A i \in 1 .. Parts[r] : <<r, i>> \in Task
    /\ \A r \in Requests : Parts[r] \in Nat \ {0} /\ 1 .. Parts[r] \subseteq Nat
<1>1. \A r \in Requests : Parts[r] \in Nat \ {0}
  BY PartsAssumption
<1>. QED BY <1>1 DEF Task

LEMMA TypesInit == Init => Types
<1> SUFFICES ASSUME Init
             PROVE  Types
  OBVIOUS
<1> USE QueueAssumption, TaskIs DEF Init
<1>1. 0 \in 0 .. QueueSize - 1 /\ 0 \in 0 .. CqSize - 1 /\ 0 \in 0 .. Cids - 1
  OBVIOUS
<1>2. host \in HostType
  BY <1>1 DEF ZeroHost, HostType
<1>3. NoCommand \in Stamp
  BY <1>1 DEF NoCommand, Stamp
<1>4. sq \in [0 .. QueueSize - 1 -> Stamp]
  BY <1>3 DEF ZeroSq
<1>5. cq \in [0 .. CqSize - 1 -> Completion]
  BY <1>1 DEF ZeroCq, Completion
<1>6. dev \in DevType
  BY <1>1 DEF DevReady, DevOff, DevType
<1>7. ReqTypes
  BY DEF NoRequest, ReqTypes, Shape, PartsOf
<1>8. token \in [Requests -> TokenType]
  BY DEF NoToken, TokenType
<1>9. unsub \in Seq(Task) /\ async \in Seq(Entry) /\ notify \in Seq(Task)
  BY EmptySeq
<1>. QED BY <1>2, <1>4, <1>5, <1>6, <1>7, <1>8, <1>9 DEF Types

\* A request whose record changes within its type.
LEMMA ReqChanges ==
    ASSUME ReqTypes, NEW r \in Requests, NEW v \in PartsOf(r),
           req' = [req EXCEPT ![r] = v]
    PROVE  ReqTypes' /\ req'[r] = v /\ \A q \in Requests \ {r} : req'[q] = req[q]
<1>1. v \in Shape
  BY TaskIs DEF PartsOf, Shape
<1>2. req'[r] = v /\ \A q \in Requests \ {r} : req'[q] = req[q]
  BY DEF ReqTypes
<1>3. req' \in [Requests -> Shape]
  BY <1>1 DEF ReqTypes
<1>. QED BY <1>2, <1>3 DEF ReqTypes, PartsOf

LEMMA NoRequestIs ==
    ASSUME NEW r \in Requests
    PROVE  /\ NoRequest \in PartsOf(r)
           /\ [NoRequest EXCEPT !.live = TRUE, !.next = 1] \in PartsOf(r)
           /\ NoRequest.live = FALSE /\ NoRequest.next = 0
           /\ NoRequest.subs = {} /\ NoRequest.last = FALSE
<1>1. 0 \in 0 .. Parts[r] /\ 1 \in 0 .. Parts[r]
  BY PartsAssumption
<1>. QED BY <1>1 DEF NoRequest, PartsOf

\* A request's record with one field or several changed.
LEMMA PartsChange ==
    ASSUME NEW r \in Requests, NEW v \in PartsOf(r),
           NEW s \in SUBSET (1 .. Parts[r]), NEW l \in BOOLEAN, NEW n \in 0 .. Parts[r]
    PROVE  /\ [v EXCEPT !.next = n] \in PartsOf(r)
           /\ [v EXCEPT !.last = l, !.next = n] \in PartsOf(r)
           /\ [v EXCEPT !.subs = s] \in PartsOf(r)
           /\ [v EXCEPT !.subs = s, !.last = l] \in PartsOf(r)
BY DEF PartsOf

\* A token whose event, status or both change.
LEMMA TokenChanges ==
    ASSUME token \in [Requests -> TokenType], NEW r \in Requests, NEW s \in {"success", "device_error", "aborted"}
    PROVE  /\ [token EXCEPT ![r] = [event |-> "signalled", status |-> s]]
                 \in [Requests -> TokenType]
           /\ [token EXCEPT ![r].status = s] \in [Requests -> TokenType]
<1>1. token[r] \in TokenType
  OBVIOUS
<1>2. [event |-> "signalled", status |-> s] \in TokenType
  BY DEF TokenType
<1>3. [token[r] EXCEPT !.status = s] \in TokenType
  BY <1>1 DEF TokenType
<1>. QED BY <1>2, <1>3

LEMMA StartReadTypes ==
    ASSUME Types, NEW r \in Requests, StartRead(r)
    PROVE  Types'
<1>1. ReqTypes'
  BY ReqChanges, NoRequestIs DEF Types, StartRead
<1>2. token' \in [Requests -> TokenType]
  BY DEF Types, StartRead, TokenType
<1>3. started' \in 0 .. MaxReads
  BY QueueAssumption DEF Types, StartRead
<1>4. failed' \subseteq Task /\ moved' \subseteq Task
  BY DEF Types, StartRead
<1>. QED BY <1>1, <1>2, <1>3, <1>4 DEF Types, StartRead

LEMMA QueuePartTypes ==
    ASSUME Types, NEW r \in Requests, QueuePart(r)
    PROVE  Types'
<1> DEFINE t == <<r, req[r].next>>
           n == IF IsLast(t) THEN 0 ELSE req[r].next + 1
<1>1. req[r].next \in 1 .. Parts[r] /\ Parts[r] \in Nat
  BY TaskIs DEF Types, QueuePart, ReqTypes, PartsOf
<1>2. t \in Task /\ n \in 0 .. Parts[r]
  BY <1>1, TaskIs DEF IsLast
<1>3. unsub' = Append(unsub, t) /\ req' = [req EXCEPT ![r].next = n]
  BY DEF QueuePart
<1>4. unsub' \in Seq(Task)
  BY <1>2, <1>3, AppendIs DEF Types
<1>. HIDE DEF n
<1>5. ReqTypes'
  <2>1. [req[r] EXCEPT !.next = n] \in PartsOf(r)
    BY <1>2, PartsChange DEF Types, ReqTypes
  <2>2. req' = [req EXCEPT ![r] = [req[r] EXCEPT !.next = n]]
    BY <1>3
  <2>. QED BY <2>1, <2>2, ReqChanges DEF Types
<1>6. caller' \in {"idle", "read"}
  BY DEF QueuePart
<1>. QED BY <1>4, <1>5, <1>6 DEF Types, QueuePart

LEMMA QueuePartFailsTypes ==
    ASSUME Types, NEW r \in Requests, QueuePartFails(r)
    PROVE  Types'
<1>1. ReqTypes'
  <2>1. CASE req' = [req EXCEPT ![r] = NoRequest]
    BY <2>1, NoRequestIs, ReqChanges DEF Types
  <2>2. CASE req' = [req EXCEPT ![r].last = TRUE, ![r].next = 0]
    <3>1. [req[r] EXCEPT !.last = TRUE, !.next = 0] \in PartsOf(r)
      <4>1. 0 \in 0 .. Parts[r] /\ req[r] \in PartsOf(r)
        BY PartsAssumption DEF Types, ReqTypes
      <4>. QED BY <4>1, PartsChange
    <3>2. req' = [req EXCEPT ![r] = [req[r] EXCEPT !.last = TRUE, !.next = 0]]
      BY <2>2 DEF Types, ReqTypes, Shape
    <3>. QED BY <3>1, <3>2, ReqChanges DEF Types
  <2>. QED BY <2>1, <2>2 DEF QueuePartFails
<1>2. token' \in [Requests -> TokenType]
  BY ZenonT(60) DEF Types, QueuePartFails, TokenType
<1>. QED BY <1>1, <1>2 DEF Types, QueuePartFails

LEMMA CallbackTypes ==
    ASSUME Types, Callback
    PROVE  Types'
<1> DEFINE t == Head(notify)
           r == t[1]
           left == req[r].subs \ {t[2]}
           verdict == IF token[r].status = "success" /\ t \in failed
                        THEN "device_error" ELSE token[r].status
<1>1. t \in Task /\ notify' \in Seq(Task)
  BY TailIs DEF Types, Callback
<1>2. r \in Requests /\ t[2] \in 1 .. Parts[r]
  BY <1>1, TaskIs
<1>3. /\ \/ req' = [req EXCEPT ![r] = NoRequest]
         \/ req' = [req EXCEPT ![r].subs = left]
      /\ \/ token' = [token EXCEPT ![r] = [event |-> "signalled", status |-> verdict]]
         \/ token' = [token EXCEPT ![r].status = verdict]
  BY DEF Callback
<1>4. left \in SUBSET (1 .. Parts[r])
  BY <1>2 DEF Types, ReqTypes, PartsOf
<1>5. verdict \in {"success", "device_error", "aborted"}
  BY <1>2 DEF Types, TokenType
<1>. HIDE DEF t, r, left, verdict
<1>6. token' \in [Requests -> TokenType]
  <2>1. token \in [Requests -> TokenType]
    BY DEF Types
  <2>2. /\ [token EXCEPT ![r] = [event |-> "signalled", status |-> verdict]]
              \in [Requests -> TokenType]
        /\ [token EXCEPT ![r].status = verdict] \in [Requests -> TokenType]
    BY <2>1, <1>2, <1>5, TokenChanges
  <2>. QED BY <2>2, <1>3, Zenon
<1>7. [req[r] EXCEPT !.subs = left] \in PartsOf(r) /\ NoRequest \in PartsOf(r)
  <2>1. req[r] \in PartsOf(r) /\ 0 \in 0 .. Parts[r]
    BY <1>2, PartsAssumption DEF Types, ReqTypes
  <2>. QED BY <1>2, <1>4, <2>1, NoRequestIs, PartsChange
<1>8. ReqTypes'
  BY <1>2, <1>3, <1>7, ReqChanges DEF Types
<1>. QED BY <1>1, <1>6, <1>8 DEF Types, Callback

LEMMA DiscardTypes ==
    ASSUME Types, Discard
    PROVE  Types'
<1> DEFINE r == Head(unsub)[1]
<1>1. r \in Requests /\ unsub' \in Seq(Task)
  BY TailIs, TaskIs DEF Types, Discard
<1>2. Finished(r) \/ UNCHANGED <<req, token>>
  BY DEF Discard
<1>. HIDE DEF r
<1>3. ReqTypes'
  <2>1. CASE UNCHANGED req
    BY <2>1 DEF Types, ReqTypes
  <2>2. CASE req' = [req EXCEPT ![r] = NoRequest]
    BY <2>2, <1>1, NoRequestIs, ReqChanges DEF Types
  <2>. QED BY <1>2, <2>1, <2>2 DEF Finished
<1>4. token' \in [Requests -> TokenType]
  BY <1>1, <1>2 DEF Finished, Types, TokenType
<1>. QED BY <1>1, <1>3, <1>4 DEF Types, Discard

\* What PassThru does to the ring, the host and the controller.
LEMMA FilledTypes ==
    ASSUME Types, NEW t \in Task
    PROVE  /\ [sq EXCEPT ![host.sqt] = [cid |-> host.cid, task |-> t]]
                 \in [0 .. QueueSize - 1 -> Stamp]
           /\ Submitted \in HostType /\ Rung \in DevType
           /\ [host EXCEPT !.cid = (@ + 1) % Cids] \in HostType
           /\ [cid |-> host.cid, task |-> t] \in Entry
<1>1. host \in HostType /\ dev \in DevType
  BY DEF Types
<1>2. (host.sqt + 1) % QueueSize \in 0 .. QueueSize - 1 /\ (host.cid + 1) % Cids \in 0 .. Cids - 1
  BY <1>1, QueueAssumption DEF HostType
<1>3. [cid |-> host.cid, task |-> t] \in Entry /\ [cid |-> host.cid, task |-> t] \in Stamp
  BY <1>1 DEF HostType, Entry, Stamp
<1>. QED BY <1>1, <1>2, <1>3 DEF Types, Submitted, Rung, HostType, DevType

LEMMA SubmitTypes ==
    ASSUME Types, Submit
    PROVE  Types'
<1> DEFINE t == Head(unsub)
           r == t[1]
           more == req[r].subs \cup {t[2]}
           done == req[r].last \/ IsLast(t)
<1>1. t \in Task /\ unsub' \in Seq(Task)
  BY TailIs DEF Types, Submit
<1>2. r \in Requests /\ t[2] \in 1 .. Parts[r]
  BY <1>1, TaskIs
<1>3. /\ Filled(t) /\ host' = Submitted /\ dev' = Rung
      /\ async' = Append(async, [cid |-> host.cid, task |-> t])
      /\ req' = [req EXCEPT ![r].subs = more, ![r].last = done]
  BY DEF Submit
<1>4. more \in SUBSET (1 .. Parts[r]) /\ done \in BOOLEAN
  BY <1>2 DEF Types, ReqTypes, PartsOf, IsLast
<1>. HIDE DEF t, r, more, done
<1>5. [req[r] EXCEPT !.subs = more, !.last = done] \in PartsOf(r)
  <2>1. req[r] \in PartsOf(r) /\ 0 \in 0 .. Parts[r]
    BY <1>2, PartsAssumption DEF Types, ReqTypes
  <2>. QED BY <1>2, <1>4, <2>1, PartsChange
<1>6. req' = [req EXCEPT ![r] = [req[r] EXCEPT !.subs = more, !.last = done]]
  BY <1>2, <1>3 DEF Types, ReqTypes, Shape
<1>7. ReqTypes'
  BY <1>2, <1>5, <1>6, ReqChanges DEF Types
<1>8. async' \in Seq(Entry)
  BY <1>1, <1>3, FilledTypes, AppendIs DEF Types
<1>9. sq' \in [0 .. QueueSize - 1 -> Stamp] /\ host' \in HostType /\ dev' \in DevType
  BY <1>1, <1>3, FilledTypes DEF Filled
<1>. QED BY <1>1, <1>7, <1>8, <1>9 DEF Types, Submit

LEMMA SubmitFailsTypes ==
    ASSUME Types, NEW why \in {"map", "memory"}, SubmitFails(why)
    PROVE  Types'
<1> DEFINE t == Head(unsub)
           r == t[1]
<1>1. t \in Task /\ unsub' \in Seq(Task)
  BY TailIs DEF Types, SubmitFails
<1>2. r \in Requests
  BY <1>1, TaskIs
<1>3. /\ Filled(t)
      /\ host' \in {Submitted, [host EXCEPT !.cid = (@ + 1) % Cids]}
      /\ dev' \in {Rung, dev}
  BY DEF SubmitFails
<1>4. \/ /\ req' = [req EXCEPT ![r] = NoRequest]
         /\ token' = [token EXCEPT ![r] = [event |-> "signalled", status |-> "device_error"]]
      \/ token' = [token EXCEPT ![r].status = "device_error"] /\ UNCHANGED req
  BY DEF SubmitFails
<1>. HIDE DEF t, r
<1>5. ReqTypes'
  <2>1. CASE UNCHANGED req
    BY <2>1 DEF Types, ReqTypes
  <2>2. CASE req' = [req EXCEPT ![r] = NoRequest]
    BY <2>2, <1>2, NoRequestIs, ReqChanges DEF Types
  <2>. QED BY <1>4, <2>1, <2>2
<1>6. token' \in [Requests -> TokenType]
  <2>1. token \in [Requests -> TokenType]
    BY DEF Types
  <2>2. "device_error" \in {"success", "device_error", "aborted"}
    OBVIOUS
  <2>. QED BY <2>1, <2>2, <1>2, <1>4, TokenChanges, ZenonT(60)
<1>7. sq' \in [0 .. QueueSize - 1 -> Stamp] /\ host' \in HostType /\ dev' \in DevType
  BY <1>1, <1>3, FilledTypes DEF Filled, Types
<1>. QED BY <1>1, <1>5, <1>6, <1>7 DEF Types, SubmitFails

LEMMA ReapTypes ==
    ASSUME Types, Reap
    PROVE  Types'
<1> DEFINE e == cq[host.cqh]
           moveHead == [host EXCEPT !.cqh = NextHead.cqh, !.pt = NextHead.pt]
           k == CHOOSE k \in Taken(e) : \A j \in Taken(e) : k <= j
           t == async[k].task
<1>1. host \in HostType /\ e \in Completion
  BY DEF Types, HostType
<1>2. NextHead \in [cqh : 0 .. CqSize - 1, pt : {0, 1}]
  BY <1>1, QueueAssumption DEF NextHead, HostType
<1>3. moveHead \in HostType /\ [moveHead EXCEPT !.sqHead = e.sqhd] \in HostType
  BY <1>1, <1>2 DEF HostType, Completion
<1>4. \/ host' = moveHead /\ UNCHANGED <<async, notify, failed>>
      \/ /\ Taken(e) # {}
         /\ async' = RemoveAt(async, k) /\ notify' = Append(notify, t)
         /\ failed' = (IF e.error THEN failed \cup {t} ELSE failed \ {t})
         /\ host' = [moveHead EXCEPT !.sqHead = e.sqhd]
  BY DEF Reap
<1>5. async \in Seq(Entry) /\ notify \in Seq(Task) /\ failed \subseteq Task
  BY DEF Types
<1>6. Taken(e) # {} => k \in DOMAIN async /\ async[k] \in Entry
  <2>1. Taken(e) # {} => k \in DOMAIN async
    BY <1>5, TakenIs
  <2>2. \A i \in DOMAIN async : async[i] \in Entry
    BY <1>5, LenProperties, ElementOfSeq
  <2>. QED BY <2>1, <2>2
<1>. HIDE DEF e, moveHead, k
<1>7. Taken(e) # {} => t \in Task
  BY <1>6 DEF Entry
<1>. HIDE DEF t
<1>8. host' \in HostType
  BY <1>3, <1>4
<1>9. async' \in Seq(Entry)
  BY <1>4, <1>5, <1>6, RemoveAtIs
<1>10. notify' \in Seq(Task) /\ failed' \subseteq Task
  <2>1. Taken(e) # {} => Append(notify, t) \in Seq(Task)
    BY <1>5, <1>7, AppendIs
  <2>. QED BY <2>1, <1>4, <1>5, <1>7
<1>. QED BY <1>8, <1>9, <1>10 DEF Types, ReqTypes, Reap

LEMMA FetchTypes ==
    ASSUME Types, Fetch
    PROVE  Types'
<1>1. dev \in DevType /\ sq[dev.head] \in Stamp
  BY DEF Types, DevType
<1>2. (dev.head + 1) % QueueSize \in 0 .. QueueSize - 1
  BY <1>1, QueueAssumption DEF DevType
<1>3. dev' \in DevType
  BY <1>1, <1>2 DEF Fetch, DevType
<1>. QED BY <1>3 DEF Types, ReqTypes, Fetch

LEMMA ExecuteTypes ==
    ASSUME Types, NEW c \in dev.fly, NEW error \in BOOLEAN, Execute(c, error)
    PROVE  Types'
<1>1. dev \in DevType /\ c \in Stamp
  BY DEF Types, DevType
<1>2. (dev.ctail + 1) % CqSize \in 0 .. CqSize - 1
  BY <1>1, QueueAssumption DEF DevType
<1>3. dev' \in DevType
  <2>1. 1 - dev.phase \in {0, 1} /\ dev.fly \ {c} \in SUBSET Stamp
    BY <1>1 DEF DevType
  <2>2. (IF dev.ctail + 1 = CqSize THEN 1 - dev.phase ELSE dev.phase) \in {0, 1}
    BY <1>1, <2>1 DEF DevType
  <2>. QED BY <1>1, <1>2, <2>1, <2>2 DEF Execute, DevType
<1>4. [cid |-> c.cid, phase |-> dev.phase, sqhd |-> dev.head, error |-> error] \in Completion
  BY <1>1 DEF DevType, Stamp, Completion
<1>5. cq' \in [0 .. CqSize - 1 -> Completion]
  BY <1>4 DEF Execute, Types
<1>6. moved' \subseteq Task
  BY DEF Execute, Types
<1>. QED BY <1>3, <1>5, <1>6 DEF Types, ReqTypes, Execute

\* The rings, both sides of them, after a reset.
LEMMA ZeroTypes ==
    /\ ZeroHost \in HostType
    /\ ZeroSq \in [0 .. QueueSize - 1 -> Stamp]
    /\ ZeroCq \in [0 .. CqSize - 1 -> Completion]
    /\ DevOff \in DevType /\ DevReady \in DevType
<1> USE QueueAssumption
<1>1. 0 \in 0 .. QueueSize - 1 /\ 0 \in 0 .. CqSize - 1 /\ 0 \in 0 .. Cids - 1
  OBVIOUS
<1>2. ZeroHost \in HostType
  BY <1>1 DEF ZeroHost, HostType
<1>3. NoCommand \in Stamp
  BY <1>1 DEF NoCommand, Stamp
<1>4. ZeroSq \in [0 .. QueueSize - 1 -> Stamp]
  BY <1>3 DEF ZeroSq
<1>5. ZeroCq \in [0 .. CqSize - 1 -> Completion]
  BY <1>1 DEF ZeroCq, Completion
<1>6. DevOff \in DevType
  BY <1>1 DEF DevOff, DevType
<1>7. DevReady \in DevType
  BY <1>6 DEF DevReady, DevType
<1>. QED BY <1>2, <1>4, <1>5, <1>6, <1>7

LEMMA BlockingTimeoutTypes ==
    ASSUME Types, BlockingTimeout
    PROVE  Types'
<1> DEFINE tasks == [k \in DOMAIN async |-> async[k].task]
<1>1. async \in Seq(Entry) /\ notify \in Seq(Task) /\ unsub \in Seq(Task)
  BY DEF Types
<1>2. tasks \in Seq(Task)
  <2>1. /\ DOMAIN async = 1 .. Len(async) /\ Len(async) \in Nat
        /\ \A k \in DOMAIN async : async[k] \in Entry
    BY <1>1, LenProperties, ElementOfSeq
  <2>2. tasks \in [1 .. Len(async) -> Task]
    BY <2>1 DEF Entry
  <2>. QED BY <2>1, <2>2, SeqDef
<1>. HIDE DEF tasks
<1>3. notify \o unsub \o tasks \in Seq(Task)
  BY <1>1, <1>2, ConcatProperties
<1>4. notify' \in Seq(Task) /\ unsub' \in Seq(Task) /\ async' \in Seq(Entry)
  BY <1>3, EmptySeq DEF BlockingTimeout, AbortAll, tasks
<1>5. ASSUME NEW r \in Requests
      PROVE  Aborted(r) \in PartsOf(r)
  <2> DEFINE s == req[r].subs \cup {i \in 1 .. Parts[r] : <<r, i>> \in Range(unsub)}
             l == req[r].last \/ <<r, Parts[r]>> \in Range(unsub)
  <2>1. req[r] \in PartsOf(r) /\ 0 \in 0 .. Parts[r]
    BY PartsAssumption DEF Types, ReqTypes
  <2>2. s \in SUBSET (1 .. Parts[r]) /\ l \in BOOLEAN
    BY <2>1 DEF PartsOf
  <2>3. Aborted(r) = [req[r] EXCEPT !.subs = s, !.last = l]
    BY DEF Aborted
  <2>. HIDE DEF s, l
  <2>4. [req[r] EXCEPT !.subs = s, !.last = l] \in PartsOf(r)
    BY <2>1, <2>2, PartsChange
  <2>. QED BY <2>3, <2>4
<1>6. ReqTypes'
  <2>1. req' = [r \in Requests |-> Aborted(r)]
    BY DEF BlockingTimeout, AbortAll
  <2>2. \A r \in Requests : PartsOf(r) \subseteq Shape
    BY TaskIs DEF PartsOf, Shape
  <2>3. req' \in [Requests -> Shape] /\ \A r \in Requests : req'[r] \in PartsOf(r)
    BY <1>5, <2>1, <2>2
  <2>. QED BY <2>3 DEF ReqTypes, PartsOf
<1>7. token' \in [Requests -> TokenType]
  <2>1. \A r \in Requests : /\ token[r] \in TokenType
                            /\ [token[r] EXCEPT !.status = "aborted"] \in TokenType
    BY DEF Types, TokenType
  <2>2. token' = [r \in Requests |->
                    IF Unsubmitted(unsub, r) > 0
                      THEN [token[r] EXCEPT !.status = "aborted"] ELSE token[r]]
    BY DEF BlockingTimeout, AbortAll
  <2>. QED BY <2>1, <2>2
<1>. QED BY <1>4, <1>6, <1>7, ZeroTypes DEF Types, BlockingTimeout

LEMMA TypesStep == Types /\ [Next]_nvmeVars => Types'
<1> SUFFICES ASSUME Types, [Next]_nvmeVars
             PROVE  Types'
  OBVIOUS
<1>1. CASE TimerTick
  BY <1>1 DEF TimerTick, Types, ReqTypes
<1>2. CASE SubmitEnds
  BY <1>2 DEF SubmitEnds, Types, ReqTypes
<1>3. CASE ReapEnds
  <2>1. dev' \in DevType
    BY <1>3 DEF ReapEnds, HeadRung, Types, DevType, HostType
  <2>. QED BY <1>3, <2>1 DEF ReapEnds, Types, ReqTypes
<1>4. CASE BlockingTimeoutDead
  BY <1>4, ZeroTypes DEF BlockingTimeoutDead, Types, ReqTypes
<1>5. CASE Reset
  BY <1>5, ZeroTypes DEF Reset, ResetBegins, ResetDisables, ResetClears, ResetEnds, ResetFails,
                         Types, ReqTypes
<1>6. CASE UNCHANGED nvmeVars
  BY <1>6 DEF nvmeVars, Types, ReqTypes
<1>. QED BY <1>1, <1>2, <1>3, <1>4, <1>5, <1>6, StartReadTypes, QueuePartTypes,
            QueuePartFailsTypes, CallbackTypes, DiscardTypes, SubmitTypes, SubmitFailsTypes,
            ReapTypes, FetchTypes, ExecuteTypes, BlockingTimeoutTypes
         DEF Next, Caller, Handler, Controller

\* The state keeps its shape, whatever fails and however the rings are torn down.
THEOREM TypeCorrect == Spec => []TypeOK
<1>. QED BY TypesInit, TypesStep, TypesAreOK, PTL DEF Spec

-----------------------------------------------------------------------------
(***************************************************************************)
(* Requests, their subtasks and their tokens, whatever fails and however   *)
(* the rings are torn down.                                                *)
(***************************************************************************)

\* A request lives as long as its token's event is awaited, and a freed one holds nothing.
Told ==
    /\ \A r \in Requests : req[r].live <=> token[r].event = "waiting"
    /\ \A r \in Requests : ~req[r].live => req[r] = NoRequest

\* One request at a time is being cut into parts, and its last part is not out.
Queueing ==
    /\ \A r \in Requests : req[r].next > 0 => caller = "read" /\ ~req[r].last
    /\ \A r, q \in Requests : req[r].next > 0 /\ req[q].next > 0 => r = q

\* The waiting subtasks of one request stand together, in the order of their parts.
Ordered ==
    /\ \A j, k \in DOMAIN unsub :
          j < k /\ unsub[j][1] = unsub[k][1] => unsub[j][2] < unsub[k][2]
    /\ \A i, j, k \in DOMAIN unsub :
          i < j /\ j < k /\ unsub[i][1] = unsub[k][1] => unsub[j][1] = unsub[k][1]

\* A request with waiting subtasks: those handed over are the parts before, those
\* still to be queued the parts behind, and only the first request in the list is
\* handed over in part.
Waits(r, i) ==
    /\ req[r].live
    /\ req[r].next > 0 => i < req[r].next
    /\ \A j \in req[r].subs : j < i
    /\ req[r].last => token[r].status # "success"
    /\ req[r].subs # {} => unsub[1][1] = r

InOrder ==
    /\ Ordered
    /\ \A k \in DOMAIN unsub : Waits(unsub[k][1], unsub[k][2])
    /\ \A j, k \in DOMAIN unsub :
          j < k /\ req[unsub[j][1]].next > 0 => unsub[k][1] = unsub[j][1]
    /\ \A r \in Requests :
          req[r].next > 0 /\ req[r].subs # {} =>
              /\ \A i \in req[r].subs : i < req[r].next
              /\ unsub # <<>> => unsub[1][1] = r

\* A subtask that was handed over is in one place, and its request counts it.
Held ==
    /\ \A k \in DOMAIN async : async[k].task[2] \in req[async[k].task[1]].subs
    /\ \A k \in DOMAIN notify : notify[k][2] \in req[notify[k][1]].subs
    /\ \A j, k \in DOMAIN async : async[j].task = async[k].task => j = k
    /\ \A j, k \in DOMAIN notify : notify[j] = notify[k] => j = k
    /\ \A j \in DOMAIN notify, k \in DOMAIN async : notify[j] # async[k].task

\* When callbacks run, the handler's first loop has thrown away the waiting subtasks
\* of every request that failed and of which others were handed over: the callback
\* does not look whether there are any.
Settled ==
    /\ tick = "submit" => notify = <<>>
    /\ tick \in {"reap", "reaped"} \/ notify # <<>> =>
          \A k \in DOMAIN unsub :
              ~(req[unsub[k][1]].last /\ req[unsub[k][1]].subs # {})

RequestInv == Told /\ Queueing /\ InOrder /\ Held /\ Settled

LEMMA RequestInvInit == Init => RequestInv
<1> SUFFICES ASSUME Init
             PROVE  RequestInv
  OBVIOUS
<1>1. DOMAIN unsub = {} /\ DOMAIN async = {} /\ DOMAIN notify = {}
  BY DEF Init
<1>2. \A r \in Requests : req[r] = NoRequest /\ token[r] = NoToken
  BY DEF Init
<1>. QED BY <1>1, <1>2 DEF Init, RequestInv, Told, Queueing, InOrder, Ordered, Held, Settled,
                           NoRequest, NoToken

\* What a list's entries are.
LEMMA ListsAre ==
    ASSUME Types
    PROVE  /\ DOMAIN unsub = 1 .. Len(unsub) /\ Len(unsub) \in Nat
           /\ DOMAIN async = 1 .. Len(async) /\ Len(async) \in Nat
           /\ DOMAIN notify = 1 .. Len(notify) /\ Len(notify) \in Nat
           /\ \A k \in DOMAIN unsub : unsub[k] \in Task /\ unsub[k][1] \in Requests
                                      /\ unsub[k][2] \in 1 .. Parts[unsub[k][1]]
           /\ \A k \in DOMAIN async : async[k] \in Entry /\ async[k].task \in Task
                                      /\ async[k].task[1] \in Requests
           /\ \A k \in DOMAIN notify : notify[k] \in Task /\ notify[k][1] \in Requests
<1>1. unsub \in Seq(Task) /\ async \in Seq(Entry) /\ notify \in Seq(Task)
  BY DEF Types
<1>2. /\ DOMAIN unsub = 1 .. Len(unsub) /\ Len(unsub) \in Nat
      /\ DOMAIN async = 1 .. Len(async) /\ Len(async) \in Nat
      /\ DOMAIN notify = 1 .. Len(notify) /\ Len(notify) \in Nat
  BY <1>1, LenProperties
<1>3. /\ \A k \in DOMAIN unsub : unsub[k] \in Task
      /\ \A k \in DOMAIN async : async[k] \in Entry
      /\ \A k \in DOMAIN notify : notify[k] \in Task
  BY <1>1, <1>2, ElementOfSeq
<1>. QED BY <1>2, <1>3, TaskIs DEF Entry

\* The fields of a request.
LEMMA FieldsAre ==
    ASSUME Types, NEW r \in Requests
    PROVE  /\ req[r] \in Shape /\ req[r] \in PartsOf(r)
           /\ req[r].live \in BOOLEAN /\ req[r].last \in BOOLEAN
           /\ req[r].next \in 0 .. Parts[r] /\ req[r].next \in Nat /\ Parts[r] \in Nat \ {0}
           /\ req[r].subs \in SUBSET (1 .. Parts[r])
           /\ DOMAIN req = Requests /\ DOMAIN token = Requests
           /\ token[r] \in TokenType
<1>1. req[r] \in Shape /\ req[r] \in PartsOf(r) /\ Parts[r] \in Nat \ {0}
  BY TaskIs DEF Types, ReqTypes
<1>. QED BY <1>1 DEF Types, ReqTypes, PartsOf, TokenType

\* A request that is not live has no subtask anywhere.
LEMMA FreedHoldsNothing ==
    ASSUME Types, RequestInv, NEW r \in Requests, ~req[r].live
    PROVE  /\ \A k \in DOMAIN unsub : unsub[k][1] # r
           /\ \A k \in DOMAIN async : async[k].task[1] # r
           /\ \A k \in DOMAIN notify : notify[k][1] # r
           /\ req[r].next = 0 /\ req[r].subs = {} /\ req[r].last = FALSE
<1>1. req[r].next = 0 /\ req[r].subs = {} /\ req[r].last = FALSE
  BY NoRequestIs DEF RequestInv, Told
<1>. QED BY <1>1 DEF RequestInv, InOrder, Waits, Held

LEMMA StartReadRequests ==
    ASSUME Types, RequestInv, NEW r \in Requests, StartRead(r)
    PROVE  RequestInv'
<1> USE DEF RequestInv
<1>1. /\ req'[r].live = TRUE /\ req'[r].next = 1 /\ req'[r].subs = {} /\ req'[r].last = FALSE
      /\ \A q \in Requests \ {r} : req'[q] = req[q]
      /\ token'[r].event = "waiting"
      /\ \A q \in Requests \ {r} : token'[q] = token[q]
      /\ UNCHANGED <<tick, unsub, async, notify>>
  BY FieldsAre DEF StartRead, NoRequest
<1>2. /\ ~req[r].live /\ tick = "idle" /\ notify = <<>> /\ caller' = "read"
      /\ \A q \in Requests : req[q].next = 0
  BY FieldsAre DEF StartRead, BelowNotify, Told, Queueing
<1>3. /\ \A k \in DOMAIN unsub : unsub[k][1] \in Requests \ {r}
      /\ \A k \in DOMAIN async : async[k].task[1] \in Requests \ {r}
      /\ DOMAIN notify = {}
  <2>1. DOMAIN notify = {}
    BY <1>2
  <2>. QED BY <2>1, <1>2, FreedHoldsNothing, ListsAre
<1>4. Told'
  BY <1>1 DEF Told
<1>5. Queueing'
  BY <1>1, <1>2 DEF Queueing
<1>6. InOrder'
  BY <1>1, <1>2, <1>3, FieldsAre, ListsAre, SMTT(60) DEF InOrder, Ordered, Waits
<1>7. Held'
  BY <1>1, <1>3 DEF Held
<1>8. Settled'
  BY <1>1, <1>2 DEF Settled
<1>. QED BY <1>4, <1>5, <1>6, <1>7, <1>8

LEMMA QueuePartRequests ==
    ASSUME Types, RequestInv, NEW r \in Requests, QueuePart(r)
    PROVE  RequestInv'
<1> PICK i, n : i = req[r].next /\ n = Len(unsub)
  OBVIOUS
<1> DEFINE t == <<r, i>>
<1> USE DEF RequestInv
<1>1. /\ req[r].next > 0 /\ caller = "read" /\ tick = "idle" /\ notify = <<>>
      /\ t \in Task /\ i \in 1 .. Parts[r] /\ i \in Nat /\ Parts[r] \in Nat
  BY FieldsAre, TaskIs DEF QueuePart, BelowNotify
<1>2. /\ DOMAIN unsub = 1 .. n /\ n \in Nat /\ DOMAIN unsub' = 1 .. n + 1
      /\ \A k \in 1 .. n : unsub'[k] = unsub[k]
      /\ unsub'[n + 1] = t
  <2>1. unsub' = Append(unsub, t) /\ unsub \in Seq(Task)
    BY DEF QueuePart, Types
  <2>. QED BY <2>1, <1>1, AppendIs
<1>3. /\ req'[r].live = req[r].live /\ req'[r].subs = req[r].subs /\ req'[r].last = req[r].last
      /\ req'[r].next = (IF IsLast(t) THEN 0 ELSE i + 1)
      /\ \A q \in Requests \ {r} : req'[q] = req[q]
      /\ UNCHANGED <<tick, async, notify, token>>
      /\ caller' = (IF IsLast(t) THEN "idle" ELSE "read")
  BY <1>1, FieldsAre DEF QueuePart, Shape
<1>4. req[r].live /\ ~req[r].last
  <2>1. req[r].live
    <3>1. req[r].next # 0
      BY <1>1
    <3>. QED BY <3>1, FreedHoldsNothing
  <2>2. ~req[r].last
    BY <1>1 DEF Queueing
  <2>. QED BY <2>1, <2>2
<1>5. \A q \in Requests \ {r} : req[q].next = 0
  BY <1>1, FieldsAre DEF Queueing
<1>6. IsLast(t) <=> i = Parts[r]
  BY DEF IsLast
<1>t. t[1] = r /\ t[2] = i
  OBVIOUS
<1>. HIDE DEF t
<1>7. Told'
  BY <1>3, <1>4 DEF Told
<1>8. Queueing'
  BY <1>3, <1>4, <1>5 DEF Queueing
<1>9. \A k \in 1 .. n : unsub[k][1] \in Requests /\ unsub[k][2] \in Nat
  BY <1>2, ListsAre, TaskIs
<1>10. \A j, k \in 1 .. n : j < k /\ unsub[j][1] = r => unsub[k][1] = r
  BY <1>1, <1>2 DEF InOrder
<1>11. \A k \in 1 .. n : unsub[k][1] = r => unsub[k][2] < i
  BY <1>1, <1>2, <1>9 DEF InOrder, Waits
<1>12. Ordered'
  <2>1. ASSUME NEW j \in 1 .. n + 1, NEW k \in 1 .. n + 1, j < k,
               unsub'[j][1] = unsub'[k][1]
        PROVE  unsub'[j][2] < unsub'[k][2]
    <3>1. CASE k = n + 1
      <4>1. j \in 1 .. n /\ unsub'[j] = unsub[j] /\ unsub'[k] = t
        BY <2>1, <3>1, <1>2
      <4>. QED BY <2>1, <4>1, <1>t, <1>11
    <3>2. CASE k # n + 1
      BY <2>1, <3>2, <1>2 DEF InOrder, Ordered
    <3>. QED BY <3>1, <3>2
  <2>2. ASSUME NEW l \in 1 .. n + 1, NEW j \in 1 .. n + 1, NEW k \in 1 .. n + 1, l < j, j < k,
               unsub'[l][1] = unsub'[k][1]
        PROVE  unsub'[j][1] = unsub'[k][1]
    <3>1. CASE k = n + 1
      BY <2>2, <3>1, <1>2, <1>10, <1>t
    <3>2. CASE k # n + 1
      BY <2>2, <3>2, <1>2, SMTT(60) DEF InOrder, Ordered
    <3>. QED BY <3>1, <3>2
  <2>. QED BY <2>1, <2>2, <1>2 DEF Ordered
<1>13. unsub'[1] = IF n = 0 THEN t ELSE unsub[1]
  BY <1>2
<1>14. req[r].subs # {} => /\ \A j \in req[r].subs : j < i
                           /\ unsub'[1][1] = r
  <2>1. unsub = <<>> => n = 0
    OBVIOUS
  <2>2. unsub # <<>> => n # 0
    BY EmptySeq DEF Types
  <2>3. ASSUME req[r].subs # {}
        PROVE  \A j \in req[r].subs : j < i
    BY <2>3, <1>1 DEF InOrder
  <2>4. ASSUME req[r].subs # {}
        PROVE  unsub'[1][1] = r
    <3>1. CASE n = 0
      BY <3>1, <1>13, <1>t
    <3>2. CASE n # 0
      BY <3>2, <2>1, <2>4, <1>1, <1>13 DEF InOrder
    <3>. QED BY <3>1, <3>2
  <2>. QED BY <2>3, <2>4
<1>15. \A k \in 1 .. n + 1 : Waits(unsub[k][1], unsub[k][2])'
  <2>1. CASE n = 0
    <3>1. ASSUME NEW k \in 1 .. n + 1
          PROVE  Waits(unsub[k][1], unsub[k][2])'
      <4>1. k = 1 /\ unsub'[k] = t
        BY <2>1, <1>2
      <4>. QED BY <4>1, <1>t, <1>1, <1>3, <1>4, <1>6, <1>14 DEF Waits
    <3>. QED BY <3>1
  <2>2. ASSUME n # 0, NEW k \in 1 .. n
        PROVE  Waits(unsub[k][1], unsub[k][2])'
    <3>1. Waits(unsub[k][1], unsub[k][2]) /\ unsub'[1] = unsub[1] /\ unsub'[k] = unsub[k]
      BY <2>2, <1>2, <1>13 DEF InOrder
    <3>2. unsub[k][1] \in Requests /\ unsub[k][2] \in Nat
      BY <1>9, <2>2
    <3>3. CASE unsub[k][1] # r
      BY <3>1, <3>2, <3>3, <1>3 DEF Waits
    <3>4. CASE unsub[k][1] = r
      BY <3>1, <3>2, <3>4, <1>1, <1>3, <1>11, <2>2 DEF Waits
    <3>. QED BY <3>3, <3>4
  <2>3. CASE n # 0
    <3>1. ASSUME NEW k \in 1 .. n + 1, k = n + 1
          PROVE  Waits(unsub[k][1], unsub[k][2])'
      <4>1. unsub'[k] = t
        BY <3>1, <1>2
      <4>. QED BY <4>1, <1>t, <1>1, <1>3, <1>4, <1>6, <1>14 DEF Waits
    <3>. QED BY <2>2, <2>3, <3>1, <1>2
  <2>. QED BY <2>1, <2>3
<1>16. InOrder'
  <2>1. ASSUME NEW j \in 1 .. n + 1, NEW k \in 1 .. n + 1, j < k, req'[unsub'[j][1]].next > 0
        PROVE  unsub'[k][1] = unsub'[j][1]
    <3>1. j \in 1 .. n /\ unsub'[j] = unsub[j] /\ unsub[j][1] = r
      BY <2>1, <1>2, <1>3, <1>5, <1>9
    <3>. QED BY <2>1, <3>1, <1>2, <1>10, <1>t
  <2>2. ASSUME NEW q \in Requests, req'[q].next > 0, req'[q].subs # {}
        PROVE  /\ \A j \in req'[q].subs : j < req'[q].next
               /\ unsub'[1][1] = q
    <3>1. q = r
      BY <2>2, <1>3, <1>5
    <3>. QED BY <2>2, <3>1, <1>1, <1>3, <1>14, FieldsAre
  <2>. QED BY <2>1, <2>2, <1>2, <1>12, <1>15 DEF InOrder
<1>17. Held'
  BY <1>3, ListsAre DEF Held
<1>18. Settled'
  BY <1>1, <1>3 DEF Settled
<1>. QED BY <1>7, <1>8, <1>16, <1>17, <1>18

\* With the first subtask gone the others are still in order, whether its request has
\* it, lost it or was freed.
LEMMA HeadLeaves ==
    ASSUME Types, RequestInv, unsub # <<>>, unsub' = Tail(unsub),
           NEW r \in Requests, NEW i \in Nat, unsub[1] = <<r, i>>,
           \A q \in Requests \ {r} : req'[q] = req[q] /\ token'[q] = token[q],
           req'[r].next \in {0, req[r].next},
           req'[r].subs \subseteq req[r].subs \cup {i},
           (\E k \in DOMAIN unsub' : unsub'[k][1] = r) =>
               /\ req'[r].live
               /\ req'[r].last => token'[r].status # "success"
    PROVE  /\ InOrder'
           /\ \A k \in DOMAIN unsub' : unsub'[k][1] = r => i < unsub'[k][2]
<1> PICK n \in Nat \ {0} : n = Len(unsub)
  BY EmptySeq DEF Types
<1>1. /\ DOMAIN unsub = 1 .. n /\ DOMAIN unsub' = 1 .. n - 1
      /\ \A k \in 1 .. n - 1 : k + 1 \in 1 .. n /\ unsub'[k] = unsub[k + 1]
  BY TailIs DEF Types
<1>2. \A k \in 1 .. n : unsub[k][1] \in Requests /\ unsub[k][2] \in Nat
  BY <1>1, ListsAre, TaskIs
<1>3. unsub[1][1] = r /\ unsub[1][2] = i
  OBVIOUS
<1>4. /\ \A j, k \in 1 .. n : j < k /\ unsub[j][1] = unsub[k][1] => unsub[j][2] < unsub[k][2]
      /\ \A l, j, k \in 1 .. n :
            l < j /\ j < k /\ unsub[l][1] = unsub[k][1] => unsub[j][1] = unsub[k][1]
      /\ \A j, k \in 1 .. n :
            j < k /\ req[unsub[j][1]].next > 0 => unsub[k][1] = unsub[j][1]
      /\ \A k \in 1 .. n : Waits(unsub[k][1], unsub[k][2])
  <2>1. Ordered /\ DOMAIN unsub = 1 .. n
    BY <1>1 DEF RequestInv, InOrder
  <2>2. /\ \A j, k \in 1 .. n : j < k /\ unsub[j][1] = unsub[k][1] => unsub[j][2] < unsub[k][2]
        /\ \A l, j, k \in 1 .. n :
              l < j /\ j < k /\ unsub[l][1] = unsub[k][1] => unsub[j][1] = unsub[k][1]
    <3>1. ASSUME NEW j \in 1 .. n, NEW k \in 1 .. n, j < k,
                 unsub[j][1] = unsub[k][1]
          PROVE  unsub[j][2] < unsub[k][2]
      BY <2>1, <3>1 DEF Ordered
    <3>2. ASSUME NEW l \in 1 .. n, NEW j \in 1 .. n, NEW k \in 1 .. n,
                 l < j, j < k, unsub[l][1] = unsub[k][1]
          PROVE  unsub[j][1] = unsub[k][1]
      BY <2>1, <3>2 DEF Ordered
    <3>. QED BY <3>1, <3>2
  <2>3. /\ \A j, k \in 1 .. n :
              j < k /\ req[unsub[j][1]].next > 0 => unsub[k][1] = unsub[j][1]
        /\ \A k \in 1 .. n : Waits(unsub[k][1], unsub[k][2])
    BY <2>1, ZenonT(60) DEF RequestInv, InOrder
  <2>. QED BY <2>2, <2>3
<1>5. Ordered'
  <2>1. ASSUME NEW j \in DOMAIN unsub', NEW k \in DOMAIN unsub', j < k,
               unsub'[j][1] = unsub'[k][1]
        PROVE  unsub'[j][2] < unsub'[k][2]
    <3>1. j \in 1 .. n - 1 /\ k \in 1 .. n - 1
      BY <1>1
    <3>. QED BY <3>1, <2>1, <1>1, <1>4
  <2>2. ASSUME NEW l \in DOMAIN unsub', NEW j \in DOMAIN unsub', NEW k \in DOMAIN unsub',
               l < j, j < k, unsub'[l][1] = unsub'[k][1]
        PROVE  unsub'[j][1] = unsub'[k][1]
    <3>1. l \in 1 .. n - 1 /\ j \in 1 .. n - 1 /\ k \in 1 .. n - 1
      BY <1>1
    <3>. QED BY <3>1, <2>2, <1>1, <1>4
  <2>. QED BY ONLY <2>1, <2>2 DEF Ordered
<1>6. \A k \in 1 .. n - 1 : unsub'[k][1] = r => i < unsub'[k][2]
  BY <1>1, <1>3, <1>4
<1>7. \A k \in 1 .. n - 1 : unsub'[k][1] = r => unsub'[1][1] = r
  <2>1. ASSUME NEW k \in 1 .. n - 1, unsub'[k][1] = r
        PROVE  unsub[2][1] = r
    <3>1. CASE k = 1
      BY <3>1, <2>1, <1>1
    <3>2. CASE k # 1
      <4>1. 1 \in 1 .. n /\ 2 \in 1 .. n /\ k + 1 \in 1 .. n /\ 1 < 2 /\ 2 < k + 1
        BY <3>2
      <4>. QED BY <4>1, <2>1, <1>1, <1>3, <1>4
    <3>. QED BY <3>1, <3>2
  <2>2. ASSUME NEW k \in 1 .. n - 1
        PROVE  unsub'[1] = unsub[2]
    BY <1>1
  <2>. QED BY <2>1, <2>2
<1>8. \A q \in Requests : req'[q].next > 0 => req'[q].next = req[q].next
  OBVIOUS
<1>9. ASSUME NEW k \in 1 .. n - 1
      PROVE  Waits(unsub[k][1], unsub[k][2])'
  <2>1. /\ k + 1 \in 1 .. n /\ unsub'[k] = unsub[k + 1] /\ Waits(unsub[k + 1][1], unsub[k + 1][2])
        /\ unsub[k + 1][1] \in Requests /\ unsub[k + 1][2] \in Nat
    BY <1>1, <1>2, <1>4
  <2>2. CASE unsub[k + 1][1] # r
    <3>1. req[unsub[k + 1][1]].subs = {}
      BY <2>1, <2>2, <1>3 DEF Waits
    <3>. QED BY <2>1, <2>2, <3>1 DEF Waits
  <2>3. CASE unsub[k + 1][1] = r
    <3>1. unsub'[1][1] = r /\ i < unsub[k + 1][2]
      BY <2>1, <2>3, <1>6, <1>7
    <3>2. /\ req'[r].live
          /\ req'[r].last => token'[r].status # "success"
      BY <2>1, <2>3, <1>1
    <3>3. req'[r].next > 0 => unsub[k + 1][2] < req'[r].next
      BY <2>1, <2>3, <1>8 DEF Waits
    <3>4. \A j \in req'[r].subs : j < unsub[k + 1][2]
      BY <2>1, <2>3, <3>1 DEF Waits
    <3>. QED BY <2>1, <2>3, <3>1, <3>2, <3>3, <3>4 DEF Waits
  <2>. QED BY <2>2, <2>3
<1>10. ASSUME NEW j \in 1 .. n - 1, NEW k \in 1 .. n - 1, j < k, req'[unsub'[j][1]].next > 0
       PROVE  unsub'[k][1] = unsub'[j][1]
  <2>1. /\ j + 1 \in 1 .. n /\ k + 1 \in 1 .. n /\ j + 1 < k + 1
        /\ unsub'[j] = unsub[j + 1] /\ unsub'[k] = unsub[k + 1]
    BY <1>1, <1>10
  <2>2. req[unsub[j + 1][1]].next > 0
    BY <2>1, <1>2, <1>8, <1>10
  <2>. QED BY <2>1, <2>2, <1>4
<1>11. ASSUME NEW q \in Requests, req'[q].next > 0, req'[q].subs # {}
       PROVE  /\ \A j \in req'[q].subs : j < req'[q].next
              /\ unsub' # <<>> => unsub'[1][1] = q
  <2>1. CASE q = r
    <3>1. req[r].next > 0 /\ req'[r].next = req[r].next
      BY <2>1, <1>8, <1>11
    <3>2. i < req[r].next /\ \A j \in req[r].subs : j < req[r].next
      BY <3>1, <1>3, <1>4, FieldsAre DEF Waits, RequestInv, InOrder
    <3>3. \A k \in 1 .. n - 1 : unsub'[k][1] = r
      BY <3>1, <1>1, <1>3, <1>4
    <3>4. unsub' # <<>> => 1 \in 1 .. n - 1
      BY <1>1, TailIs, EmptySeq DEF Types
    <3>. QED BY <2>1, <3>1, <3>2, <3>3, <3>4
  <2>2. CASE q # r
    BY <2>2, <1>3, <1>11 DEF RequestInv, InOrder
  <2>. QED BY <2>1, <2>2
<1>. QED BY <1>1, <1>5, <1>6, <1>9, <1>10, <1>11, ZenonT(60) DEF InOrder

\* The first waiting subtask, and what the invariant says of it.
LEMMA HeadIs ==
    ASSUME Types, RequestInv, unsub # <<>>
    PROVE  LET t == Head(unsub)
               r == t[1]
           IN  /\ t = unsub[1] /\ t \in Task /\ r \in Requests
               /\ t[2] \in 1 .. Parts[r] /\ t[2] \in Nat /\ t = <<r, t[2]>>
               /\ 1 \in DOMAIN unsub /\ Waits(r, t[2]) /\ req[r].live
               /\ Tail(unsub) \in Seq(Task)
               /\ \A k \in DOMAIN Tail(unsub) : Tail(unsub)[k][1] = r => t[2] < Parts[r]
<1> PICK n \in Nat \ {0} : n = Len(unsub)
  BY EmptySeq DEF Types
<1> PICK t : t = Head(unsub)
  OBVIOUS
<1>1. /\ DOMAIN unsub = 1 .. n /\ DOMAIN Tail(unsub) = 1 .. n - 1 /\ t = unsub[1]
      /\ Tail(unsub) \in Seq(Task)
      /\ \A k \in 1 .. n - 1 : k + 1 \in 1 .. n /\ Tail(unsub)[k] = unsub[k + 1]
  BY TailIs DEF Types
<1>2. 1 \in DOMAIN unsub /\ t \in Task /\ t[1] \in Requests
  BY <1>1, ListsAre
<1>3. /\ t[2] \in 1 .. Parts[t[1]] /\ t[2] \in Nat /\ Parts[t[1]] \in Nat
      /\ t = <<t[1], t[2]>>
  BY <1>2, TaskIs
<1>4. Waits(t[1], t[2])
  BY <1>1, <1>2 DEF RequestInv, InOrder
<1>5. req[t[1]].live
  BY <1>4 DEF Waits
<1>6. ASSUME NEW k \in 1 .. n - 1, Tail(unsub)[k][1] = t[1]
      PROVE  t[2] < Parts[t[1]]
  <2>1. /\ 1 \in DOMAIN unsub /\ k + 1 \in DOMAIN unsub /\ 1 < k + 1
        /\ unsub[k + 1][1] = unsub[1][1]
    BY <1>1, <1>2, <1>6
  <2>2. unsub[1][2] < unsub[k + 1][2]
    BY <2>1 DEF RequestInv, InOrder, Ordered
  <2>3. unsub[k + 1][2] \in 1 .. Parts[t[1]]
    BY <2>1, <1>1, ListsAre
  <2>. QED BY <2>2, <2>3, <1>1, <1>3
<1>. QED BY <1>1, <1>2, <1>3, <1>4, <1>5, <1>6

LEMMA QueuePartFailsRequests ==
    ASSUME Types, RequestInv, NEW r \in Requests, QueuePartFails(r)
    PROVE  RequestInv'
<1>1. /\ req[r].next > 0 /\ caller = "read" /\ caller' = "idle" /\ tick = "idle"
      /\ notify = <<>> /\ UNCHANGED <<tick, unsub, async, notify>>
  BY DEF QueuePartFails, BelowNotify
<1>2. req[r].live /\ ~req[r].last /\ \A q \in Requests \ {r} : req[q].next = 0
  <2>1. req[r].next # 0
    BY <1>1
  <2>2. req[r].live
    BY <2>1, FreedHoldsNothing
  <2>3. ~req[r].last
    BY <1>1 DEF RequestInv, Queueing
  <2>4. \A q \in Requests \ {r} : req[q].next = 0
    BY <1>1, FieldsAre DEF RequestInv, Queueing
  <2>. QED BY <2>2, <2>3, <2>4
<1>3. CASE req[r].subs = {} /\ Unsubmitted(unsub, r) = 0
  <2>1. /\ req'[r] = NoRequest /\ \A q \in Requests \ {r} : req'[q] = req[q]
        /\ token'[r].event = "idle" /\ \A q \in Requests \ {r} : token'[q] = token[q]
    BY <1>3, FieldsAre DEF QueuePartFails, TokenType
  <2>2. \A k \in DOMAIN unsub : unsub[k][1] \in Requests \ {r}
    BY <1>3, UnsubmittedIs, ListsAre DEF Types
  <2>3. /\ \A k \in DOMAIN async : async[k].task[1] \in Requests \ {r}
        /\ \A k \in DOMAIN notify : notify[k][1] \in Requests \ {r}
    BY <1>3, ListsAre DEF RequestInv, Held
  <2>4. Told'
    BY <2>1, NoRequestIs DEF RequestInv, Told
  <2>0. \A q \in Requests : req'[q].next = 0
    BY <2>1, <1>2 DEF NoRequest
  <2>5. Queueing'
    BY <2>0 DEF Queueing
  <2>6. InOrder'
    <3>1. \A q \in Requests : ~(req'[q].next > 0)
      BY <2>0
    <3>2. \A k \in DOMAIN unsub : Waits(unsub[k][1], unsub[k][2])'
      BY <2>1, <2>2, <1>1 DEF RequestInv, InOrder, Waits
    <3>3. Ordered'
      BY <1>1 DEF RequestInv, InOrder, Ordered
    <3>. QED BY <1>1, <2>2, <3>1, <3>2, <3>3 DEF InOrder
  <2>7. Held'
    BY <2>1, <2>3, <1>1 DEF RequestInv, Held
  <2>8. Settled'
    BY <1>1 DEF RequestInv, Settled
  <2>. QED BY <2>4, <2>5, <2>6, <2>7, <2>8 DEF RequestInv
<1>4. CASE ~(req[r].subs = {} /\ Unsubmitted(unsub, r) = 0)
  <2>1. /\ req'[r].live = req[r].live /\ req'[r].next = 0 /\ req'[r].subs = req[r].subs
        /\ req'[r].last = TRUE /\ \A q \in Requests \ {r} : req'[q] = req[q]
        /\ token'[r].event = token[r].event /\ token'[r].status = "device_error"
        /\ \A q \in Requests \ {r} : token'[q] = token[q]
    BY <1>4, FieldsAre DEF QueuePartFails, TokenType, Shape
  <2>2. Told'
    BY <2>1, <1>2 DEF RequestInv, Told
  <2>3. Queueing'
    BY <2>1, <1>2 DEF Queueing
  <2>4. InOrder'
    <3>1. \A q \in Requests : ~(req'[q].next > 0)
      BY <2>1, <1>2
    <3>2. ASSUME NEW k \in DOMAIN unsub
          PROVE  Waits(unsub[k][1], unsub[k][2])'
      <4>1. Waits(unsub[k][1], unsub[k][2]) /\ unsub[k][1] \in Requests
        BY ListsAre DEF RequestInv, InOrder
      <4>2. CASE unsub[k][1] = r
        BY <4>1, <4>2, <2>1, <1>1 DEF Waits
      <4>3. CASE unsub[k][1] # r
        BY <4>1, <4>3, <2>1, <1>1 DEF Waits
      <4>. QED BY <4>2, <4>3
    <3>3. Ordered'
      BY <1>1 DEF RequestInv, InOrder, Ordered
    <3>4. \A k \in DOMAIN unsub : unsub[k][1] \in Requests
      BY ListsAre
    <3>. QED BY <1>1, <3>1, <3>2, <3>3, <3>4 DEF InOrder
  <2>5. Held'
    BY <2>1, <1>1, ListsAre DEF RequestInv, Held
  <2>6. Settled'
    BY <1>1 DEF RequestInv, Settled
  <2>. QED BY <2>2, <2>3, <2>4, <2>5, <2>6 DEF RequestInv
<1>. QED BY <1>3, <1>4

\* A request is freed and its token's event signalled.
LEMMA FreedRequests ==
    ASSUME Types, RequestInv, NEW r \in Requests,
           req' = [req EXCEPT ![r] = NoRequest],
           token'[r].event = "signalled", \A q \in Requests \ {r} : token'[q] = token[q],
           caller' = caller
    PROVE  /\ Told' /\ Queueing'
           /\ req'[r].next = 0 /\ req'[r].subs = {} /\ ~req'[r].live /\ ~req'[r].last
           /\ \A q \in Requests \ {r} : req'[q] = req[q]
<1>1. req'[r] = NoRequest /\ \A q \in Requests \ {r} : req'[q] = req[q]
  BY FieldsAre
<1>2. Told'
  BY <1>1, NoRequestIs, ZenonT(60) DEF RequestInv, Told
<1>3. Queueing'
  <2>1. ~(req'[r].next > 0)
    BY <1>1 DEF NoRequest
  <2>. QED BY <2>1, <1>1 DEF RequestInv, Queueing
<1>. QED BY <1>1, <1>2, <1>3, NoRequestIs

LEMMA DiscardRequests ==
    ASSUME Types, RequestInv, Discard
    PROVE  RequestInv'
<1> PICK r, i : r = Head(unsub)[1] /\ i = Head(unsub)[2]
  OBVIOUS
<1>1. /\ unsub # <<>> /\ unsub' = Tail(unsub) /\ token[r].status # "success"
      /\ tick = "submit" /\ UNCHANGED <<caller, tick, async, notify>>
      /\ IF /\ req[r].subs = {} /\ req[r].last /\ Unsubmitted(Tail(unsub), r) = 0
           THEN Finished(r) ELSE UNCHANGED <<req, token>>
  BY DEF Discard
<1>2. /\ r \in Requests /\ i \in Nat /\ unsub[1] = <<r, i>> /\ Waits(r, i) /\ req[r].live
      /\ Tail(unsub) \in Seq(Task)
  BY <1>1, HeadIs
<1>3. notify = <<>> /\ Settled'
  BY <1>1 DEF RequestInv, Settled
<1>4. CASE UNCHANGED <<req, token>>
  <2>1. InOrder'
    BY <1>1, <1>2, <1>4, HeadLeaves
  <2>. QED BY <1>1, <1>3, <1>4, <2>1 DEF RequestInv, Told, Queueing, Held
<1>5. CASE Finished(r) /\ req[r].subs = {} /\ req[r].last /\ Unsubmitted(Tail(unsub), r) = 0
  <2>1. /\ \A k \in DOMAIN unsub' : unsub'[k][1] # r
    BY <1>1, <1>2, <1>5, UnsubmittedIs, ZenonT(60)
  <2>2. /\ \A k \in DOMAIN async' : async'[k].task[1] \in Requests \ {r}
        /\ \A k \in DOMAIN notify' : notify'[k][1] \in Requests \ {r}
    BY <1>1, <1>5, ListsAre DEF RequestInv, Held
  <2>3. /\ req' = [req EXCEPT ![r] = NoRequest] /\ token'[r].event = "signalled"
        /\ \A q \in Requests \ {r} : token'[q] = token[q]
    BY <1>2, <1>5, FieldsAre DEF Finished, TokenType
  <2>4. /\ Told' /\ Queueing'
        /\ req'[r].next = 0 /\ req'[r].subs = {}
        /\ \A q \in Requests \ {r} : req'[q] = req[q]
    BY <1>1, <1>2, <2>3, FreedRequests
  <2>5. InOrder'
    BY <1>1, <1>2, <2>1, <2>3, <2>4, HeadLeaves
  <2>6. Held'
    BY <1>1, <2>2, <2>4 DEF RequestInv, Held
  <2>. QED BY <1>3, <2>4, <2>5, <2>6 DEF RequestInv
<1>. QED BY <1>1, <1>4, <1>5

LEMMA SubmitRequests ==
    ASSUME Types, RequestInv, Submit
    PROVE  RequestInv'
<1> PICK r, i : r = Head(unsub)[1] /\ i = Head(unsub)[2]
  OBVIOUS
<1> PICK t : t = Head(unsub)
  OBVIOUS
<1>1. /\ unsub # <<>> /\ unsub' = Tail(unsub) /\ token[r].status = "success"
      /\ tick = "submit" /\ UNCHANGED <<caller, tick, notify, token>>
      /\ async' = Append(async, [cid |-> host.cid, task |-> t])
      /\ req' = [req EXCEPT ![r].subs = @ \cup {i}, ![r].last = @ \/ IsLast(t)]
  BY DEF Submit
<1>2. /\ r \in Requests /\ i \in Nat /\ i \in 1 .. Parts[r] /\ unsub[1] = <<r, i>>
      /\ Waits(r, i) /\ req[r].live /\ t \in Task /\ t = <<r, i>>
      /\ \A k \in DOMAIN unsub' : unsub'[k][1] = r => i < Parts[r]
  BY <1>1, HeadIs
<1>3. notify = <<>> /\ Settled'
  BY <1>1 DEF RequestInv, Settled
<1>4. ~req[r].last
  BY <1>1, <1>2 DEF Waits
<1>5. /\ req'[r].live = req[r].live /\ req'[r].next = req[r].next
      /\ req'[r].subs = req[r].subs \cup {i} /\ req'[r].last = IsLast(t)
      /\ \A q \in Requests \ {r} : req'[q] = req[q]
  <2>1. IsLast(t) \in BOOLEAN
    BY DEF IsLast
  <2>2. req[r].last = FALSE /\ req[r] \in Shape /\ DOMAIN req = Requests
    BY <1>2, <1>4, FieldsAre
  <2>3. req' = [req EXCEPT ![r] = [req[r] EXCEPT !.subs = req[r].subs \cup {i}, !.last = IsLast(t)]]
    BY <1>1, <1>2, <2>1, <2>2, ZenonT(60) DEF Shape
  <2>. QED BY <1>2, <2>1, <2>2, <2>3 DEF Shape
<1>6. IsLast(t) <=> i = Parts[r]
  BY <1>2 DEF IsLast
<1>7. Parts[r] \in Nat /\ req[r].next \in 0 .. Parts[r]
  BY <1>2, FieldsAre
<1>8. Told'
  BY <1>1, <1>2, <1>5, ZenonT(60) DEF RequestInv, Told
<1>9. Queueing'
  <2>1. req[r].next > 0 => i < Parts[r] /\ caller = "read"
    BY <1>2, <1>7 DEF Waits, RequestInv, Queueing
  <2>2. ASSUME NEW q \in Requests, req'[q].next > 0
        PROVE  req[q].next > 0 /\ caller' = "read" /\ ~req'[q].last
    <3>1. req[q].next > 0
      BY <1>5, <2>2
    <3>2. CASE q = r
      <4>1. i < Parts[r] /\ caller = "read"
        BY <2>1, <3>1, <3>2
      <4>2. ~IsLast(t)
        BY <4>1, <1>2, <1>6, <1>7
      <4>. QED BY <4>1, <4>2, <3>1, <3>2, <1>1, <1>5
    <3>3. CASE q # r
      BY <3>1, <3>3, <1>1, <1>5 DEF RequestInv, Queueing
    <3>. QED BY <3>1, <3>2, <3>3
  <2>. QED BY <2>2 DEF RequestInv, Queueing
<1>10. InOrder'
  <2>1. (\E k \in DOMAIN unsub' : unsub'[k][1] = r) =>
            req'[r].live /\ (req'[r].last => token'[r].status # "success")
    BY <1>2, <1>5, <1>6, <1>7
  <2>2. /\ req'[r].next \in {0, req[r].next}
        /\ req'[r].subs \subseteq req[r].subs \cup {i}
        /\ \A q \in Requests \ {r} : req'[q] = req[q] /\ token'[q] = token[q]
    BY <1>1, <1>5
  <2>. QED BY <2>1, <2>2, <1>1, <1>2, HeadLeaves
<1>11. Held'
  <2> PICK m : m = Len(async)
    OBVIOUS
  <2>1. [cid |-> host.cid, task |-> t] \in Entry
    BY <1>2, FilledTypes
  <2>2. /\ m \in Nat /\ DOMAIN async = 1 .. m /\ DOMAIN async' = 1 .. m + 1
        /\ \A k \in 1 .. m : async'[k] = async[k]
        /\ async'[m + 1].task = t
    BY <1>1, <2>1, AppendIs DEF Types
  <2>3. \A k \in 1 .. m : /\ async[k].task \in Task /\ async[k].task[1] \in Requests
                          /\ async[k].task[2] \in req[async[k].task[1]].subs
    BY <2>2, ListsAre DEF RequestInv, Held
  <2>4. \A k \in 1 .. m : async[k].task # t
    BY <1>2, <2>3 DEF Waits
  <2>5. \A k \in 1 .. m + 1 : async'[k].task[2] \in req'[async'[k].task[1]].subs
    BY <1>2, <1>5, <2>2, <2>3
  <2>6. \A j, k \in 1 .. m + 1 : async'[j].task = async'[k].task => j = k
    BY <2>2, <2>4 DEF RequestInv, Held
  <2>7. DOMAIN notify' = {}
    BY <1>1, <1>3
  <2>. QED BY <2>2, <2>5, <2>6, <2>7 DEF Held
<1>. QED BY <1>3, <1>8, <1>9, <1>10, <1>11 DEF RequestInv

LEMMA SubmitFailsRequests ==
    ASSUME Types, RequestInv, NEW why \in {"map", "memory"}, SubmitFails(why)
    PROVE  RequestInv'
<1> PICK r, i : r = Head(unsub)[1] /\ i = Head(unsub)[2]
  OBVIOUS
<1> PICK t : t = Head(unsub)
  OBVIOUS
<1>1. /\ unsub # <<>> /\ unsub' = Tail(unsub)
      /\ tick = "submit" /\ UNCHANGED <<caller, tick, async, notify>>
      /\ IF req[r].subs = {} /\ IsLast(t)
           THEN /\ req' = [req EXCEPT ![r] = NoRequest]
                /\ token' = [token EXCEPT ![r] = [event |-> "signalled",
                                                  status |-> "device_error"]]
           ELSE /\ token' = [token EXCEPT ![r].status = "device_error"]
                /\ UNCHANGED req
  BY DEF SubmitFails
<1>2. /\ r \in Requests /\ i \in Nat /\ i \in 1 .. Parts[r] /\ unsub[1] = <<r, i>>
      /\ Waits(r, i) /\ req[r].live /\ t = <<r, i>>
      /\ \A k \in DOMAIN unsub' : unsub'[k][1] = r => i < Parts[r]
  BY <1>1, HeadIs
<1>3. notify = <<>> /\ Settled'
  BY <1>1 DEF RequestInv, Settled
<1>4. CASE /\ UNCHANGED req
           /\ token' = [token EXCEPT ![r].status = "device_error"]
  <2>1. /\ token'[r].event = token[r].event /\ token'[r].status = "device_error"
        /\ \A q \in Requests \ {r} : token'[q] = token[q]
    BY <1>2, <1>4, FieldsAre DEF TokenType
  <2>2. InOrder'
    BY <1>1, <1>2, <1>4, <2>1, HeadLeaves
  <2>3. Told'
    BY <1>2, <1>4, <2>1 DEF RequestInv, Told
  <2>. QED BY <1>1, <1>3, <1>4, <2>2, <2>3 DEF RequestInv, Queueing, Held
<1>5. CASE /\ req[r].subs = {} /\ IsLast(t)
           /\ req' = [req EXCEPT ![r] = NoRequest]
           /\ token' = [token EXCEPT ![r] = [event |-> "signalled", status |-> "device_error"]]
  <2>1. \A k \in DOMAIN unsub' : unsub'[k][1] # r
    <3>1. i = Parts[r]
      BY <1>2, <1>5 DEF IsLast
    <3>. QED BY <3>1, <1>2
  <2>2. /\ \A k \in DOMAIN async' : async'[k].task[1] \in Requests \ {r}
        /\ \A k \in DOMAIN notify' : notify'[k][1] \in Requests \ {r}
    BY <1>1, <1>5, ListsAre DEF RequestInv, Held
  <2>3. /\ req' = [req EXCEPT ![r] = NoRequest] /\ token'[r].event = "signalled"
        /\ \A q \in Requests \ {r} : token'[q] = token[q]
    BY <1>2, <1>5, FieldsAre
  <2>4. /\ Told' /\ Queueing'
        /\ req'[r].next = 0 /\ req'[r].subs = {}
        /\ \A q \in Requests \ {r} : req'[q] = req[q]
    BY <1>1, <1>2, <2>3, FreedRequests
  <2>5. InOrder'
    BY <1>1, <1>2, <2>1, <2>3, <2>4, HeadLeaves
  <2>6. Held'
    BY <1>1, <2>2, <2>4 DEF RequestInv, Held
  <2>. QED BY <1>3, <2>4, <2>5, <2>6 DEF RequestInv
<1>. QED BY <1>1, <1>4, <1>5

LEMMA CallbackRequests ==
    ASSUME Types, RequestInv, Callback
    PROVE  RequestInv'
<1> PICK t : t = Head(notify)
  OBVIOUS
<1> PICK r, i : r = t[1] /\ i = t[2]
  OBVIOUS
<1> PICK left : left = req[r].subs \ {i}
  OBVIOUS
<1> PICK verdict : verdict = IF token[r].status = "success" /\ t \in failed
                               THEN "device_error" ELSE token[r].status
  OBVIOUS
<1>1. /\ notify # <<>> /\ notify' = Tail(notify) /\ tick = "idle"
      /\ UNCHANGED <<caller, tick, unsub, async>>
      /\ IF left = {} /\ req[r].last
           THEN /\ req' = [req EXCEPT ![r] = NoRequest]
                /\ token' = [token EXCEPT ![r] = [event |-> "signalled", status |-> verdict]]
           ELSE /\ req' = [req EXCEPT ![r].subs = left]
                /\ token' = [token EXCEPT ![r].status = verdict]
  BY DEF Callback
<1> PICK n \in Nat \ {0} : n = Len(notify)
  BY <1>1, EmptySeq DEF Types
<1>2. /\ DOMAIN notify = 1 .. n /\ DOMAIN notify' = 1 .. n - 1 /\ t = notify[1]
      /\ \A k \in 1 .. n - 1 : k + 1 \in 1 .. n /\ notify'[k] = notify[k + 1]
  BY <1>1, TailIs DEF Types
<1>3. 1 \in DOMAIN notify /\ t \in Task /\ r \in Requests /\ t = <<r, i>> /\ i \in Nat
  <2>1. 1 \in DOMAIN notify /\ t \in Task
    BY <1>2, ListsAre
  <2>. QED BY <2>1, TaskIs
<1>4. i \in req[r].subs
  BY <1>2, <1>3 DEF RequestInv, Held
<1>5. req[r].last => \A k \in DOMAIN unsub : unsub[k][1] # r
  BY <1>1, <1>4 DEF RequestInv, Settled
<1>6. /\ \A k \in DOMAIN async : async[k].task # t
      /\ \A k \in 1 .. n - 1 : notify'[k] # t
  BY <1>2, <1>3, SMTT(60) DEF RequestInv, Held
<1>7. /\ \A k \in DOMAIN async :
            /\ async[k].task \in Task /\ async[k].task[1] \in Requests
            /\ async[k].task[2] \in req[async[k].task[1]].subs
            /\ async[k].task = <<async[k].task[1], async[k].task[2]>>
      /\ \A k \in 1 .. n - 1 :
            /\ notify'[k] \in Task /\ notify'[k][1] \in Requests
            /\ notify'[k][2] \in req[notify'[k][1]].subs
            /\ notify'[k] = <<notify'[k][1], notify'[k][2]>>
  BY <1>2, ListsAre, TaskIs DEF RequestInv, Held
<1>8. /\ \A k \in DOMAIN async : async[k].task[1] = r => async[k].task[2] \in left
      /\ \A k \in 1 .. n - 1 : notify'[k][1] = r => notify'[k][2] \in left
  BY <1>3, <1>6, <1>7
<1>9. /\ \A j, k \in DOMAIN async : async[j].task = async[k].task => j = k
      /\ \A j, k \in 1 .. n - 1 : notify'[j] = notify'[k] => j = k
      /\ \A j \in 1 .. n - 1, k \in DOMAIN async : notify'[j] # async[k].task
  <2>1. \A j, k \in 1 .. n - 1 : notify'[j] = notify'[k] => j + 1 = k + 1
    BY <1>2 DEF RequestInv, Held
  <2>. QED BY <2>1, <1>2 DEF RequestInv, Held
<1>10. CASE /\ left = {} /\ req[r].last
            /\ req' = [req EXCEPT ![r] = NoRequest]
            /\ token' = [token EXCEPT ![r] = [event |-> "signalled", status |-> verdict]]
  <2>1. /\ \A k \in DOMAIN async' : async'[k].task[1] \in Requests \ {r}
        /\ \A k \in DOMAIN notify' : notify'[k][1] \in Requests \ {r}
        /\ \A k \in DOMAIN unsub : unsub[k][1] \in Requests \ {r}
    BY <1>1, <1>2, <1>5, <1>7, <1>8, <1>10, ListsAre
  <2>2. /\ token'[r].event = "signalled" /\ \A q \in Requests \ {r} : token'[q] = token[q]
    BY <1>3, <1>10, FieldsAre
  <2>3. /\ Told' /\ Queueing'
        /\ req'[r].next = 0 /\ req'[r].subs = {}
        /\ \A q \in Requests \ {r} : req'[q] = req[q]
    BY <1>1, <1>3, <1>10, <2>2, FreedRequests
  <2>4. InOrder'
    <3>1. Ordered'
      BY <1>1 DEF RequestInv, InOrder, Ordered
    <3>2. ASSUME NEW k \in DOMAIN unsub
          PROVE  Waits(unsub[k][1], unsub[k][2])'
      BY <1>1, <2>1, <2>2, <2>3, SMTT(60) DEF RequestInv, InOrder, Waits
    <3>3. ASSUME NEW q \in Requests, req'[q].next > 0
          PROVE  q # r /\ req'[q] = req[q]
      BY <2>3, <3>3
    <3>. QED BY <1>1, <2>1, <3>1, <3>2, <3>3 DEF RequestInv, InOrder
  <2>5. Held'
    BY <1>1, <1>2, <1>7, <1>9, <2>1, <2>3 DEF Held
  <2>6. Settled'
    BY <1>1, <2>1, <2>3, ZenonT(60) DEF RequestInv, Settled
  <2>. QED BY <2>3, <2>4, <2>5, <2>6 DEF RequestInv
<1>11. CASE /\ req' = [req EXCEPT ![r].subs = left]
            /\ token' = [token EXCEPT ![r].status = verdict]
  <2>1. /\ req'[r].live = req[r].live /\ req'[r].next = req[r].next
        /\ req'[r].last = req[r].last /\ req'[r].subs = left
        /\ \A q \in Requests \ {r} : req'[q] = req[q]
        /\ token'[r].event = token[r].event
        /\ token[r].status # "success" => token'[r].status # "success"
        /\ \A q \in Requests \ {r} : token'[q] = token[q]
    BY <1>3, <1>11, FieldsAre DEF Shape, TokenType
  <2>2. req[r].live
    BY <1>3, <1>4, FreedHoldsNothing
  <2>3. Told'
    BY <2>1, <2>2, ZenonT(60) DEF RequestInv, Told
  <2>4. Queueing'
    BY <1>1, <1>3, <2>1 DEF RequestInv, Queueing
  <2>5. InOrder'
    <3>1. Ordered'
      BY <1>1 DEF RequestInv, InOrder, Ordered
    <3>2. ASSUME NEW k \in DOMAIN unsub
          PROVE  Waits(unsub[k][1], unsub[k][2])'
      <4>1. Waits(unsub[k][1], unsub[k][2]) /\ unsub[k][1] \in Requests
        BY ListsAre DEF RequestInv, InOrder
      <4>2. CASE unsub[k][1] = r
        BY <4>1, <4>2, <2>1, <1>1 DEF Waits
      <4>3. CASE unsub[k][1] # r
        BY <4>1, <4>3, <2>1, <1>1 DEF Waits
      <4>. QED BY <4>2, <4>3
    <3>3. \A q \in Requests : req'[q].next = req[q].next /\ req'[q].subs \subseteq req[q].subs
      BY <2>1
    <3>4. \A k \in DOMAIN unsub : unsub[k][1] \in Requests
      BY ListsAre
    <3>5. \A q \in Requests :
              req'[q].next > 0 /\ req'[q].subs # {} =>
                  /\ \A j \in req'[q].subs : j < req'[q].next
                  /\ unsub # <<>> => unsub[1][1] = q
      BY <3>3 DEF RequestInv, InOrder
    <3>6. \A j, k \in DOMAIN unsub :
              j < k /\ req'[unsub[j][1]].next > 0 => unsub[k][1] = unsub[j][1]
      BY <3>3, <3>4 DEF RequestInv, InOrder
    <3>. QED BY <1>1, <3>1, <3>2, <3>5, <3>6 DEF InOrder
  <2>6. Held'
    <3>1. /\ \A k \in DOMAIN async : async[k].task[2] \in req'[async[k].task[1]].subs
          /\ \A k \in 1 .. n - 1 : notify'[k][2] \in req'[notify'[k][1]].subs
      BY <1>7, <1>8, <2>1
    <3>. QED BY <1>1, <1>2, <1>9, <3>1 DEF Held
  <2>7. Settled'
    <3>1. \A q \in Requests : req'[q].last = req[q].last /\ req'[q].subs \subseteq req[q].subs
      BY <2>1
    <3>2. \A k \in DOMAIN unsub : unsub[k][1] \in Requests
      BY ListsAre
    <3>3. \A k \in DOMAIN unsub : ~(req[unsub[k][1]].last /\ req[unsub[k][1]].subs # {})
      BY <1>1 DEF RequestInv, Settled
    <3>. QED BY <1>1, <3>1, <3>2, <3>3 DEF Settled
  <2>. QED BY <2>3, <2>4, <2>5, <2>6, <2>7 DEF RequestInv
<1>. QED BY <1>1, <1>10, <1>11

LEMMA ReapRequests ==
    ASSUME Types, RequestInv, Reap
    PROVE  RequestInv'
<1> PICK e : e = cq[host.cqh]
  OBVIOUS
<1> PICK k : k = CHOOSE i \in Taken(e) : \A j \in Taken(e) : i <= j
  OBVIOUS
<1>1. /\ tick \in {"reap", "reaped"} /\ tick' = "reaped"
      /\ UNCHANGED <<caller, unsub, req, token>>
      /\ \/ UNCHANGED <<async, notify>>
         \/ /\ Taken(e) # {} /\ async' = RemoveAt(async, k)
            /\ notify' = Append(notify, async[k].task)
  BY DEF Reap
<1>2. Told' /\ Queueing'
  BY <1>1 DEF RequestInv, Told, Queueing
<1>3. InOrder'
  BY <1>1 DEF RequestInv, InOrder, Ordered, Waits
<1>4. Settled'
  BY <1>1 DEF RequestInv, Settled
<1>5. CASE UNCHANGED <<async, notify>>
  BY <1>1, <1>2, <1>3, <1>4, <1>5 DEF RequestInv, Held
<1>6. CASE /\ Taken(e) # {} /\ async' = RemoveAt(async, k)
           /\ notify' = Append(notify, async[k].task)
  <2> PICK m, n : m = Len(async) /\ n = Len(notify)
    OBVIOUS
  <2>1. k \in DOMAIN async
    BY <1>6, TakenIs DEF Types
  <2>2. async[k].task \in Task
    BY <2>1, ListsAre
  <2>3. /\ m \in Nat /\ DOMAIN async = 1 .. m /\ DOMAIN async' = 1 .. m - 1
        /\ \A j \in 1 .. m - 1 : async'[j] = IF j < k THEN async[j] ELSE async[j + 1]
    BY <1>6, <2>1, RemoveAtIs DEF Types
  <2>4. /\ n \in Nat /\ DOMAIN notify = 1 .. n /\ DOMAIN notify' = 1 .. n + 1
        /\ \A j \in 1 .. n : notify'[j] = notify[j]
        /\ notify'[n + 1] = async[k].task
    BY <1>6, <2>2, AppendIs DEF Types
  <2>5. \A j \in 1 .. m - 1 : \E l \in 1 .. m : l # k /\ async'[j] = async[l]
                                                 /\ l = IF j < k THEN j ELSE j + 1
    <3>1. ASSUME NEW j \in 1 .. m - 1
          PROVE  \E l \in 1 .. m : l # k /\ async'[j] = async[l]
                                   /\ l = IF j < k THEN j ELSE j + 1
      <4>0. m \in Nat /\ k \in 1 .. m
        BY <2>1, <2>3
      <4>1. async'[j] = IF j < k THEN async[j] ELSE async[j + 1]
        BY <2>1, <2>3
      <4>2. CASE j < k
        <5>1. j \in 1 .. m /\ j # k
          BY ONLY <4>0, <4>2, j \in 1 .. m - 1
        <5>2. async'[j] = async[j]
          BY <4>1, <4>2
        <5>. QED BY <5>1, <5>2, <4>2
      <4>3. CASE ~(j < k)
        <5>1. j + 1 \in 1 .. m /\ j + 1 # k
          BY ONLY <4>0, <4>3, j \in 1 .. m - 1
        <5>2. async'[j] = async[j + 1]
          BY <4>1, <4>3
        <5>. QED BY <5>1, <5>2, <4>3
      <4>. QED BY <4>2, <4>3
    <3>. QED BY <3>1
  <2>6. /\ \A j \in 1 .. m : async[j].task[2] \in req[async[j].task[1]].subs
        /\ \A j \in 1 .. n : notify[j][2] \in req[notify[j][1]].subs
        /\ \A j, l \in 1 .. m : async[j].task = async[l].task => j = l
        /\ \A j, l \in 1 .. n : notify[j] = notify[l] => j = l
        /\ \A j \in 1 .. n, l \in 1 .. m : notify[j] # async[l].task
    BY <2>3, <2>4, ZenonT(60) DEF RequestInv, Held
  <2>7. \A j \in 1 .. m - 1 : async'[j].task[2] \in req[async'[j].task[1]].subs
    BY <2>5, <2>6, ZenonT(60)
  <2>8. \A j \in 1 .. n + 1 : notify'[j][2] \in req[notify'[j][1]].subs
    BY <2>1, <2>3, <2>4, <2>6
  <2>9. ASSUME NEW j \in 1 .. m - 1, NEW l \in 1 .. m - 1, async'[j].task = async'[l].task
        PROVE  j = l
    <3>1. (IF j < k THEN j ELSE j + 1) = (IF l < k THEN l ELSE l + 1)
      BY <2>5, <2>6, <2>9
    <3>. QED BY <3>1, <2>1, <2>3
  <2>10. \A j, l \in 1 .. n + 1 : notify'[j] = notify'[l] => j = l
    BY <2>1, <2>3, <2>4, <2>6
  <2>11. ASSUME NEW j \in 1 .. n + 1, NEW l \in 1 .. m - 1
         PROVE  notify'[j] # async'[l].task
    <3>1. PICK h \in 1 .. m : h # k /\ async'[l] = async[h]
      BY <2>5
    <3>2. k \in 1 .. m /\ async[k].task # async[h].task
      BY <3>1, <2>1, <2>3, <2>6
    <3>3. CASE j = n + 1
      BY <3>1, <3>2, <3>3, <2>4
    <3>4. CASE j # n + 1
      <4>1. j \in 1 .. n /\ notify'[j] = notify[j]
        BY <3>4, <2>4
      <4>2. notify[j] # async[h].task
        BY <4>1, <2>6
      <4>. QED BY <3>1, <4>1, <4>2
    <3>. QED BY <3>3, <3>4
  <2>12. Held'
    BY <1>1, <2>3, <2>4, <2>7, <2>8, <2>9, <2>10, <2>11 DEF Held
  <2>. QED BY <1>2, <1>3, <1>4, <2>12 DEF RequestInv
<1>. QED BY <1>1, <1>5, <1>6

\* What AbortAsyncPassThruTasks leaves: every subtask on the way to its callback.
LEMMA AbortedLists ==
    ASSUME Types, AbortAll, notify = <<>>
    PROVE  \E n, m \in Nat :
             /\ DOMAIN unsub = 1 .. n /\ DOMAIN async = 1 .. m
             /\ DOMAIN notify' = 1 .. n + m
             /\ \A k \in 1 .. n + m :
                   notify'[k] = IF k <= n THEN unsub[k] ELSE async[k - n].task
<1> DEFINE tasks == [k \in DOMAIN async |-> async[k].task]
<1>1. async \in Seq(Entry) /\ notify \in Seq(Task) /\ unsub \in Seq(Task)
  BY DEF Types
<1> PICK n, m \in Nat : n = Len(unsub) /\ m = Len(async)
  BY <1>1, LenProperties
<1>2. /\ DOMAIN async = 1 .. m /\ DOMAIN unsub = 1 .. n
      /\ \A k \in DOMAIN async : async[k] \in Entry
  BY <1>1, LenProperties, ElementOfSeq
<1>3. tasks \in Seq(Task) /\ Len(tasks) = m
  <2>1. tasks \in [1 .. m -> Task]
    BY <1>2 DEF Entry
  <2>2. tasks \in Seq(Task)
    BY <2>1, SeqDef
  <2>3. DOMAIN tasks = 1 .. m /\ DOMAIN tasks = 1 .. Len(tasks) /\ Len(tasks) \in Nat
    BY <2>1, <2>2, LenProperties
  <2>. HIDE DEF tasks
  <2>. QED BY <2>2, <2>3
<1>4. \A k \in 1 .. m : tasks[k] = async[k].task
  BY <1>2
<1>5. notify' = notify \o unsub \o tasks
  BY DEF AbortAll
<1>. HIDE DEF tasks
<1>6. notify' = unsub \o tasks
  BY <1>1, <1>5, ConcatEmptySeq
<1>7. /\ unsub \o tasks \in Seq(Task) /\ Len(unsub \o tasks) = n + m
      /\ \A k \in 1 .. n + m :
            (unsub \o tasks)[k] = IF k <= n THEN unsub[k] ELSE tasks[k - n]
  <2>1. /\ unsub \o tasks \in Seq(Task) /\ Len(unsub \o tasks) = Len(unsub) + Len(tasks)
        /\ \A k \in 1 .. Len(unsub) + Len(tasks) :
              (unsub \o tasks)[k] = IF k <= Len(unsub) THEN unsub[k] ELSE tasks[k - Len(unsub)]
    BY <1>1, <1>3, ConcatProperties
  <2>2. Len(unsub) = n /\ Len(tasks) = m
    BY <1>3
  <2>. QED BY <2>1, <2>2
<1>8. DOMAIN notify' = 1 .. n + m
  BY <1>6, <1>7, LenProperties
<1>9. ASSUME NEW k \in 1 .. n + m
      PROVE  notify'[k] = IF k <= n THEN unsub[k] ELSE async[k - n].task
  <2>1. ~(k <= n) => k - n \in 1 .. m
    OBVIOUS
  <2>. QED BY <2>1, <1>4, <1>6, <1>7
<1>. QED BY <1>2, <1>8, <1>9

LEMMA BlockingTimeoutRequests ==
    ASSUME Types, RequestInv, BlockingTimeout
    PROVE  RequestInv'
<1>1. /\ AbortAll /\ notify = <<>> /\ tick = "idle" /\ caller = "idle"
      /\ UNCHANGED <<tick, caller>> /\ unsub' = <<>> /\ async' = <<>>
      /\ \A r \in Requests : req[r].next = 0
  BY FieldsAre DEF BlockingTimeout, BelowNotify, AbortAll, RequestInv, Queueing
<1>2. ASSUME NEW r \in Requests
      PROVE  /\ req'[r].live = req[r].live /\ req'[r].next = 0
             /\ token'[r].event = token[r].event
             /\ req[r].subs \subseteq req'[r].subs
             /\ \A k \in DOMAIN unsub : unsub[k][1] = r => unsub[k][2] \in req'[r].subs
             /\ (\A k \in DOMAIN unsub : unsub[k][1] # r) => req'[r] = req[r]
  <2>1. /\ req'[r] = Aborted(r)
        /\ token'[r] = IF Unsubmitted(unsub, r) > 0
                         THEN [token[r] EXCEPT !.status = "aborted"] ELSE token[r]
    BY <1>1 DEF AbortAll
  <2>2. req[r] \in Shape /\ token[r] \in TokenType
    BY FieldsAre
  <2>3. req'[r].live = req[r].live /\ req'[r].next = 0 /\ token'[r].event = token[r].event
    BY <2>1, <2>2, <1>1 DEF Aborted, Shape, TokenType
  <2>4. req'[r].subs = req[r].subs \cup {i \in 1 .. Parts[r] : <<r, i>> \in Range(unsub)}
    BY <2>1, <2>2 DEF Aborted, Shape
  <2>5. ASSUME NEW k \in DOMAIN unsub, unsub[k][1] = r
        PROVE  unsub[k][2] \in req'[r].subs
    <3>1. unsub[k] = <<r, unsub[k][2]>> /\ unsub[k][2] \in 1 .. Parts[r]
      BY <2>5, ListsAre, TaskIs
    <3>2. <<r, unsub[k][2]>> \in Range(unsub)
      BY <3>1 DEF Range
    <3>. QED BY <3>1, <3>2, <2>4
  <2>6. ASSUME \A k \in DOMAIN unsub : unsub[k][1] # r
        PROVE  req'[r] = req[r]
    <3>1. \A i : <<r, i>> \notin Range(unsub)
      BY <2>6 DEF Range
    <3>2. req[r].last \in BOOLEAN
      BY FieldsAre
    <3>3. Aborted(r) = [req[r] EXCEPT !.subs = req[r].subs, !.last = req[r].last]
      <4>1. {i \in 1 .. Parts[r] : <<r, i>> \in Range(unsub)} = {}
        BY <3>1
      <4>2. (req[r].last \/ <<r, Parts[r]>> \in Range(unsub)) = req[r].last
        BY <3>1, <3>2
      <4>. QED BY <4>1, <4>2 DEF Aborted
    <3>. QED BY <3>3, <2>1, <2>2 DEF Shape
  <2>. QED BY <2>3, <2>4, <2>5, <2>6
<1>3. Told'
  <2>1. ASSUME NEW r \in Requests, ~req'[r].live
        PROVE  req'[r] = NoRequest
    <3>1. ~req[r].live
      BY <1>2, <2>1
    <3>2. \A k \in DOMAIN unsub : unsub[k][1] # r
      BY <3>1, FreedHoldsNothing
    <3>3. req[r] = NoRequest
      BY <3>1 DEF RequestInv, Told
    <3>. QED BY <1>2, <3>2, <3>3
  <2>. QED BY <2>1, <1>2 DEF RequestInv, Told
<1>4. Queueing'
  BY <1>2 DEF Queueing
<1>5. InOrder' /\ Settled'
  <2>1. DOMAIN unsub' = {}
    BY <1>1
  <2>. QED BY <2>1, <1>1, <1>2 DEF InOrder, Ordered, Settled
<1>6. Held'
  <2>1. PICK n \in Nat, m \in Nat :
             /\ DOMAIN unsub = 1 .. n /\ DOMAIN async = 1 .. m
             /\ DOMAIN notify' = 1 .. n + m
             /\ \A k \in 1 .. n + m :
                   notify'[k] = IF k <= n THEN unsub[k] ELSE async[k - n].task
    BY <1>1, AbortedLists, Zenon
  <2>2. /\ \A k \in 1 .. n : /\ unsub[k][1] \in Requests /\ unsub[k][2] \in Nat
                             /\ unsub[k][2] \in req'[unsub[k][1]].subs
                             /\ \A j \in req[unsub[k][1]].subs : j < unsub[k][2]
        /\ \A k \in 1 .. m : /\ async[k].task[1] \in Requests
                             /\ async[k].task[2] \in req[async[k].task[1]].subs
    BY <1>2, <2>1, ListsAre, TaskIs DEF RequestInv, InOrder, Waits, Held
  <2>3. ASSUME NEW k \in 1 .. n + m
        PROVE  notify'[k][2] \in req'[notify'[k][1]].subs
    <3>1. CASE k <= n
      BY <3>1, <2>1, <2>2
    <3>2. CASE ~(k <= n)
      <4>1. k - n \in 1 .. m /\ notify'[k] = async[k - n].task
        BY <3>2, <2>1
      <4>. QED BY <4>1, <2>2, <1>2
    <3>. QED BY <3>1, <3>2
  <2>4. \A j, k \in 1 .. n : unsub[j] = unsub[k] => j = k
    <3>1. \A j, k \in 1 .. n : j < k => unsub[j] # unsub[k]
      BY <2>1, <2>2, SMTT(60) DEF RequestInv, InOrder, Ordered
    <3>. QED BY <3>1
  <2>5. ASSUME NEW j \in 1 .. n, NEW k \in 1 .. m, unsub[j] = async[k].task
        PROVE  FALSE
    <3>1. unsub[j][2] \in req[unsub[j][1]].subs /\ unsub[j][2] \in Nat
      BY <2>2, <2>5
    <3>2. unsub[j][2] < unsub[j][2]
      BY <3>1, <2>2
    <3>. QED BY <3>1, <3>2
  <2>6. \A j, k \in 1 .. m : async[j].task = async[k].task => j = k
    BY <2>1 DEF RequestInv, Held
  <2>7. ASSUME NEW j \in 1 .. n + m, NEW k \in 1 .. n + m, notify'[j] = notify'[k]
        PROVE  j = k
    <3>1. /\ ~(j <= n) => j - n \in 1 .. m
          /\ ~(k <= n) => k - n \in 1 .. m
      OBVIOUS
    <3>. QED BY <3>1, <2>1, <2>4, <2>5, <2>6, <2>7
  <2>8. DOMAIN async' = {}
    BY <1>1
  <2>. QED BY <2>1, <2>3, <2>7, <2>8 DEF Held
<1>. QED BY <1>3, <1>4, <1>5, <1>6 DEF RequestInv

LEMMA RequestInvStep == Types /\ RequestInv /\ [Next]_nvmeVars => RequestInv'
<1> SUFFICES ASSUME Types, RequestInv, [Next]_nvmeVars
             PROVE  RequestInv'
  OBVIOUS
<1>1. ASSUME UNCHANGED <<unsub, async, notify, req, token>>,
             caller' = caller \/ \A r \in Requests : req[r].next = 0,
             tick' = "submit" => notify = <<>>,
             tick' \in {"reap", "reaped"} \/ notify # <<>> =>
                 \A k \in DOMAIN unsub :
                     ~(req[unsub[k][1]].last /\ req[unsub[k][1]].subs # {})
      PROVE  RequestInv'
  <2>1. Told' /\ Held'
    BY <1>1 DEF RequestInv, Told, Held
  <2>2. Queueing'
    BY <1>1 DEF RequestInv, Queueing
  <2>3. InOrder'
    BY <1>1 DEF RequestInv, InOrder, Ordered, Waits
  <2>4. Settled'
    BY <1>1 DEF Settled
  <2>. QED BY <2>1, <2>2, <2>3, <2>4 DEF RequestInv
<1>2. /\ caller # "read" => \A r \in Requests : req[r].next = 0
      /\ notify # <<>> \/ tick \in {"reap", "reaped"} =>
             \A k \in DOMAIN unsub :
                 ~(req[unsub[k][1]].last /\ req[unsub[k][1]].subs # {})
      /\ tick = "submit" => notify = <<>>
  BY FieldsAre DEF RequestInv, Queueing, Settled
<1>3. CASE TimerTick
  BY <1>1, <1>2, <1>3 DEF TimerTick, BelowNotify
<1>4. CASE SubmitEnds
  <2>1. /\ tick = "submit" /\ tick' = "reap" /\ UNCHANGED <<caller, unsub, async, notify, req, token>>
        /\ unsub = <<>> \/ (unsub # <<>> /\ token[Head(unsub)[1]].status = "success")
    BY <1>4 DEF SubmitEnds
  <2>2. ASSUME NEW k \in DOMAIN unsub, req[unsub[k][1]].last, req[unsub[k][1]].subs # {}
        PROVE  FALSE
    <3>1. unsub # <<>>
      BY <2>2
    <3>2. Head(unsub) = unsub[1]
      BY <3>1, HeadIs
    <3>3. unsub[1][1] = unsub[k][1] /\ token[unsub[k][1]].status # "success"
      BY <2>2 DEF RequestInv, InOrder, Waits
    <3>. QED BY <2>1, <3>1, <3>2, <3>3
  <2>. QED BY <1>1, <2>1, <2>2
<1>5. CASE ReapEnds
  BY <1>1, <1>2, <1>5 DEF ReapEnds
<1>6. CASE Controller
  BY <1>1, <1>2, <1>6 DEF Controller, Fetch, Execute
<1>7. CASE BlockingTimeoutDead
  BY <1>1, <1>2, <1>7 DEF BlockingTimeoutDead, BelowNotify
<1>8. CASE Reset
  <2>1. /\ tick = "idle" /\ notify = <<>> /\ caller # "read"
        /\ UNCHANGED <<tick, unsub, async, notify, req, token>>
    BY <1>8 DEF Reset, ResetBegins, ResetDisables, ResetClears, ResetEnds, ResetFails, BelowNotify
  <2>. QED BY <1>1, <1>2, <2>1
<1>9. CASE UNCHANGED nvmeVars
  BY <1>1, <1>2, <1>9 DEF nvmeVars
<1>. QED BY <1>3, <1>4, <1>5, <1>6, <1>7, <1>8, <1>9, StartReadRequests, QueuePartRequests,
            QueuePartFailsRequests, CallbackRequests, DiscardRequests, SubmitRequests,
            SubmitFailsRequests, ReapRequests, BlockingTimeoutRequests
         DEF Next, Caller, Handler

\* Types and RequestInv hold in every behaviour.
LEMMA RequestInvariant == Spec => [](Types /\ RequestInv)
<1> DEFINE I == Types /\ RequestInv
<1>1. Init => I
  BY TypesInit, RequestInvInit
<1>2. I /\ [Next]_nvmeVars => I'
  BY TypesStep, RequestInvStep
<1>. QED BY <1>1, <1>2, PTL DEF Spec

\* Whatever fails and however the rings are torn down, the memory of a request is not
\* freed while the timer handler or a callback has one of its subtasks to look at:
\* AsyncIoCallback frees it without looking at the subtasks not yet submitted, and it
\* is the order of the list and of the handler's two loops that leaves none.
THEOREM SubtasksHaveTheirRequest == Spec => []SubtasksLive
<1>1. Types /\ RequestInv => SubtasksLive
  <2> SUFFICES ASSUME Types, RequestInv,
                      NEW t \in Range(unsub) \cup Range(notify)
                                  \cup {async[k].task : k \in DOMAIN async}
               PROVE  req[t[1]].live
    BY DEF SubtasksLive
  <2>1. \/ \E k \in DOMAIN unsub : t = unsub[k]
        \/ \E k \in DOMAIN notify : t = notify[k]
        \/ \E k \in DOMAIN async : t = async[k].task
    BY DEF Range
  <2>2. /\ t[1] \in Requests
        /\ \/ \E k \in DOMAIN unsub : unsub[k][1] = t[1]
           \/ \E k \in DOMAIN async : async[k].task[1] = t[1]
           \/ \E k \in DOMAIN notify : notify[k][1] = t[1]
    BY <2>1, ListsAre
  <2>3. PICK r \in Requests : r = t[1]
    BY <2>2
  <2>4. req[r].live
    BY <2>2, <2>3, FreedHoldsNothing
  <2>. QED BY <2>3, <2>4
<1>. QED BY <1>1, RequestInvariant, PTL

-----------------------------------------------------------------------------
(***************************************************************************)
(* Positions in a ring of n entries: how far b is ahead of a, and the      *)
(* entries from a up to b.                                                 *)
(***************************************************************************)
Ahead(a, b, n) == IF a <= b THEN b - a ELSE b + n - a

Between(a, b, n) == {k \in 0 .. n - 1 : Ahead(a, k, n) < Ahead(a, b, n)}

LEMMA RingIs ==
    ASSUME NEW n \in Nat \ {0, 1}, NEW a \in 0 .. n - 1, NEW b \in 0 .. n - 1
    PROVE  /\ (a + 1) % n = IF a + 1 = n THEN 0 ELSE a + 1
           /\ (a + 1) % n \in 0 .. n - 1
           /\ (b + n - a) % n = Ahead(a, b, n)
           /\ Ahead(a, b, n) \in 0 .. n - 1
           /\ Ahead(a, b, n) = 0 <=> a = b
BY DEF Ahead

LEMMA AheadIs ==
    ASSUME NEW n \in Nat \ {0, 1}, NEW a \in 0 .. n - 1, NEW b \in 0 .. n - 1
    PROVE  Ahead(a, b, n) \in Nat
BY DEF Ahead

\* b moves on and does not run into a.
LEMMA EndMoves ==
    ASSUME NEW n \in Nat \ {0, 1}, NEW a \in 0 .. n - 1, NEW b \in 0 .. n - 1,
           (b + 1) % n # a
    PROVE  /\ Ahead(a, (b + 1) % n, n) = Ahead(a, b, n) + 1
           /\ Between(a, (b + 1) % n, n) = Between(a, b, n) \cup {b}
           /\ b \notin Between(a, b, n)
<1> PICK c : c = (b + 1) % n
  OBVIOUS
<1>1. c = IF b + 1 = n THEN 0 ELSE b + 1
  BY RingIs
<1>2. c # a
  OBVIOUS
<1>3. Ahead(a, c, n) = Ahead(a, b, n) + 1
  BY ONLY <1>1, <1>2, n \in Nat \ {0, 1}, a \in 0 .. n - 1, b \in 0 .. n - 1 DEF Ahead
<1>4. \A k \in 0 .. n - 1 : Ahead(a, k, n) < Ahead(a, b, n) + 1
                              <=> Ahead(a, k, n) < Ahead(a, b, n) \/ k = b
  BY ONLY n \in Nat \ {0, 1}, a \in 0 .. n - 1, b \in 0 .. n - 1 DEF Ahead
<1>5. Between(a, c, n) = Between(a, b, n) \cup {b}
  BY <1>3, <1>4 DEF Between
<1>. QED BY <1>3, <1>5 DEF Between, Ahead

\* a moves on towards b.
LEMMA StartMoves ==
    ASSUME NEW n \in Nat \ {0, 1}, NEW a \in 0 .. n - 1, NEW b \in 0 .. n - 1, a # b
    PROVE  /\ Ahead((a + 1) % n, b, n) = Ahead(a, b, n) - 1
           /\ Between((a + 1) % n, b, n) = Between(a, b, n) \ {a}
           /\ a \in Between(a, b, n)
<1> PICK c : c = (a + 1) % n
  OBVIOUS
<1>1. c = IF a + 1 = n THEN 0 ELSE a + 1
  BY RingIs
<1>2. Ahead(c, b, n) = Ahead(a, b, n) - 1
  BY ONLY <1>1, n \in Nat \ {0, 1}, a \in 0 .. n - 1, b \in 0 .. n - 1, a # b DEF Ahead
<1>3. \A k \in 0 .. n - 1 : Ahead(c, k, n) < Ahead(a, b, n) - 1
                              <=> Ahead(a, k, n) < Ahead(a, b, n) /\ k # a
  BY ONLY <1>1, n \in Nat \ {0, 1}, a \in 0 .. n - 1, b \in 0 .. n - 1, a # b DEF Ahead
<1>4. Between(c, b, n) = Between(a, b, n) \ {a}
  BY <1>2, <1>3 DEF Between
<1>5. a \in Between(a, b, n)
  BY ONLY n \in Nat \ {0, 1}, a \in 0 .. n - 1, b \in 0 .. n - 1, a # b DEF Ahead, Between
<1>. QED BY <1>2, <1>4, <1>5

\* Seen from a, with b on the way to c: the rest of the way, and a step of b or of c.
LEMMA OnTheWay ==
    ASSUME NEW n \in Nat \ {0, 1}, NEW a \in 0 .. n - 1, NEW b \in 0 .. n - 1,
           NEW c \in 0 .. n - 1, Ahead(a, b, n) <= Ahead(a, c, n)
    PROVE  /\ Ahead(b, c, n) = Ahead(a, c, n) - Ahead(a, b, n)
           /\ (c + 1) % n # a => /\ (c + 1) % n # b
                                 /\ Ahead(a, b, n) <= Ahead(a, (c + 1) % n, n)
           /\ b # c => /\ Ahead(a, (b + 1) % n, n) = Ahead(a, b, n) + 1
                       /\ Ahead(a, (b + 1) % n, n) <= Ahead(a, c, n)
           /\ Ahead(b, b, n) <= Ahead(b, c, n)
<1>1. Ahead(b, c, n) = Ahead(a, c, n) - Ahead(a, b, n)
  BY DEF Ahead
<1>2. ASSUME (c + 1) % n # a
      PROVE  (c + 1) % n # b /\ Ahead(a, b, n) <= Ahead(a, (c + 1) % n, n)
  <2> PICK d : d = (c + 1) % n
    OBVIOUS
  <2>1. d = IF c + 1 = n THEN 0 ELSE c + 1
    BY RingIs
  <2>2. d # a
    BY <1>2
  <2>3. d # b /\ Ahead(a, b, n) <= Ahead(a, d, n)
    BY ONLY <2>1, <2>2, n \in Nat \ {0, 1}, a \in 0 .. n - 1, b \in 0 .. n - 1,
            c \in 0 .. n - 1, Ahead(a, b, n) <= Ahead(a, c, n) DEF Ahead
  <2>. QED BY <2>3
<1>3. ASSUME b # c
      PROVE  /\ Ahead(a, (b + 1) % n, n) = Ahead(a, b, n) + 1
             /\ Ahead(a, (b + 1) % n, n) <= Ahead(a, c, n)
  <2> PICK d : d = (b + 1) % n
    OBVIOUS
  <2>1. d = IF b + 1 = n THEN 0 ELSE b + 1
    BY RingIs
  <2>2. Ahead(a, d, n) = Ahead(a, b, n) + 1 /\ Ahead(a, d, n) <= Ahead(a, c, n)
    BY ONLY <2>1, <1>3, n \in Nat \ {0, 1}, a \in 0 .. n - 1, b \in 0 .. n - 1,
            c \in 0 .. n - 1, Ahead(a, b, n) <= Ahead(a, c, n) DEF Ahead
  <2>. QED BY <2>2
<1>4. Ahead(b, b, n) <= Ahead(b, c, n)
  BY DEF Ahead
<1>. QED BY <1>1, <1>2, <1>3, <1>4

-----------------------------------------------------------------------------
(***************************************************************************)
(* The two sides of the rings.  As long as nobody resets the block device, *)
(* the head the host believes in is behind the controller's, the host's    *)
(* tail is the doorbell's, the phase bits divide the completion ring where *)
(* the controller writes next, and the heads reported in the posted        *)
(* completions advance from the one the host believes in to the            *)
(* controller's.                                                           *)
(***************************************************************************)
NoReset == faults \cap {"reset", "resetEx"} = {}

\* Entries of the submission ring the controller has yet to fetch, and of the
\* completion ring the host has yet to take.
ToFetch == Between(dev.head, dev.tail, QueueSize)
ToTake == Between(host.cqh, dev.ctail, CqSize)

\* How far entry k of the submission ring is ahead of the head the host believes in.
Known(k) == Ahead(host.sqHead, k, QueueSize)

Running == caller \in {"idle", "read"} /\ (~dev.on => ~armed /\ tick = "idle")

Sides ==
    /\ host.sqt = dev.tail
    /\ Known(dev.head) <= Known(dev.tail)
    /\ Ahead(dev.chead, host.cqh, CqSize) <= Ahead(dev.chead, dev.ctail, CqSize)

Phases ==
    /\ \A k \in 0 .. CqSize - 1 :
          cq[k].phase = IF k < dev.ctail THEN dev.phase ELSE 1 - dev.phase
    /\ host.pt = IF host.cqh <= dev.ctail THEN 1 - dev.phase ELSE dev.phase

Heads ==
    /\ \A s \in ToTake : Known(cq[s].sqhd) <= Known(dev.head)
    /\ \A s, u \in ToTake :
          Ahead(host.cqh, s, CqSize) < Ahead(host.cqh, u, CqSize)
             => Known(cq[s].sqhd) <= Known(cq[u].sqhd)

RingInv == Running /\ (dev.on => Sides /\ Phases /\ Heads)

LEMMA SidesAre ==
    ASSUME Types
    PROVE  /\ host.sqt \in 0 .. QueueSize - 1 /\ host.sqHead \in 0 .. QueueSize - 1
           /\ host.cid \in 0 .. Cids - 1 /\ host.cqh \in 0 .. CqSize - 1 /\ host.pt \in {0, 1}
           /\ dev.on \in BOOLEAN /\ dev.head \in 0 .. QueueSize - 1
           /\ dev.tail \in 0 .. QueueSize - 1 /\ dev.fly \subseteq Stamp
           /\ dev.ctail \in 0 .. CqSize - 1 /\ dev.phase \in {0, 1}
           /\ dev.chead \in 0 .. CqSize - 1
           /\ \A k \in 0 .. CqSize - 1 :
                 /\ cq[k].cid \in 0 .. Cids - 1 /\ cq[k].phase \in {0, 1}
                 /\ cq[k].sqhd \in 0 .. QueueSize - 1 /\ cq[k].error \in BOOLEAN
           /\ \A k \in 0 .. QueueSize - 1 : sq[k] \in Stamp
           /\ QueueSize \in Nat \ {0, 1} /\ CqSize \in Nat \ {0, 1} /\ Cids \in Nat \ {0}
BY QueueAssumption DEF Types, HostType, DevType, Completion

\* The second loop goes on exactly as long as a completion is to be taken.
LEMMA PostedIs ==
    ASSUME Types, RingInv, dev.on
    PROVE  /\ Posted <=> host.cqh # dev.ctail
           /\ ~Posted => host.pt # dev.phase /\ ToTake = {}
           /\ Posted => host.cqh \in ToTake
<1>1. Posted <=> host.cqh # dev.ctail
  BY SidesAre DEF RingInv, Phases, Posted
<1>2. ~Posted => host.pt # dev.phase
  BY <1>1, SidesAre DEF RingInv, Phases
<1>3. host.cqh = dev.ctail => ToTake = {}
  BY SidesAre DEF ToTake, Between, Ahead
<1>4. host.cqh # dev.ctail => host.cqh \in ToTake
  BY SidesAre, StartMoves DEF ToTake
<1>. QED BY <1>1, <1>2, <1>3, <1>4

\* Waiting is counted from the controller's head.
LEMMA WaitingIs ==
    ASSUME Types
    PROVE  /\ Waiting = ToFetch
           /\ Outstanding = IF dev.on THEN dev.fly \cup {sq[k] : k \in ToFetch} ELSE {}
<1>1. \A k \in 0 .. QueueSize - 1 :
         /\ (k + QueueSize - dev.head) % QueueSize = Ahead(dev.head, k, QueueSize)
         /\ (dev.tail + QueueSize - dev.head) % QueueSize = Ahead(dev.head, dev.tail, QueueSize)
  BY SidesAre, RingIs, ZenonT(60)
<1>2. Waiting = ToFetch
  BY <1>1 DEF Waiting, ToFetch, Between
<1>. QED BY <1>2 DEF Outstanding

\* An entry of either ring is one of its positions.
LEMMA PositionsAre ==
    /\ ToFetch \subseteq 0 .. QueueSize - 1
    /\ ToTake \subseteq 0 .. CqSize - 1
BY DEF ToFetch, ToTake, Between

\* Distances in the two rings are numbers.
LEMMA DistancesAre ==
    ASSUME Types
    PROVE  /\ \A k \in 0 .. QueueSize - 1 : Known(k) \in Nat
           /\ \A j, k \in 0 .. QueueSize - 1 : Ahead(j, k, QueueSize) \in Nat
           /\ \A j, k \in 0 .. CqSize - 1 : Ahead(j, k, CqSize) \in Nat
<1>1. /\ \A j, k \in 0 .. QueueSize - 1 : Ahead(j, k, QueueSize) \in Nat
      /\ \A j, k \in 0 .. CqSize - 1 : Ahead(j, k, CqSize) \in Nat
  BY QueueAssumption, AheadIs, Zenon
<1>. QED BY <1>1, SidesAre DEF Known

LEMMA RingInvInit == Init => RingInv
<1> SUFFICES ASSUME Init
             PROVE  RingInv
  OBVIOUS
<1>1. /\ caller = "idle" /\ dev.on = TRUE
      /\ host.sqt = 0 /\ host.sqHead = 0 /\ host.cqh = 0 /\ host.pt = 0
      /\ dev.head = 0 /\ dev.tail = 0 /\ dev.chead = 0 /\ dev.ctail = 0 /\ dev.phase = 1
      /\ \A k \in 0 .. CqSize - 1 : cq[k].phase = 0
  BY DEF Init, ZeroHost, DevReady, DevOff, ZeroCq
<1>2. ToTake = {}
  BY <1>1 DEF ToTake, Between, Ahead
<1>. QED BY <1>1, <1>2 DEF RingInv, Running, Sides, Phases, Heads, Known, Ahead

\* What the controller fetches is the first entry of those it has to fetch.
LEMMA FetchRing ==
    ASSUME Types, RingInv, Fetch
    PROVE  /\ RingInv'
           /\ ToFetch' = ToFetch \ {dev.head} /\ dev.head \in ToFetch /\ ToTake' = ToTake
<1>1. /\ dev.on /\ dev.head # dev.tail /\ UNCHANGED <<caller, tick, armed, host, cq>>
      /\ dev'.head = (dev.head + 1) % QueueSize /\ dev'.tail = dev.tail /\ dev'.on = TRUE
      /\ dev'.ctail = dev.ctail /\ dev'.phase = dev.phase /\ dev'.chead = dev.chead
  BY DEF Fetch, Types, DevType
<1>2. Sides /\ Phases /\ Heads /\ Running
  BY <1>1 DEF RingInv
<1>3. ToFetch' = ToFetch \ {dev.head} /\ dev.head \in ToFetch
  BY <1>1, SidesAre, StartMoves, SMTT(60) DEF ToFetch
<1>4. ToTake' = ToTake
  BY <1>1 DEF ToTake
<1>5. /\ Ahead(host.sqHead, dev'.head, QueueSize) = Known(dev.head) + 1
      /\ Ahead(host.sqHead, dev'.head, QueueSize) <= Known(dev.tail)
  <2>1. Ahead(host.sqHead, dev.head, QueueSize) <= Ahead(host.sqHead, dev.tail, QueueSize)
    BY <1>2 DEF Sides, Known
  <2>2. /\ Ahead(host.sqHead, (dev.head + 1) % QueueSize, QueueSize)
             = Ahead(host.sqHead, dev.head, QueueSize) + 1
        /\ Ahead(host.sqHead, (dev.head + 1) % QueueSize, QueueSize)
             <= Ahead(host.sqHead, dev.tail, QueueSize)
    BY <2>1, <1>1, SidesAre, OnTheWay, Zenon
  <2>. QED BY <2>2, <1>1 DEF Known
<1>6. \A k \in 0 .. QueueSize - 1 : Known(k) \in Nat
  BY DistancesAre
<1>7. \A s \in ToTake : cq[s].sqhd \in 0 .. QueueSize - 1
  BY SidesAre, PositionsAre
<1>8. Sides'
  BY <1>1, <1>2, <1>5 DEF Sides, Known
<1>9. Phases'
  BY <1>1, <1>2 DEF Phases
<1>10. Heads'
  <2>1. ASSUME NEW s \in ToTake
        PROVE  Ahead(host.sqHead, cq[s].sqhd, QueueSize)
                 <= Ahead(host.sqHead, dev'.head, QueueSize)
    <3>1. Known(cq[s].sqhd) <= Known(dev.head)
      BY <1>2 DEF Heads
    <3>. QED BY <3>1, <1>5, <1>6, <1>7, SidesAre DEF Known
  <2>. QED BY <2>1, <1>1, <1>2, <1>4 DEF Heads, Known
<1>11. Running'
  BY <1>1, <1>2 DEF Running
<1>. QED BY <1>3, <1>4, <1>8, <1>9, <1>10, <1>11 DEF RingInv

\* The controller posts behind what the host has to take and never onto it.
LEMMA ExecuteRing ==
    ASSUME Types, RingInv, NEW c, NEW error \in BOOLEAN, Execute(c, error)
    PROVE  /\ RingInv'
           /\ ToFetch' = ToFetch /\ ToTake' = ToTake \cup {dev.ctail} /\ dev.ctail \notin ToTake
<1>1. /\ dev.on /\ (dev.ctail + 1) % CqSize # dev.chead /\ UNCHANGED <<caller, tick, armed, host>>
      /\ dev'.head = dev.head /\ dev'.tail = dev.tail /\ dev'.on = TRUE
      /\ dev'.ctail = (dev.ctail + 1) % CqSize /\ dev'.chead = dev.chead
      /\ dev'.phase = IF dev.ctail + 1 = CqSize THEN 1 - dev.phase ELSE dev.phase
      /\ cq'[dev.ctail].phase = dev.phase /\ cq'[dev.ctail].sqhd = dev.head
      /\ \A k \in (0 .. CqSize - 1) \ {dev.ctail} : cq'[k] = cq[k]
  BY SidesAre DEF Execute, Types, DevType
<1>2. Sides /\ Phases /\ Heads /\ Running
  BY <1>1 DEF RingInv
<1>3. ToFetch' = ToFetch
  BY <1>1 DEF ToFetch
<1>4. /\ dev'.ctail # host.cqh
      /\ Ahead(dev.chead, host.cqh, CqSize) <= Ahead(dev.chead, dev'.ctail, CqSize)
  <2>1. Ahead(dev.chead, host.cqh, CqSize) <= Ahead(dev.chead, dev.ctail, CqSize)
    BY <1>2 DEF Sides
  <2>2. /\ (dev.ctail + 1) % CqSize # host.cqh
        /\ Ahead(dev.chead, host.cqh, CqSize)
             <= Ahead(dev.chead, (dev.ctail + 1) % CqSize, CqSize)
    BY <2>1, <1>1, SidesAre, OnTheWay, Zenon
  <2>. QED BY <2>2, <1>1
<1>5. ToTake' = ToTake \cup {dev.ctail} /\ dev.ctail \notin ToTake
  <2>1. (dev.ctail + 1) % CqSize # host.cqh
    BY <1>1, <1>4
  <2>2. /\ Between(host.cqh, (dev.ctail + 1) % CqSize, CqSize)
             = Between(host.cqh, dev.ctail, CqSize) \cup {dev.ctail}
        /\ dev.ctail \notin Between(host.cqh, dev.ctail, CqSize)
    BY <2>1, SidesAre, EndMoves, Zenon
  <2>. QED BY <2>2, <1>1 DEF ToTake
<1>6. dev'.ctail = IF dev.ctail + 1 = CqSize THEN 0 ELSE dev.ctail + 1
  <2>1. (dev.ctail + 1) % CqSize = IF dev.ctail + 1 = CqSize THEN 0 ELSE dev.ctail + 1
    BY SidesAre, RingIs, Zenon
  <2>. QED BY <2>1, <1>1
<1>7. Sides'
  BY <1>1, <1>2, <1>4 DEF Sides, Known
<1>8. Phases'
  <2>1. ASSUME NEW k \in 0 .. CqSize - 1
        PROVE  cq'[k].phase = IF k < dev'.ctail THEN dev'.phase ELSE 1 - dev'.phase
    <3>1. CASE k = dev.ctail
      BY <3>1, <1>1, <1>6, SidesAre
    <3>2. CASE k # dev.ctail
      <4>1. cq'[k].phase = IF k < dev.ctail THEN dev.phase ELSE 1 - dev.phase
        BY <3>2, <1>1, <1>2 DEF Phases
      <4>. QED BY <4>1, <3>2, <1>1, <1>6, SidesAre
    <3>. QED BY <3>1, <3>2
  <2>2. host'.pt = IF host'.cqh <= dev'.ctail THEN 1 - dev'.phase ELSE dev'.phase
    <3>1. host.pt = IF host.cqh <= dev.ctail THEN 1 - dev.phase ELSE dev.phase
      BY <1>2 DEF Phases
    <3>. QED BY <3>1, <1>1, <1>4, <1>6, SidesAre, SMTT(60)
  <2>. QED BY <2>1, <2>2 DEF Phases
<1>9. Heads'
  <2>1. \A k \in 0 .. QueueSize - 1 : Known(k) \in Nat
    BY DistancesAre
  <2>2. \A s \in ToTake : s \in (0 .. CqSize - 1) \ {dev.ctail} /\ cq'[s] = cq[s]
    BY <1>1, <1>5, PositionsAre
  <2>3. \A s \in ToTake : Known(cq'[s].sqhd) <= Known(dev.head)
    BY <1>2, <2>2 DEF Heads
  <2>4. Known(cq'[dev.ctail].sqhd) <= Known(dev.head)
    BY <1>1, <2>1, SidesAre
  <2>5. ASSUME NEW s \in ToTake \cup {dev.ctail}, NEW u \in ToTake \cup {dev.ctail},
               Ahead(host.cqh, s, CqSize) < Ahead(host.cqh, u, CqSize)
        PROVE  Known(cq'[s].sqhd) <= Known(cq'[u].sqhd)
    <3>1. CASE u = dev.ctail
      <4>1. cq'[u].sqhd = dev.head
        BY <1>1, <3>1
      <4>. QED BY <4>1, <2>3, <2>4
    <3>2. CASE u # dev.ctail
      <4>1. u \in ToTake /\ Ahead(host.cqh, u, CqSize) < Ahead(host.cqh, dev.ctail, CqSize)
        BY <3>2 DEF ToTake, Between
      <4>2. s # dev.ctail
        <5>1. /\ Ahead(host.cqh, u, CqSize) \in Nat
              /\ Ahead(host.cqh, dev.ctail, CqSize) \in Nat
          BY <4>1, SidesAre, PositionsAre, DistancesAre
        <5>. QED BY <5>1, <4>1, <2>5
      <4>3. s \in ToTake
        BY <4>2
      <4>. QED BY <4>1, <4>3, <1>2, <2>2, <2>5 DEF Heads
    <3>. QED BY <3>1, <3>2
  <2>6. host' = host /\ dev'.head = dev.head
    BY <1>1
  <2>. QED BY <2>3, <2>4, <2>5, <2>6, <1>5 DEF Heads, Known
<1>10. Running'
  BY <1>1, <1>2 DEF Running
<1>. QED BY <1>3, <1>5, <1>7, <1>8, <1>9, <1>10 DEF RingInv

\* A completion moves the host's head on; the head it reports, when its command is
\* known, is between the one the host believed in and the controller's.
LEMMA ReapRing ==
    ASSUME Types, RingInv, dev.on, Reap
    PROVE  /\ RingInv'
           /\ ToFetch' = ToFetch /\ ToTake' = ToTake \ {host.cqh} /\ host.cqh \in ToTake
<1>1. Sides /\ Phases /\ Heads /\ Running
  BY DEF RingInv
<1>2. host.cqh \in ToTake /\ host.cqh # dev.ctail
  BY PostedIs DEF Reap
<1>3. /\ UNCHANGED <<caller, armed, cq, dev>>
      /\ host'.sqt = host.sqt
      /\ host'.cqh = NextHead.cqh /\ host'.pt = NextHead.pt
      /\ host'.sqHead = host.sqHead \/ host'.sqHead = cq[host.cqh].sqhd
  BY DEF Reap, Types, HostType
<1>4. /\ NextHead.cqh = IF host.cqh + 1 = CqSize THEN 0 ELSE host.cqh + 1
      /\ NextHead.pt = IF host.cqh + 1 = CqSize THEN 1 - host.pt ELSE host.pt
  BY DEF NextHead
<1>5. host'.cqh = (host.cqh + 1) % CqSize
  <2>1. (host.cqh + 1) % CqSize = IF host.cqh + 1 = CqSize THEN 0 ELSE host.cqh + 1
    BY SidesAre, RingIs, Zenon
  <2>. QED BY <2>1, <1>3, <1>4
<1>6. ToFetch' = ToFetch
  BY <1>3 DEF ToFetch
<1>7. ToTake' = ToTake \ {host.cqh}
  <2>1. Between((host.cqh + 1) % CqSize, dev.ctail, CqSize)
          = Between(host.cqh, dev.ctail, CqSize) \ {host.cqh}
    BY <1>2, SidesAre, StartMoves, Zenon
  <2>. QED BY <2>1, <1>3, <1>5 DEF ToTake
<1>8. PICK h \in 0 .. QueueSize - 1 :
         /\ host'.sqHead = h /\ Known(h) <= Known(dev.head)
         /\ \A s \in ToTake \ {host.cqh} : Known(h) <= Known(cq[s].sqhd)
  <2>1. CASE host'.sqHead = cq[host.cqh].sqhd
    <3>1. ASSUME NEW s \in ToTake \ {host.cqh}
          PROVE  Known(cq[host.cqh].sqhd) <= Known(cq[s].sqhd)
      <4>1. Ahead(host.cqh, host.cqh, CqSize) = 0
        BY SidesAre DEF Ahead
      <4>2. Ahead(host.cqh, s, CqSize) # 0
        BY <3>1, SidesAre, PositionsAre DEF Ahead
      <4>3. Ahead(host.cqh, s, CqSize) \in Nat
        BY <3>1, SidesAre, PositionsAre, DistancesAre
      <4>4. Ahead(host.cqh, host.cqh, CqSize) < Ahead(host.cqh, s, CqSize)
        BY <4>1, <4>2, <4>3
      <4>. QED BY <4>4, <3>1, <1>1, <1>2 DEF Heads
    <3>. QED BY <3>1, <2>1, <1>1, <1>2, SidesAre DEF Heads
  <2>2. CASE host'.sqHead = host.sqHead
    <3>1. Known(host.sqHead) = 0
      BY SidesAre DEF Known, Ahead
    <3>. QED BY <3>1, <2>2, SidesAre, PositionsAre, DistancesAre, SMTT(60)
  <2>. QED BY <2>1, <2>2, <1>3
<1>9. \A k \in 0 .. QueueSize - 1 :
         Known(h) <= Known(k) => Ahead(h, k, QueueSize) = Known(k) - Known(h)
  <2>1. ASSUME NEW k \in 0 .. QueueSize - 1, Known(h) <= Known(k)
        PROVE  Ahead(h, k, QueueSize) = Known(k) - Known(h)
    <3>1. Ahead(host.sqHead, h, QueueSize) <= Ahead(host.sqHead, k, QueueSize)
      BY <2>1 DEF Known
    <3>2. Ahead(h, k, QueueSize)
            = Ahead(host.sqHead, k, QueueSize) - Ahead(host.sqHead, h, QueueSize)
      <4>1. QueueSize \in Nat \ {0, 1} /\ host.sqHead \in 0 .. QueueSize - 1
        BY SidesAre
      <4>. QED BY ONLY <3>1, <4>1, h \in 0 .. QueueSize - 1, k \in 0 .. QueueSize - 1 DEF Ahead
    <3>. QED BY <3>2 DEF Known
  <2>. QED BY <2>1
<1>10. \A k \in 0 .. QueueSize - 1 : Known(k) \in Nat
  BY DistancesAre
<1>11. Sides'
  <2>1. Known(dev.head) <= Known(dev.tail)
    BY <1>1 DEF Sides
  <2>2. Ahead(h, dev.head, QueueSize) <= Ahead(h, dev.tail, QueueSize)
    BY <2>1, <1>8, <1>9, <1>10, SidesAre
  <2>3. Ahead(dev.chead, host.cqh, CqSize) <= Ahead(dev.chead, dev.ctail, CqSize)
    BY <1>1 DEF Sides
  <2>4. Ahead(dev.chead, (host.cqh + 1) % CqSize, CqSize)
          <= Ahead(dev.chead, dev.ctail, CqSize)
    BY <2>3, <1>2, SidesAre, OnTheWay, Zenon
  <2>. QED BY <2>2, <2>4, <1>1, <1>3, <1>5, <1>8 DEF Sides, Known
<1>12. Phases'
  <2>1. host.pt = IF host.cqh <= dev.ctail THEN 1 - dev.phase ELSE dev.phase
    BY <1>1 DEF Phases
  <2>2. host'.pt = IF host'.cqh <= dev.ctail THEN 1 - dev.phase ELSE dev.phase
    BY <2>1, <1>2, <1>3, <1>4, SidesAre
  <2>. QED BY <2>2, <1>1, <1>3 DEF Phases
<1>13. Heads'
  <2>1. \A s \in ToTake \ {host.cqh} :
           /\ s \in 0 .. CqSize - 1 /\ s # host.cqh /\ s \in ToTake
           /\ cq[s].sqhd \in 0 .. QueueSize - 1
           /\ Ahead(h, cq[s].sqhd, QueueSize) = Known(cq[s].sqhd) - Known(h)
    BY <1>8, <1>9, SidesAre, PositionsAre
  <2>2. Ahead(h, dev.head, QueueSize) = Known(dev.head) - Known(h)
    BY <1>8, <1>9, SidesAre
  <2>3. ASSUME NEW s \in ToTake \ {host.cqh}
        PROVE  Ahead(h, cq[s].sqhd, QueueSize) <= Ahead(h, dev.head, QueueSize)
    <3>1. Known(cq[s].sqhd) <= Known(dev.head)
      BY <2>1, <1>1 DEF Heads
    <3>. QED BY <3>1, <2>1, <2>2, <1>8, <1>10, SidesAre
  <2>4. ASSUME NEW s \in ToTake \ {host.cqh}
        PROVE  Ahead((host.cqh + 1) % CqSize, s, CqSize) = Ahead(host.cqh, s, CqSize) - 1
    <3>1. host.cqh # s /\ s \in 0 .. CqSize - 1
      BY <2>1, <2>4
    <3>. QED BY <3>1, SidesAre, StartMoves, ZenonT(60)
  <2>5. ASSUME NEW s \in ToTake \ {host.cqh}, NEW u \in ToTake \ {host.cqh},
               Ahead((host.cqh + 1) % CqSize, s, CqSize)
                 < Ahead((host.cqh + 1) % CqSize, u, CqSize)
        PROVE  Ahead(h, cq[s].sqhd, QueueSize) <= Ahead(h, cq[u].sqhd, QueueSize)
    <3>1. /\ Ahead(host.cqh, s, CqSize) \in Nat /\ Ahead(host.cqh, u, CqSize) \in Nat
      BY <2>1, SidesAre, DistancesAre
    <3>2. Ahead(host.cqh, s, CqSize) < Ahead(host.cqh, u, CqSize)
      BY <3>1, <2>4, <2>5
    <3>3. Known(cq[s].sqhd) <= Known(cq[u].sqhd)
      BY <3>2, <2>1, <1>1 DEF Heads
    <3>. QED BY <3>3, <2>1, <1>8, <1>10
  <2>. QED BY <2>3, <2>5, <1>3, <1>5, <1>7, <1>8 DEF Heads, Known
<1>14. Running'
  BY <1>1, <1>3 DEF Running
<1>. QED BY <1>2, <1>6, <1>7, <1>11, <1>12, <1>13, <1>14 DEF RingInv

\* The head doorbell tells the controller where the host is.
LEMMA ReapEndsRing ==
    ASSUME Types, RingInv, ReapEnds
    PROVE  RingInv' /\ ToFetch' = ToFetch /\ ToTake' = ToTake
<1>1. /\ UNCHANGED <<caller, armed, host, cq>> /\ tick' = "idle" /\ tick \in {"reap", "reaped"}
      /\ dev'.head = dev.head /\ dev'.tail = dev.tail /\ dev'.on = dev.on
      /\ dev'.ctail = dev.ctail /\ dev'.phase = dev.phase
      /\ dev'.chead = dev.chead \/ dev'.chead = host.cqh
  BY DEF ReapEnds, HeadRung, Types, DevType
<1>2. dev.on /\ Sides /\ Phases /\ Heads /\ Running
  BY <1>1, SidesAre DEF RingInv, Running
<1>3. ToFetch' = ToFetch /\ ToTake' = ToTake
  BY <1>1 DEF ToFetch, ToTake
<1>4. /\ Ahead(host.cqh, host.cqh, CqSize) = 0
      /\ Ahead(host.cqh, dev.ctail, CqSize) \in Nat
  BY SidesAre, DistancesAre DEF Ahead
<1>5. Sides'
  BY <1>1, <1>2, <1>4 DEF Sides, Known
<1>6. Phases' /\ Heads' /\ Running'
  BY <1>1, <1>2, <1>3 DEF Phases, Heads, Known, Running
<1>. QED BY <1>3, <1>5, <1>6 DEF RingInv

\* PassThru fills the entry at the doorbell, which is not one the controller has yet to
\* fetch: the head the host believes in is behind the controller's.
LEMMA SubmitRing ==
    ASSUME Types, RingInv, tick = "submit", ~RingFull,
           UNCHANGED <<caller, tick, armed, cq>>
    PROVE  /\ dev.on /\ host.sqt \notin ToFetch /\ host.sqt \in 0 .. QueueSize - 1
           /\ host' = Submitted /\ dev' = Rung =>
                RingInv' /\ ToFetch' = ToFetch \cup {host.sqt} /\ ToTake' = ToTake
           /\ host' = [host EXCEPT !.cid = (@ + 1) % Cids] /\ UNCHANGED dev =>
                RingInv' /\ ToFetch' = ToFetch /\ ToTake' = ToTake
<1>1. dev.on /\ Sides /\ Phases /\ Heads /\ Running
  BY SidesAre DEF RingInv, Running
<1>2. host.sqt = dev.tail /\ (dev.tail + 1) % QueueSize # host.sqHead
  BY <1>1 DEF Sides, RingFull
<1>3. /\ (dev.tail + 1) % QueueSize # dev.head
      /\ Ahead(host.sqHead, dev.head, QueueSize)
           <= Ahead(host.sqHead, (dev.tail + 1) % QueueSize, QueueSize)
  <2>1. Ahead(host.sqHead, dev.head, QueueSize) <= Ahead(host.sqHead, dev.tail, QueueSize)
    BY <1>1 DEF Sides, Known
  <2>. QED BY <2>1, <1>2, SidesAre, OnTheWay, Zenon
<1>4. /\ Between(dev.head, (dev.tail + 1) % QueueSize, QueueSize)
           = Between(dev.head, dev.tail, QueueSize) \cup {dev.tail}
      /\ dev.tail \notin Between(dev.head, dev.tail, QueueSize)
  BY <1>3, SidesAre, EndMoves, Zenon
<1>5. ASSUME host' = Submitted, dev' = Rung
      PROVE  RingInv' /\ ToFetch' = ToFetch \cup {host.sqt} /\ ToTake' = ToTake
  <2>1. /\ host'.sqt = (dev.tail + 1) % QueueSize /\ host'.sqHead = host.sqHead
        /\ host'.cqh = host.cqh /\ host'.pt = host.pt
        /\ dev'.tail = (dev.tail + 1) % QueueSize /\ dev'.head = dev.head
        /\ dev'.on = dev.on /\ dev'.ctail = dev.ctail /\ dev'.phase = dev.phase
        /\ dev'.chead = dev.chead
    BY <1>1, <1>2, <1>5 DEF Submitted, Rung, Types, HostType, DevType
  <2>2. ToFetch' = ToFetch \cup {host.sqt} /\ ToTake' = ToTake
    BY <2>1, <1>2, <1>4 DEF ToFetch, ToTake
  <2>3. Sides'
    BY <2>1, <1>1, <1>3 DEF Sides, Known
  <2>4. Phases' /\ Heads' /\ Running'
    BY <2>1, <2>2, <1>1 DEF Phases, Heads, Known, Running
  <2>. QED BY <2>2, <2>3, <2>4 DEF RingInv
<1>6. ASSUME host' = [host EXCEPT !.cid = (@ + 1) % Cids], UNCHANGED dev
      PROVE  RingInv' /\ ToFetch' = ToFetch /\ ToTake' = ToTake
  <2>1. /\ host'.sqt = host.sqt /\ host'.sqHead = host.sqHead
        /\ host'.cqh = host.cqh /\ host'.pt = host.pt
    BY <1>6 DEF Types, HostType
  <2>2. ToFetch' = ToFetch /\ ToTake' = ToTake
    BY <2>1, <1>6 DEF ToFetch, ToTake
  <2>. QED BY <2>1, <2>2, <1>1, <1>6 DEF RingInv, Sides, Phases, Heads, Known, Running
<1>. QED BY <1>1, <1>2, <1>4, <1>5, <1>6, SidesAre DEF ToFetch

\* The rings after NvmeControllerInit.
LEMMA ZeroRing ==
    ASSUME Types, RingInv, BlockingTimeout
    PROVE  RingInv' /\ ToFetch' = {} /\ ToTake' = {} /\ dev'.fly = {}
<1>1. /\ caller' = "idle"
      /\ host'.sqt = 0 /\ host'.sqHead = 0 /\ host'.cqh = 0 /\ host'.pt = 0
      /\ dev'.head = 0 /\ dev'.tail = 0 /\ dev'.chead = 0 /\ dev'.ctail = 0 /\ dev'.phase = 1
      /\ dev'.fly = {} /\ dev'.on = TRUE
      /\ \A k \in 0 .. CqSize - 1 : cq'[k].phase = 0
  BY DEF BlockingTimeout, ZeroHost, DevReady, DevOff, ZeroCq
<1>2. Ahead(0, 0, QueueSize) = 0 /\ Ahead(0, 0, CqSize) = 0
  BY DEF Ahead
<1>3. \A k \in 0 .. QueueSize - 1 : ~(Ahead(0, k, QueueSize) < 0)
  BY SidesAre DEF Ahead
<1>4. \A k \in 0 .. CqSize - 1 : ~(Ahead(0, k, CqSize) < 0)
  BY SidesAre DEF Ahead
<1>5. ToFetch' = {} /\ ToTake' = {}
  BY <1>1, <1>2, <1>3, <1>4 DEF ToFetch, ToTake, Between
<1>6. Sides' /\ Running'
  BY <1>1, <1>2 DEF Sides, Known, Running
<1>7. Phases' /\ Heads'
  BY <1>1, <1>5, SidesAre DEF Phases, Heads
<1>. QED BY <1>1, <1>5, <1>6, <1>7 DEF RingInv

LEMMA RingInvStep == NoReset /\ Types /\ RingInv /\ [Next]_nvmeVars => RingInv' /\ NoReset'
<1> SUFFICES ASSUME NoReset, Types, RingInv, [Next]_nvmeVars
             PROVE  RingInv' /\ NoReset'
  OBVIOUS
<1>0. NoReset'
  <2>1. faults' = faults
    BY ZenonT(60) DEF Next, nvmeVars, StartRead, Caller, QueuePart, QueuePartFails, TimerTick, Handler,
           SubmitEnds, Discard, Submit, SubmitFails, Reap, ReapEnds, Callback, Controller,
           Fetch, Execute, BlockingTimeout, BlockingTimeoutDead, Reset, ResetBegins,
           ResetDisables, ResetClears, ResetEnds, ResetFails
  <2>. QED BY <2>1, SMTT(60) DEF NoReset
<1> SUFFICES RingInv'
  BY <1>0
<1>1. Running
  BY DEF RingInv
<1>2. ASSUME UNCHANGED <<armed, host, cq, dev>>, caller' \in {"idle", "read"},
             dev.on \/ tick' = "idle"
      PROVE  RingInv'
  BY <1>1, <1>2 DEF RingInv, Running, Sides, Phases, Heads, Known, ToTake
<1>3. CASE \E r \in Requests : StartRead(r) \/ QueuePart(r) \/ QueuePartFails(r)
  <2>1. /\ UNCHANGED <<armed, host, cq, dev>> /\ caller' \in {"idle", "read"} /\ tick' = "idle"
    BY <1>1, <1>3 DEF StartRead, QueuePart, QueuePartFails, BelowNotify, Running
  <2>. QED BY <2>1, <1>2
<1>4. CASE TimerTick
  <2>1. UNCHANGED <<caller, armed, host, cq, dev>> /\ dev.on
    BY <1>1, <1>4, SidesAre DEF TimerTick, Running
  <2>. QED BY <2>1, <1>1, <1>2 DEF Running
<1>5. CASE SubmitEnds \/ Discard
  <2>1. UNCHANGED <<caller, armed, host, cq, dev>> /\ dev.on
    BY <1>1, <1>5, SidesAre DEF SubmitEnds, Discard, Running
  <2>. QED BY <2>1, <1>1, <1>2 DEF Running
<1>6. CASE Callback
  <2>1. UNCHANGED <<caller, armed, host, cq, dev>> /\ tick' = "idle"
    BY <1>6 DEF Callback
  <2>. QED BY <2>1, <1>1, <1>2 DEF Running
<1>7. CASE Submit
  BY <1>7, SubmitRing DEF Submit
<1>8. CASE \E why \in {"map", "memory"} : SubmitFails(why)
  <2>1. PICK why : SubmitFails(why)
    BY <1>8
  <2>2. /\ tick = "submit" /\ ~RingFull /\ UNCHANGED <<caller, tick, armed, cq>>
        /\ \/ host' = Submitted /\ dev' = Rung
           \/ host' = [host EXCEPT !.cid = (@ + 1) % Cids] /\ UNCHANGED dev
    BY <2>1 DEF SubmitFails
  <2>. QED BY <2>2, SubmitRing
<1>9. CASE Reap
  BY <1>1, <1>9, SidesAre, ReapRing DEF Reap, Running
<1>10. CASE ReapEnds
  BY <1>10, ReapEndsRing
<1>11. CASE Controller
  BY <1>11, FetchRing, ExecuteRing DEF Controller
<1>12. CASE BlockingTimeout
  BY <1>12, ZeroRing
<1>13. CASE BlockingTimeoutDead
  <2>1. /\ dev'.on = FALSE /\ armed' = FALSE /\ tick' = "idle" /\ caller' = "idle"
    BY <1>13 DEF BlockingTimeoutDead, BelowNotify, DevOff
  <2>. QED BY <2>1 DEF RingInv, Running
<1>14. CASE Reset
  BY <1>1, <1>14 DEF Reset, ResetBegins, ResetDisables, ResetClears, ResetEnds, ResetFails,
                     NoReset, Running
<1>15. CASE UNCHANGED nvmeVars
  <2>1. UNCHANGED <<caller, tick, armed, host, cq, dev>>
    BY <1>15 DEF nvmeVars
  <2>. QED BY <2>1, <1>1, <1>2, SidesAre DEF Running
<1>. QED BY <1>3, <1>4, <1>5, <1>6, <1>7, <1>8, <1>9, <1>10, <1>11, <1>12, <1>13, <1>14,
            <1>15 DEF Next, Caller, Handler

-----------------------------------------------------------------------------
(***************************************************************************)
(* Command identifiers.  PassThru takes the next number of 16 bits and     *)
(* does not look whether a command with it is still under way, so what     *)
(* follows is about behaviours in which none is: no command stays          *)
(* unanswered while 2^16 later ones are submitted.                         *)
(***************************************************************************)
NotOvertaken ==
    NoReset /\ dev.on /\ tick = "submit" /\ unsub # <<>> =>
        /\ \A k \in DOMAIN async : async[k].cid # host.cid
        /\ \A c \in Outstanding : c.cid # host.cid
        /\ \A s \in ToTake : cq[s].cid # host.cid

\* The commands the controller has still to answer.
Pending == dev.fly \cup {sq[k] : k \in ToFetch}

\* An identifier names one command at a time, in the queue and in the rings.
Apart ==
    \A j, k \in DOMAIN async : async[j].cid = async[k].cid => j = k

Distinct ==
    /\ \A c, e \in dev.fly : c.cid = e.cid => c = e
    /\ \A c \in dev.fly, k \in ToFetch : c.cid # sq[k].cid
    /\ \A j, k \in ToFetch : sq[j].cid = sq[k].cid => j = k

\* It is that of the same subtask, and has no completion yet.
Matched ==
    \A c \in Pending :
        /\ c.task \in Task
        /\ \A k \in DOMAIN async : async[k].cid = c.cid => async[k].task = c.task
        /\ \A s \in ToTake : cq[s].cid # c.cid

\* A completion without an error is that of a subtask whose data is there.
Transferred ==
    \A s \in ToTake, k \in DOMAIN async :
        ~cq[s].error /\ async[k].cid = cq[s].cid => async[k].task \in moved

CommandInv == Apart /\ (dev.on => Distinct /\ Matched /\ Transferred)

LEMMA PendingIs ==
    ASSUME Types
    PROVE  /\ Outstanding = IF dev.on THEN Pending ELSE {}
           /\ \A c : c \in Pending <=> c \in dev.fly \/ \E k \in ToFetch : c = sq[k]
BY WaitingIs DEF Pending

LEMMA CommandInvInit == Init => CommandInv
<1> SUFFICES ASSUME Init
             PROVE  CommandInv
  OBVIOUS
<1>1. /\ dev.head = 0 /\ dev.tail = 0 /\ dev.fly = {} /\ dev.ctail = 0 /\ host.cqh = 0
      /\ DOMAIN async = {}
  BY DEF Init, ZeroHost, DevReady, DevOff
<1>2. ToTake = {} /\ ToFetch = {}
  BY <1>1, QueueAssumption DEF ToTake, ToFetch, Between, Ahead
<1>. QED BY <1>1, <1>2 DEF CommandInv, Apart, Distinct, Matched, Transferred, Pending

\* A completion that names no command leaves the queue as it is; else the command leaves
\* the queue and its subtask joins those whose callback waits.
LEMMA ReapIs ==
    ASSUME Types, Reap
    PROVE  \/ /\ UNCHANGED <<async, notify, failed>>
              /\ \A i \in DOMAIN async : async[i].cid # cq[host.cqh].cid
           \/ \E k \in DOMAIN async :
                 /\ async[k].cid = cq[host.cqh].cid
                 /\ notify' = Append(notify, async[k].task)
                 /\ failed' = IF cq[host.cqh].error THEN failed \cup {async[k].task}
                                                    ELSE failed \ {async[k].task}
                 /\ \A i \in DOMAIN async' :
                       LET j == IF i < k THEN i ELSE i + 1
                       IN  j \in DOMAIN async /\ j # k /\ async'[i] = async[j]
                 /\ \A j \in DOMAIN async \ {k} : \E i \in DOMAIN async' : async'[i] = async[j]
<1> PICK e : e = cq[host.cqh]
  OBVIOUS
<1> PICK k : k = CHOOSE i \in Taken(e) : \A j \in Taken(e) : i <= j
  OBVIOUS
<1>1. \/ Taken(e) = {} /\ UNCHANGED <<async, notify, failed>>
      \/ /\ Taken(e) # {} /\ async' = RemoveAt(async, k)
         /\ notify' = Append(notify, async[k].task)
         /\ failed' = IF e.error THEN failed \cup {async[k].task} ELSE failed \ {async[k].task}
  BY DEF Reap
<1>2. CASE Taken(e) = {}
  BY <1>1, <1>2 DEF Taken
<1>3. CASE Taken(e) # {}
  <2>1. k \in DOMAIN async /\ async[k].cid = e.cid
    BY <1>3, TakenIs DEF Types
  <2> PICK m : m = Len(async)
    OBVIOUS
  <2>2. /\ m \in Nat /\ DOMAIN async = 1 .. m /\ DOMAIN async' = 1 .. m - 1
        /\ \A j \in 1 .. m - 1 : async'[j] = IF j < k THEN async[j] ELSE async[j + 1]
    <3>1. async' = RemoveAt(async, k) /\ async \in Seq(Entry)
      BY <1>1, <1>3 DEF Types
    <3>. QED BY <3>1, <2>1, RemoveAtIs
  <2>3. k \in 1 .. m
    BY <2>1, <2>2
  <2>4. ASSUME NEW i \in 1 .. m - 1, NEW j, j = IF i < k THEN i ELSE i + 1
        PROVE  j \in 1 .. m /\ j # k /\ async'[i] = async[j]
    <3>1. j \in 1 .. m /\ j # k
      BY ONLY <2>3, <2>4, m \in Nat, i \in 1 .. m - 1
    <3>2. async'[i] = IF i < k THEN async[i] ELSE async[i + 1]
      BY <2>2
    <3>. QED BY <2>4, <3>1, <3>2, SMTT(60)
  <2>5. ASSUME NEW j \in (1 .. m) \ {k}
        PROVE  \E i \in 1 .. m - 1 : async'[i] = async[j]
    <3> PICK i : i = IF j < k THEN j ELSE j - 1
      BY ZenonT(60)
    <3>1. i \in 1 .. m - 1 /\ j = IF i < k THEN i ELSE i + 1
      BY ONLY <2>2, <2>3, j \in (1 .. m) \ {k}, i = IF j < k THEN j ELSE j - 1
    <3>2. async'[i] = async[j]
      BY <3>1, <2>4, ZenonT(60)
    <3>. QED BY <3>1, <3>2, ZenonT(60)
  <2>6. /\ async[k].cid = cq[host.cqh].cid
        /\ notify' = Append(notify, async[k].task)
        /\ failed' = IF cq[host.cqh].error THEN failed \cup {async[k].task}
                                           ELSE failed \ {async[k].task}
    BY <1>1, <1>3, <2>1
  <2>7. \A i \in DOMAIN async' :
           LET j == IF i < k THEN i ELSE i + 1
           IN  j \in DOMAIN async /\ j # k /\ async'[i] = async[j]
    BY <2>2, <2>4
  <2>8. \A j \in DOMAIN async \ {k} : \E i \in DOMAIN async' : async'[i] = async[j]
    BY <2>2, <2>5
  <2>. QED BY <2>1, <2>6, <2>7, <2>8
<1>. QED BY <1>2, <1>3

LEMMA FetchCommands ==
    ASSUME Types, RingInv, CommandInv, Fetch
    PROVE  CommandInv' /\ Pending' = Pending
<1>1. /\ dev.on /\ UNCHANGED <<host, sq, cq, async, moved>>
      /\ dev'.fly = dev.fly \cup {sq[dev.head]} /\ dev'.on = dev.on
      /\ ToFetch' = ToFetch \ {dev.head} /\ dev.head \in ToFetch /\ ToTake' = ToTake
  BY FetchRing DEF Fetch, Types, DevType
<1>2. Apart /\ Distinct /\ Matched /\ Transferred
  BY <1>1 DEF CommandInv
<1>3. Pending' = Pending
  BY <1>1 DEF Pending
<1>4. Distinct'
  <2>1. /\ \A c \in dev.fly : c.cid # sq[dev.head].cid
        /\ \A k \in ToFetch \ {dev.head} : sq[dev.head].cid # sq[k].cid
    BY <1>1, <1>2 DEF Distinct
  <2>. QED BY <2>1, <1>1, <1>2 DEF Distinct
<1>5. Matched' /\ Transferred' /\ Apart'
  BY <1>1, <1>2, <1>3 DEF Matched, Transferred, Apart
<1>. QED BY <1>3, <1>4, <1>5 DEF CommandInv

LEMMA ExecuteCommands ==
    ASSUME Types, RingInv, CommandInv, NEW c \in dev.fly, NEW error \in BOOLEAN,
           Execute(c, error)
    PROVE  CommandInv' /\ Pending' \subseteq Pending
<1>1. /\ dev.on /\ UNCHANGED <<host, sq, async>>
      /\ dev'.fly = dev.fly \ {c} /\ dev'.on = dev.on
      /\ ToFetch' = ToFetch /\ ToTake' = ToTake \cup {dev.ctail} /\ dev.ctail \notin ToTake
      /\ \A s \in ToTake : cq'[s] = cq[s]
      /\ cq'[dev.ctail].cid = c.cid /\ cq'[dev.ctail].error = error
      /\ moved \subseteq moved' /\ (~error => {c.task} \cap Task \subseteq moved')
  BY ExecuteRing, SidesAre, PositionsAre DEF Execute, Types, DevType
<1>2. Apart /\ Distinct /\ Matched /\ Transferred
  BY <1>1 DEF CommandInv
<1>3. /\ Pending' \subseteq Pending /\ c \in Pending
      /\ \A d \in Pending' : d.cid # c.cid
  BY <1>1, <1>2 DEF Pending, Distinct
<1>4. Distinct' /\ Apart'
  BY <1>1, <1>2 DEF Distinct, Apart
<1>5. Matched'
  BY <1>1, <1>2, <1>3 DEF Matched
<1>6. Transferred'
  BY <1>1, <1>2, <1>3 DEF Transferred, Matched
<1>. QED BY <1>3, <1>4, <1>5, <1>6 DEF CommandInv

\* A command handed to the controller, with an entry in the queue or, when there was no
\* memory for one, without.
LEMMA SubmitCommands ==
    ASSUME Types, RingInv, CommandInv, NotOvertaken, NoReset, NEW t \in Task,
           tick = "submit", unsub # <<>>, ~RingFull, Filled(t),
           host' = Submitted, dev' = Rung,
           async' = Append(async, [cid |-> host.cid, task |-> t]) \/ UNCHANGED async,
           UNCHANGED <<caller, tick, armed, cq, moved>>
    PROVE  CommandInv' /\ dev'.on /\ Pending' = Pending \cup {[cid |-> host.cid, task |-> t]}
<1> PICK c : c = [cid |-> host.cid, task |-> t]
  OBVIOUS
<1>1. /\ dev.on /\ host.sqt \notin ToFetch /\ host.sqt \in 0 .. QueueSize - 1
      /\ ToFetch' = ToFetch \cup {host.sqt} /\ ToTake' = ToTake
  BY SubmitRing
<1>2. /\ dev'.fly = dev.fly /\ dev'.on = dev.on
      /\ sq'[host.sqt] = c /\ \A k \in ToFetch : sq'[k] = sq[k]
      /\ c.cid = host.cid /\ c.task = t
  <2>1. sq' = [sq EXCEPT ![host.sqt] = c] /\ c.cid = host.cid /\ c.task = t
    BY DEF Filled
  <2>2. dev'.fly = dev.fly /\ dev'.on = dev.on
    BY DEF Rung, Types, DevType
  <2>3. \A k \in ToFetch : k \in 0 .. QueueSize - 1 /\ k # host.sqt
    BY <1>1, PositionsAre
  <2>. QED BY <1>1, <2>1, <2>2, <2>3 DEF Types
<1>3. Apart /\ Distinct /\ Matched /\ Transferred
  BY <1>1 DEF CommandInv
<1>4. /\ \A k \in DOMAIN async : async[k].cid # c.cid
      /\ \A d \in Pending : d.cid # c.cid
      /\ \A s \in ToTake : cq[s].cid # c.cid
  BY <1>1, <1>2, PendingIs DEF NotOvertaken
<1>5. Pending' = Pending \cup {c}
  BY <1>1, <1>2 DEF Pending
<1>6. /\ \A k \in DOMAIN async' :
            \/ k \in DOMAIN async /\ async'[k] = async[k]
            \/ k \notin DOMAIN async /\ async'[k] = c
      /\ \A j, k \in DOMAIN async' : j \notin DOMAIN async /\ k \notin DOMAIN async => j = k
  <2>1. CASE UNCHANGED async
    BY <2>1
  <2>2. CASE async' = Append(async, c)
    <3>1. c \in Entry /\ async \in Seq(Entry)
      BY FilledTypes DEF Types
    <3>2. /\ Len(async) \in Nat /\ DOMAIN async = 1 .. Len(async)
          /\ DOMAIN async' = 1 .. Len(async) + 1
          /\ \A k \in DOMAIN async' : async'[k] = IF k = Len(async) + 1 THEN c ELSE async[k]
      BY <3>1, <2>2, AppendIs
    <3>. QED BY <3>2
  <2>. QED BY <2>1, <2>2
<1>7. Apart'
  BY <1>3, <1>4, <1>6 DEF Apart
<1>8. Distinct'
  <2>1. \A k \in ToFetch : sq[k].cid # c.cid
    BY <1>4 DEF Pending
  <2>2. \A d \in dev.fly : d.cid # c.cid
    BY <1>4 DEF Pending
  <2>. QED BY <2>1, <2>2, <1>1, <1>2, <1>3 DEF Distinct
<1>9. Matched'
  <2>1. ASSUME NEW d \in Pending \cup {c}
        PROVE  /\ d.task \in Task
               /\ \A k \in DOMAIN async' : async'[k].cid = d.cid => async'[k].task = d.task
               /\ \A s \in ToTake : cq[s].cid # d.cid
    <3>1. CASE d \in Pending
      BY <3>1, <1>3, <1>4, <1>6 DEF Matched
    <3>2. CASE d = c
      BY <3>2, <1>2, <1>4, <1>6
    <3>. QED BY <3>1, <3>2
  <2>. QED BY <2>1, <1>1, <1>5 DEF Matched
<1>10. Transferred'
  BY <1>1, <1>3, <1>4, <1>6 DEF Transferred
<1>. QED BY <1>1, <1>2, <1>5, <1>7, <1>8, <1>9, <1>10 DEF CommandInv

\* A buffer that cannot be mapped: the entry was filled, and is filled again next time.
LEMMA UnmappedCommands ==
    ASSUME Types, RingInv, CommandInv, NEW t \in Task,
           tick = "submit", ~RingFull, Filled(t),
           host' = [host EXCEPT !.cid = (@ + 1) % Cids],
           UNCHANGED <<caller, tick, armed, cq, dev, async, moved>>
    PROVE  CommandInv' /\ Pending' = Pending
<1>1. /\ dev.on /\ host.sqt \notin ToFetch /\ ToFetch' = ToFetch /\ ToTake' = ToTake
  BY SubmitRing
<1>2. \A k \in ToFetch : sq'[k] = sq[k]
  BY <1>1, PositionsAre DEF Filled, Types
<1>3. Apart /\ Distinct /\ Matched /\ Transferred
  BY <1>1 DEF CommandInv
<1>4. Pending' = Pending
  BY <1>1, <1>2 DEF Pending
<1>5. Distinct'
  BY <1>1, <1>2, <1>3 DEF Distinct
<1>6. Apart' /\ Matched' /\ Transferred'
  BY <1>1, <1>3, <1>4 DEF Apart, Matched, Transferred
<1>. QED BY <1>4, <1>5, <1>6 DEF CommandInv

LEMMA ReapCommands ==
    ASSUME Types, RingInv, CommandInv, dev.on, Reap
    PROVE  CommandInv' /\ Pending' = Pending
<1>1. /\ ToFetch' = ToFetch /\ ToTake' = ToTake \ {host.cqh} /\ host.cqh \in ToTake
      /\ UNCHANGED <<sq, cq, dev, moved>>
  BY ReapRing DEF Reap
<1>2. Apart /\ Distinct /\ Matched /\ Transferred
  BY DEF CommandInv
<1>3. Pending' = Pending
  BY <1>1 DEF Pending
<1>4. /\ \A i \in DOMAIN async' : \E j \in DOMAIN async : async'[i] = async[j]
      /\ \A i, l \in DOMAIN async' : async'[i].cid = async'[l].cid => i = l
  <2>1. CASE UNCHANGED async
    BY <2>1, <1>2 DEF Apart
  <2>2. CASE ~UNCHANGED async
    <3>1. PICK k \in DOMAIN async :
             \A i \in DOMAIN async' :
                LET j == IF i < k THEN i ELSE i + 1
                IN  j \in DOMAIN async /\ j # k /\ async'[i] = async[j]
      BY <2>2, ReapIs
    <3>2. DOMAIN async \subseteq Nat /\ DOMAIN async' \subseteq Nat
      <4>1. async \in Seq(Entry) /\ async' \in Seq(Entry)
        BY ReapTypes DEF Types
      <4>. QED BY <4>1, LenProperties
    <3>3. \A i \in DOMAIN async' : \E j \in DOMAIN async : async'[i] = async[j]
      BY <3>1
    <3>4. ASSUME NEW i \in DOMAIN async', NEW l \in DOMAIN async', async'[i].cid = async'[l].cid
          PROVE  i = l
      <4>1. (IF i < k THEN i ELSE i + 1) = (IF l < k THEN l ELSE l + 1)
        BY <3>1, <3>4, <1>2 DEF Apart
      <4>. QED BY <4>1, <3>2
    <3>. QED BY <3>3, <3>4
  <2>. QED BY <2>1, <2>2
<1>5. Apart'
  BY <1>4 DEF Apart
<1>6. Distinct' /\ Matched' /\ Transferred'
  BY <1>1, <1>2, <1>3, <1>4 DEF Distinct, Matched, Transferred
<1>. QED BY <1>3, <1>5, <1>6 DEF CommandInv

\* A new read forgets what was transferred for the last one of its request.
LEMMA StartReadCommands ==
    ASSUME Types, RequestInv, CommandInv, NEW r \in Requests, StartRead(r)
    PROVE  CommandInv' /\ Pending' = Pending
<1>1. /\ UNCHANGED <<host, sq, cq, dev, async>> /\ moved' = {t \in moved : t[1] # r}
      /\ ~req[r].live
  BY FieldsAre DEF StartRead, RequestInv, Told
<1>2. \A k \in DOMAIN async : async[k].task[1] # r
  BY <1>1, FreedHoldsNothing
<1>3. ToFetch' = ToFetch /\ ToTake' = ToTake /\ Pending' = Pending
  BY <1>1 DEF ToFetch, ToTake, Pending
<1>4. dev.on => Transferred'
  BY <1>1, <1>2, <1>3 DEF CommandInv, Transferred
<1>. QED BY <1>1, <1>3, <1>4 DEF CommandInv, Apart, Distinct, Matched

LEMMA CommandInvStep ==
    NoReset /\ Types /\ RequestInv /\ RingInv /\ CommandInv /\ NotOvertaken /\ [Next]_nvmeVars
       => CommandInv'
<1> SUFFICES ASSUME NoReset, Types, RequestInv, RingInv, CommandInv, NotOvertaken,
                    [Next]_nvmeVars
             PROVE  CommandInv'
  OBVIOUS
<1>1. ASSUME UNCHANGED <<host, sq, cq, dev, async, moved>>
      PROVE  CommandInv'
  BY <1>1 DEF CommandInv, Apart, Distinct, Matched, Transferred, Pending, ToFetch, ToTake
<1>2. CASE \E r \in Requests : StartRead(r)
  BY <1>2, StartReadCommands
<1>3. CASE Caller \/ TimerTick
  BY <1>1, <1>3 DEF Caller, QueuePart, QueuePartFails, TimerTick
<1>4. CASE SubmitEnds \/ Discard \/ Callback
  BY <1>1, <1>4 DEF SubmitEnds, Discard, Callback
<1>5. CASE Submit
  <2>1. Head(unsub) \in Task
    BY <1>5, TailIs DEF Types, Submit
  <2>. QED BY <1>5, <2>1, SubmitCommands DEF Submit
<1>6. ASSUME NEW why \in {"map", "memory"}, SubmitFails(why)
      PROVE  CommandInv'
  <2>1. Head(unsub) \in Task
    BY <1>6, TailIs DEF Types, SubmitFails
  <2>2. CASE why = "memory"
    BY <1>6, <2>1, <2>2, SubmitCommands DEF SubmitFails
  <2>3. CASE why # "memory"
    BY <1>6, <2>1, <2>3, UnmappedCommands DEF SubmitFails
  <2>. QED BY <2>2, <2>3
<1>7. CASE Reap
  <2>1. dev.on
    BY <1>7, SidesAre DEF RingInv, Running, Reap
  <2>. QED BY <1>7, <2>1, ReapCommands
<1>8. CASE ReapEnds
  <2>1. ToFetch' = ToFetch /\ ToTake' = ToTake
    BY <1>8, ReapEndsRing
  <2>2. UNCHANGED <<sq, cq, async, moved>> /\ dev'.fly = dev.fly /\ dev'.on = dev.on
    BY <1>8 DEF ReapEnds, HeadRung, Types, DevType
  <2>. QED BY <2>1, <2>2 DEF CommandInv, Apart, Distinct, Matched, Transferred, Pending
<1>9. CASE Controller
  BY <1>9, FetchCommands, ExecuteCommands DEF Controller
<1>10. CASE BlockingTimeout
  <2>1. ToFetch' = {} /\ ToTake' = {} /\ dev'.fly = {}
    BY <1>10, ZeroRing
  <2>2. DOMAIN async' = {}
    BY <1>10 DEF BlockingTimeout, AbortAll
  <2>. QED BY <2>1, <2>2 DEF CommandInv, Apart, Distinct, Matched, Transferred, Pending
<1>11. CASE BlockingTimeoutDead
  <2>1. dev'.on = FALSE /\ UNCHANGED async
    BY <1>11 DEF BlockingTimeoutDead, DevOff
  <2>. QED BY <2>1 DEF CommandInv, Apart
<1>12. CASE Reset
  <2>1. CASE ResetBegins
    BY <2>1 DEF ResetBegins, NoReset
  <2>2. CASE ~ResetBegins
    BY <1>12, <2>2 DEF Reset, ResetDisables, ResetClears, ResetEnds, ResetFails, RingInv, Running
  <2>. QED BY <2>1, <2>2
<1>13. CASE UNCHANGED nvmeVars
  BY <1>1, <1>13 DEF nvmeVars
<1>. QED BY <1>2, <1>3, <1>4, <1>5, <1>6, <1>7, <1>8, <1>9, <1>10, <1>11, <1>12, <1>13
         DEF Next, Handler

-----------------------------------------------------------------------------
(***************************************************************************)
(* As long as PassThru never submits a command it has no memory to         *)
(* remember, every command the controller has is in AsyncPassThruQueue.    *)
(***************************************************************************)
Mapped == faults \cap {"memory", "reset", "resetEx"} = {}

Remembered == dev.on => \A c \in Pending : \E k \in DOMAIN async : async[k] = c

LEMMA RememberedInit == Init => Remembered
<1> SUFFICES ASSUME Init
             PROVE  Remembered
  OBVIOUS
<1>1. dev.head = 0 /\ dev.tail = 0 /\ dev.fly = {}
  BY DEF Init, DevReady, DevOff
<1>2. ToFetch = {}
  BY <1>1, QueueAssumption DEF ToFetch, Between, Ahead
<1>. QED BY <1>1, <1>2 DEF Remembered, Pending

LEMMA ReapRemembered ==
    ASSUME Types, RingInv, CommandInv, Remembered, dev.on, Reap
    PROVE  Remembered'
<1>1. Pending' = Pending /\ UNCHANGED dev /\ host.cqh \in ToTake
  BY ReapCommands, ReapRing DEF Reap
<1>2. ASSUME NEW c \in Pending
      PROVE  \E i \in DOMAIN async' : async'[i] = c
  <2>1. PICK j \in DOMAIN async : async[j] = c
    BY <1>2 DEF Remembered
  <2>2. c.cid # cq[host.cqh].cid
    BY <1>1, <1>2 DEF CommandInv, Matched
  <2>3. CASE UNCHANGED async
    BY <2>1, <2>3
  <2>4. CASE ~UNCHANGED async
    <3>1. PICK k \in DOMAIN async :
             /\ async[k].cid = cq[host.cqh].cid
             /\ \A l \in DOMAIN async \ {k} : \E i \in DOMAIN async' : async'[i] = async[l]
      BY <2>4, ReapIs
    <3>2. j # k
      BY <2>1, <2>2, <3>1
    <3>. QED BY <2>1, <3>1, <3>2
  <2>. QED BY <2>3, <2>4
<1>. QED BY <1>1, <1>2 DEF Remembered

LEMMA SubmitRemembered ==
    ASSUME Types, RingInv, CommandInv, NotOvertaken, NoReset, Remembered, Submit
    PROVE  Remembered'
<1> PICK c : c = [cid |-> host.cid, task |-> Head(unsub)]
  OBVIOUS
<1>1. Head(unsub) \in Task
  BY TailIs DEF Types, Submit
<1>2. c \in Entry /\ async \in Seq(Entry) /\ async' = Append(async, c)
  BY <1>1, FilledTypes DEF Types, Submit
<1>3. /\ Len(async) \in Nat /\ DOMAIN async = 1 .. Len(async)
      /\ DOMAIN async' = 1 .. Len(async) + 1
      /\ \A k \in DOMAIN async' : async'[k] = IF k = Len(async) + 1 THEN c ELSE async[k]
  BY <1>2, AppendIs
<1>4. /\ \A k \in DOMAIN async : k \in DOMAIN async' /\ async'[k] = async[k]
      /\ Len(async) + 1 \in DOMAIN async' /\ async'[Len(async) + 1] = c
  BY <1>3
<1>5. Pending' = Pending \cup {c} /\ dev.on
  BY <1>1, SubmitCommands, SubmitRing DEF Submit
<1>. QED BY <1>4, <1>5 DEF Remembered

LEMMA RememberedStep ==
    Mapped /\ Types /\ RequestInv /\ RingInv /\ CommandInv /\ NotOvertaken /\ Remembered
      /\ [Next]_nvmeVars
       => Remembered'
<1> SUFFICES ASSUME Mapped, Types, RequestInv, RingInv, CommandInv, NotOvertaken, Remembered,
                    [Next]_nvmeVars
             PROVE  Remembered'
  OBVIOUS
<1>0. NoReset
  BY DEF Mapped, NoReset
<1>1. ASSUME UNCHANGED <<host, sq, dev, async>>
      PROVE  Remembered'
  BY <1>1 DEF Remembered, Pending, ToFetch
<1>2. CASE (\E r \in Requests : StartRead(r)) \/ Caller \/ TimerTick
  BY <1>1, <1>2 DEF StartRead, Caller, QueuePart, QueuePartFails, TimerTick
<1>3. CASE SubmitEnds \/ Discard \/ Callback
  BY <1>1, <1>3 DEF SubmitEnds, Discard, Callback
<1>4. CASE Submit
  BY <1>0, <1>4, SubmitRemembered
<1>5. ASSUME NEW why \in {"map", "memory"}, SubmitFails(why)
      PROVE  Remembered'
  <2>1. Head(unsub) \in Task /\ why # "memory"
    BY <1>5, TailIs DEF Types, SubmitFails, Mapped
  <2>2. Pending' = Pending /\ UNCHANGED <<dev, async>>
    BY <1>5, <2>1, UnmappedCommands DEF SubmitFails
  <2>. QED BY <2>2 DEF Remembered
<1>6. CASE Reap
  <2>1. dev.on
    BY <1>6, SidesAre DEF RingInv, Running, Reap
  <2>. QED BY <1>6, <2>1, ReapRemembered
<1>7. CASE ReapEnds
  <2>1. ToFetch' = ToFetch
    BY <1>7, ReapEndsRing
  <2>2. UNCHANGED <<sq, async>> /\ dev'.fly = dev.fly /\ dev'.on = dev.on
    BY <1>7 DEF ReapEnds, HeadRung, Types, DevType
  <2>. QED BY <2>1, <2>2 DEF Remembered, Pending
<1>8. CASE Controller
  <2>1. Pending' \subseteq Pending /\ dev.on /\ UNCHANGED async
    BY <1>8, FetchCommands, ExecuteCommands DEF Controller, Fetch, Execute
  <2>. QED BY <2>1 DEF Remembered
<1>9. CASE BlockingTimeout
  <2>1. Pending' = {}
    BY <1>9, ZeroRing DEF Pending
  <2>. QED BY <2>1 DEF Remembered
<1>10. CASE BlockingTimeoutDead
  BY <1>10 DEF BlockingTimeoutDead, DevOff, Remembered
<1>11. CASE Reset
  <2>1. CASE ResetBegins
    BY <2>1 DEF ResetBegins, Mapped
  <2>2. CASE ~ResetBegins
    BY <1>11, <2>2 DEF Reset, ResetDisables, ResetClears, ResetEnds, ResetFails, RingInv, Running
  <2>. QED BY <2>1, <2>2
<1>12. CASE UNCHANGED nvmeVars
  BY <1>1, <1>12 DEF nvmeVars
<1>. QED BY <1>2, <1>3, <1>4, <1>5, <1>6, <1>7, <1>8, <1>9, <1>10, <1>11, <1>12
         DEF Next, Handler

-----------------------------------------------------------------------------
(***************************************************************************)
(* Where the parts of a request are.  As long as nobody resets the         *)
(* controller, each part of a request that has not failed waits in a list, *)
(* has yet to be queued, is one of the subtasks the request still counts,  *)
(* or has its data; and a subtask whose callback waits has its data unless *)
(* its completion carried an error.                                        *)
(***************************************************************************)
Intact == faults \cap {"timeout", "reset", "resetEx"} = {}

Verdicts == \A k \in DOMAIN notify : notify[k] \in failed \cup moved

AccountedFor(r, i) ==
    \/ \E k \in DOMAIN unsub : unsub[k] = <<r, i>>
    \/ req[r].next > 0 /\ req[r].next <= i
    \/ i \in req[r].subs
    \/ <<r, i>> \in moved

Whole ==
    \A r \in Requests : req[r].live /\ token[r].status = "success" =>
        \A i \in 1 .. Parts[r] : AccountedFor(r, i)

Delivered ==
    \A r \in Requests :
        token[r] = [event |-> "signalled", status |-> "success"]
            => \A i \in 1 .. Parts[r] : <<r, i>> \in moved

Data == Verdicts /\ Whole /\ Delivered

LEMMA DataInit == Init => Data
BY DEF Init, NoRequest, NoToken, Data, Verdicts, Whole, Delivered

LEMMA StartReadData ==
    ASSUME Types, Data, NEW r \in Requests, StartRead(r)
    PROVE  Data'
<1>1. /\ req'[r].next = 1 /\ \A q \in Requests \ {r} : req'[q] = req[q]
      /\ token'[r].event = "waiting" /\ \A q \in Requests \ {r} : token'[q] = token[q]
      /\ UNCHANGED unsub /\ DOMAIN notify' = {}
      /\ \A q \in Requests \ {r} : \A i : <<q, i>> \in moved => <<q, i>> \in moved'
  BY FieldsAre DEF StartRead, BelowNotify
<1>2. Verdicts'
  BY <1>1 DEF Verdicts
<1>3. ASSUME NEW q \in Requests, req'[q].live, token'[q].status = "success",
             NEW i \in 1 .. Parts[q]
      PROVE  AccountedFor(q, i)'
  <2>1. CASE q = r
    BY <2>1, <1>1, FieldsAre DEF AccountedFor
  <2>2. CASE q # r
    BY <2>2, <1>1, <1>3 DEF Data, Whole, AccountedFor
  <2>. QED BY <2>1, <2>2
<1>4. Delivered'
  <2>1. ASSUME NEW q \in Requests, token'[q] = [event |-> "signalled", status |-> "success"],
               NEW i \in 1 .. Parts[q]
        PROVE  <<q, i>> \in moved'
    <3>1. q # r
      BY <2>1, <1>1
    <3>. QED BY <3>1, <2>1, <1>1 DEF Data, Delivered
  <2>. QED BY <2>1 DEF Delivered
<1>. QED BY <1>2, <1>3, <1>4 DEF Data, Whole

LEMMA QueuePartData ==
    ASSUME Types, Data, NEW r \in Requests, QueuePart(r)
    PROVE  Data'
<1> PICK n : n = req[r].next
  OBVIOUS
<1>1. /\ n \in 1 .. Parts[r] /\ Parts[r] \in Nat /\ <<r, n>> \in Task
      /\ unsub' = Append(unsub, <<r, n>>)
      /\ req' = [req EXCEPT ![r].next = IF IsLast(<<r, n>>) THEN 0 ELSE n + 1]
      /\ UNCHANGED <<notify, token, failed, moved>>
  BY FieldsAre, TaskIs DEF QueuePart
<1>2. /\ req'[r].next = IF n = Parts[r] THEN 0 ELSE n + 1
      /\ req'[r].live = req[r].live /\ req'[r].subs = req[r].subs
      /\ \A q \in Requests \ {r} : req'[q] = req[q]
  <2>1. IsLast(<<r, n>>) <=> n = Parts[r]
    BY DEF IsLast
  <2>. QED BY <2>1, <1>1, FieldsAre DEF Shape
<1>3. /\ \A k \in DOMAIN unsub : k \in DOMAIN unsub' /\ unsub'[k] = unsub[k]
      /\ \E k \in DOMAIN unsub' : unsub'[k] = <<r, n>>
  <2>1. unsub \in Seq(Task)
    BY DEF Types
  <2>2. /\ Len(unsub) \in Nat /\ DOMAIN unsub = 1 .. Len(unsub)
        /\ DOMAIN unsub' = 1 .. Len(unsub) + 1
        /\ \A k \in DOMAIN unsub' : unsub'[k] = IF k = Len(unsub) + 1 THEN <<r, n>> ELSE unsub[k]
    BY <1>1, <2>1, AppendIs
  <2>. QED BY <2>2, SMTT(60)
<1>4. ASSUME NEW q \in Requests, req'[q].live, token'[q].status = "success",
             NEW i \in 1 .. Parts[q]
      PROVE  AccountedFor(q, i)'
  <2>1. AccountedFor(q, i)
    BY <1>1, <1>2, <1>4 DEF Data, Whole
  <2>2. CASE q = r
    <3>1. \/ \E k \in DOMAIN unsub : unsub[k] = <<r, i>>
          \/ n <= i
          \/ i \in req'[r].subs
          \/ <<r, i>> \in moved'
      BY <2>1, <2>2, <1>1, <1>2 DEF AccountedFor
    <3>2. n <= i => i = n \/ (n # Parts[r] /\ n + 1 <= i)
      BY <2>2, <1>1, <1>4
    <3>3. CASE n <= i /\ i # n
      BY <3>2, <3>3, <2>2, <1>1, <1>2 DEF AccountedFor
    <3>. QED BY <3>1, <3>2, <3>3, <2>2, <1>3 DEF AccountedFor
  <2>3. CASE q # r
    BY <2>1, <2>3, <1>1, <1>2, <1>3 DEF AccountedFor
  <2>. QED BY <2>2, <2>3
<1>5. Verdicts' /\ Delivered'
  BY <1>1 DEF Data, Verdicts, Delivered
<1>. QED BY <1>4, <1>5 DEF Data, Whole

LEMMA QueuePartFailsData ==
    ASSUME Types, RequestInv, Data, NEW r \in Requests, QueuePartFails(r)
    PROVE  Data'
<1>1. /\ UNCHANGED <<unsub, notify, failed, moved>>
      /\ \A q \in Requests \ {r} : req'[q] = req[q] /\ token'[q] = token[q]
      /\ \/ ~req'[r].live /\ token'[r].event = "idle"
         \/ token'[r].status = "device_error"
  <2>1. /\ token[r] \in TokenType /\ DOMAIN token = Requests /\ DOMAIN req = Requests
        /\ UNCHANGED <<unsub, notify, failed, moved>>
    BY FieldsAre DEF QueuePartFails
  <2>2. CASE /\ req' = [req EXCEPT ![r] = NoRequest]
             /\ token' = [token EXCEPT ![r].event = "idle"]
    BY <2>1, <2>2, NoRequestIs DEF TokenType
  <2>3. CASE /\ req' = [req EXCEPT ![r].last = TRUE, ![r].next = 0]
             /\ token' = [token EXCEPT ![r].status = "device_error"]
    <3>1. token'[r].status = "device_error"
      BY <2>1, <2>3 DEF TokenType
    <3>2. \A q \in Requests \ {r} : req'[q] = req[q] /\ token'[q] = token[q]
      BY <2>1, <2>3
    <3>. QED BY <3>1, <3>2, <2>1
  <2>. QED BY <2>1, <2>2, <2>3 DEF QueuePartFails
<1>2. ASSUME NEW q \in Requests, req'[q].live, token'[q].status = "success",
             NEW i \in 1 .. Parts[q]
      PROVE  AccountedFor(q, i)'
  <2>1. q # r
    BY <1>1, <1>2
  <2>. QED BY <2>1, <1>1, <1>2 DEF Data, Whole, AccountedFor
<1>3. Verdicts'
  BY <1>1 DEF Data, Verdicts
<1>4. Delivered'
  BY <1>1 DEF Data, Delivered
<1>. QED BY <1>2, <1>3, <1>4 DEF Data, Whole

\* The list loses its first subtask, which is accounted for otherwise or is of a request
\* that has failed.
LEMMA FirstLeaves ==
    ASSUME Types, unsub # <<>>, unsub' = Tail(unsub)
    PROVE  /\ Head(unsub) \in Task
           /\ \A k \in DOMAIN unsub :
                 unsub[k] = Head(unsub) \/ \E j \in DOMAIN unsub' : unsub'[j] = unsub[k]
<1>1. unsub \in Seq(Task)
  BY DEF Types
<1>2. /\ Len(unsub) \in Nat /\ DOMAIN unsub = 1 .. Len(unsub)
      /\ DOMAIN unsub' = 1 .. Len(unsub) - 1
      /\ Head(unsub) = unsub[1] /\ unsub[1] \in Task
      /\ \A k \in DOMAIN unsub' : unsub'[k] = unsub[k + 1]
  BY <1>1, TailIs
<1>3. ASSUME NEW k \in DOMAIN unsub, k # 1
      PROVE  \E j \in DOMAIN unsub' : unsub'[j] = unsub[k]
  <2>1. k - 1 \in DOMAIN unsub' /\ (k - 1) + 1 = k
    BY <1>2, <1>3
  <2>. QED BY <2>1, <1>2
<1>. QED BY <1>2, <1>3

\* A request whose token shows an error leaves nothing to account for.
LEMMA FailedData ==
    ASSUME Types, Data, NEW r \in Requests, unsub # <<>>, unsub' = Tail(unsub),
           Head(unsub)[1] = r,
           token'[r].status # "success",
           \A q \in Requests \ {r} : req'[q] = req[q] /\ token'[q] = token[q],
           UNCHANGED <<notify, failed, moved>>
    PROVE  Data'
<1>1. /\ Head(unsub) = <<r, Head(unsub)[2]>>
      /\ \A k \in DOMAIN unsub :
            unsub[k] = Head(unsub) \/ \E j \in DOMAIN unsub' : unsub'[j] = unsub[k]
  BY FirstLeaves, TaskIs
<1>2. ASSUME NEW q \in Requests, req'[q].live, token'[q].status = "success",
             NEW i \in 1 .. Parts[q]
      PROVE  AccountedFor(q, i)'
  <2>1. q # r
    BY <1>2
  <2>2. AccountedFor(q, i)
    BY <2>1, <1>2 DEF Data, Whole
  <2>3. <<q, i>> # Head(unsub)
    BY <1>1, <2>1
  <2>4. CASE \E k \in DOMAIN unsub : unsub[k] = <<q, i>>
    BY <1>1, <2>3, <2>4, SMTT(60) DEF AccountedFor
  <2>5. CASE ~\E k \in DOMAIN unsub : unsub[k] = <<q, i>>
    BY <2>1, <2>2, <2>5 DEF AccountedFor
  <2>. QED BY <2>4, <2>5
<1>3. Verdicts'
  BY DEF Data, Verdicts
<1>4. Delivered'
  <2>1. ASSUME NEW q \in Requests, token'[q] = [event |-> "signalled", status |-> "success"]
        PROVE  q # r
    BY <2>1
  <2>. QED BY <2>1 DEF Data, Delivered
<1>. QED BY <1>2, <1>3, <1>4 DEF Data, Whole

LEMMA DiscardData ==
    ASSUME Types, Data, Discard
    PROVE  Data'
<1> PICK r : r = Head(unsub)[1]
  OBVIOUS
<1>1. /\ r \in Requests /\ unsub # <<>> /\ unsub' = Tail(unsub) /\ token[r].status # "success"
      /\ Finished(r) \/ UNCHANGED <<req, token>>
      /\ UNCHANGED <<notify, failed, moved>>
  BY FirstLeaves, TaskIs DEF Discard
<1>2. /\ token'[r].status # "success"
      /\ \A q \in Requests \ {r} : req'[q] = req[q] /\ token'[q] = token[q]
  BY <1>1, FieldsAre DEF Finished, TokenType
<1>. QED BY <1>1, <1>2, FailedData

LEMMA SubmitFailsData ==
    ASSUME Types, Data, NEW why \in {"map", "memory"}, SubmitFails(why)
    PROVE  Data'
<1> PICK r : r = Head(unsub)[1]
  OBVIOUS
<1>1. /\ r \in Requests /\ unsub # <<>> /\ unsub' = Tail(unsub)
      /\ UNCHANGED <<notify, failed, moved>>
      /\ \/ /\ req' = [req EXCEPT ![r] = NoRequest]
            /\ token' = [token EXCEPT ![r] = [event |-> "signalled", status |-> "device_error"]]
         \/ token' = [token EXCEPT ![r].status = "device_error"] /\ UNCHANGED req
  BY FirstLeaves, TaskIs DEF SubmitFails
<1>2. /\ token'[r].status # "success"
      /\ \A q \in Requests \ {r} : req'[q] = req[q] /\ token'[q] = token[q]
  BY <1>1, FieldsAre DEF TokenType
<1>. QED BY <1>1, <1>2, FailedData

LEMMA SubmitData ==
    ASSUME Types, Data, Submit
    PROVE  Data'
<1> PICK t : t = Head(unsub)
  OBVIOUS
<1>1. /\ t \in Task /\ t[1] \in Requests /\ t = <<t[1], t[2]>>
      /\ \A k \in DOMAIN unsub :
            unsub[k] = t \/ \E j \in DOMAIN unsub' : unsub'[j] = unsub[k]
      /\ UNCHANGED <<notify, token, failed, moved>>
      /\ req' = [req EXCEPT ![t[1]].subs = @ \cup {t[2]}, ![t[1]].last = @ \/ IsLast(t)]
  BY FirstLeaves, TaskIs DEF Submit
<1>2. /\ req'[t[1]].next = req[t[1]].next /\ req'[t[1]].live = req[t[1]].live
      /\ req'[t[1]].subs = req[t[1]].subs \cup {t[2]}
      /\ \A q \in Requests \ {t[1]} : req'[q] = req[q]
  BY <1>1, FieldsAre DEF Shape
<1>3. ASSUME NEW q \in Requests, req'[q].live, token'[q].status = "success",
             NEW i \in 1 .. Parts[q]
      PROVE  AccountedFor(q, i)'
  <2>1. AccountedFor(q, i)
    BY <1>1, <1>2, <1>3 DEF Data, Whole
  <2>2. CASE <<q, i>> = t
    <3>1. q = t[1] /\ i = t[2]
      BY <2>2
    <3>. QED BY <3>1, <1>2 DEF AccountedFor
  <2>3. CASE <<q, i>> # t
    <3>1. req'[q].next = req[q].next /\ req[q].subs \subseteq req'[q].subs
      BY <1>2
    <3>2. ASSUME NEW k \in DOMAIN unsub, unsub[k] = <<q, i>>
          PROVE  \E j \in DOMAIN unsub' : unsub'[j] = <<q, i>>
      <4>1. \E j \in DOMAIN unsub' : unsub'[j] = unsub[k]
        BY <1>1, <2>3, <3>2
      <4>. QED BY <3>2, <4>1
    <3>. QED BY <2>1, <3>1, <3>2, <1>1 DEF AccountedFor
  <2>. QED BY <2>2, <2>3, SMTT(60)
<1>4. Verdicts' /\ Delivered'
  BY <1>1 DEF Data, Verdicts, Delivered
<1>. QED BY <1>3, <1>4 DEF Data, Whole

\* AsyncIoCallback takes the subtask off its request; the last one of a request that has
\* not failed finds the data of every part there.
LEMMA CallbackData ==
    ASSUME Types, RequestInv, Data, Callback
    PROVE  Data'
<1> PICK t : t = Head(notify)
  OBVIOUS
<1> PICK r : r = t[1]
  OBVIOUS
<1> PICK left : left = req[r].subs \ {t[2]}
  OBVIOUS
<1> PICK verdict : verdict = IF token[r].status = "success" /\ t \in failed
                               THEN "device_error" ELSE token[r].status
  OBVIOUS
<1>1. /\ notify # <<>> /\ notify' = Tail(notify) /\ UNCHANGED <<unsub, failed, moved>>
      /\ \/ /\ left = {} /\ req[r].last
            /\ req' = [req EXCEPT ![r] = NoRequest]
            /\ token' = [token EXCEPT ![r] = [event |-> "signalled", status |-> verdict]]
         \/ /\ req' = [req EXCEPT ![r].subs = left]
            /\ token' = [token EXCEPT ![r].status = verdict]
  BY DEF Callback
<1>2. /\ 1 \in DOMAIN notify /\ t = notify[1]
      /\ \A k \in DOMAIN notify' : k + 1 \in DOMAIN notify /\ notify'[k] = notify[k + 1]
  <2>1. notify \in Seq(Task)
    BY DEF Types
  <2>2. /\ Len(notify) \in Nat \ {0} /\ DOMAIN notify = 1 .. Len(notify) /\ t = notify[1]
        /\ \A k \in DOMAIN notify' : k + 1 \in DOMAIN notify /\ notify'[k] = notify[k + 1]
    BY <1>1, <2>1, TailIs
  <2>. QED BY <2>2
<1>3. t \in Task /\ r \in Requests /\ t = <<r, t[2]>>
  BY <1>2, TaskIs DEF Types
<1>4. t \in failed \/ t \in moved
  BY <1>2 DEF Data, Verdicts
<1>5. Verdicts'
  BY <1>1, <1>2, SMTT(60) DEF Data, Verdicts
<1>6. /\ \A q \in Requests \ {r} : req'[q] = req[q] /\ token'[q] = token[q]
      /\ \/ /\ left = {} /\ req[r].last /\ ~req'[r].live
            /\ token'[r] = [event |-> "signalled", status |-> verdict]
         \/ /\ req'[r].live = req[r].live /\ req'[r].next = req[r].next /\ req'[r].subs = left
            /\ token'[r].event = token[r].event /\ token'[r].status = verdict
  <2>1. /\ req[r] \in Shape /\ token[r] \in TokenType
        /\ DOMAIN req = Requests /\ DOMAIN token = Requests
    BY <1>3, FieldsAre
  <2>2. CASE /\ left = {} /\ req[r].last
             /\ req' = [req EXCEPT ![r] = NoRequest]
             /\ token' = [token EXCEPT ![r] = [event |-> "signalled", status |-> verdict]]
    BY <2>1, <2>2, <1>3, NoRequestIs
  <2>3. CASE /\ req' = [req EXCEPT ![r].subs = left]
             /\ token' = [token EXCEPT ![r].status = verdict]
    <3>1. req'[r] = [req[r] EXCEPT !.subs = left] /\ token'[r] = [token[r] EXCEPT !.status = verdict]
      BY <2>1, <2>3, <1>3
    <3>2. \A q \in Requests \ {r} : req'[q] = req[q] /\ token'[q] = token[q]
      BY <2>1, <2>3
    <3>. QED BY <3>1, <3>2, <2>1 DEF Shape, TokenType
  <2>. QED BY <1>1, <2>2, <2>3
<1>7. verdict = "success" => token[r].status = "success" /\ t \in moved
  BY <1>4
<1>8. ASSUME NEW q \in Requests, req'[q].live, token'[q].status = "success",
             NEW i \in 1 .. Parts[q]
      PROVE  AccountedFor(q, i)'
  <2>1. CASE q # r
    BY <2>1, <1>1, <1>6, <1>8, SMTT(60) DEF Data, Whole, AccountedFor
  <2>2. CASE q = r
    <3>1. /\ req'[r].live = req[r].live /\ req'[r].next = req[r].next /\ req'[r].subs = left
          /\ verdict = "success"
      BY <2>2, <1>6, <1>8
    <3>2. AccountedFor(r, i)
      BY <3>1, <2>2, <1>7, <1>8 DEF Data, Whole
    <3>3. i \in req[r].subs => i \in left \/ <<r, i>> \in moved
      BY <3>1, <1>3, <1>7
    <3>. QED BY <3>1, <3>2, <3>3, <2>2, <1>1 DEF AccountedFor
  <2>. QED BY <2>1, <2>2, SMTT(60)
<1>9. ASSUME NEW q \in Requests, token'[q] = [event |-> "signalled", status |-> "success"],
             NEW i \in 1 .. Parts[q]
      PROVE  <<q, i>> \in moved'
  <2>1. CASE q # r
    BY <2>1, <1>1, <1>6, <1>9 DEF Data, Delivered
  <2>2. CASE q = r
    <3>1. token'[q].event = "signalled" /\ token'[q].status = "success"
      BY <1>9
    <3>2. t[2] \in req[r].subs
      BY <1>2 DEF RequestInv, Held
    <3>3. req[r].live /\ token[r].event = "waiting"
      <4>1. req[r].live
        BY <1>2, <1>3, FreedHoldsNothing
      <4>. QED BY <4>1, <1>3 DEF RequestInv, Told
    <3>4. left = {} /\ req[r].last /\ verdict = "success"
      <4>1. token'[r].event # token[r].event
        BY <3>1, <3>3, <2>2
      <4>2. left = {} /\ req[r].last /\ token'[r] = [event |-> "signalled", status |-> verdict]
        BY <4>1, <1>6
      <4>3. token'[r].status = verdict
        BY <4>2
      <4>. QED BY <4>2, <4>3, <3>1, <2>2
    <3>5. AccountedFor(r, i) /\ t \in moved
      BY <3>3, <3>4, <2>2, <1>7, <1>9 DEF Data, Whole
    <3>6. \A k \in DOMAIN unsub : unsub[k] # <<r, i>>
      <4>1. \A k \in DOMAIN unsub : ~(req[unsub[k][1]].last /\ req[unsub[k][1]].subs # {})
        BY <1>1 DEF RequestInv, Settled
      <4>2. \A k \in DOMAIN unsub : unsub[k][1] # r
        BY <4>1, <3>2, <3>4
      <4>. QED BY <4>2
    <3>7. ~(req[r].next > 0)
      BY <3>4, <1>3 DEF RequestInv, Queueing
    <3>8. i \in req[r].subs => <<r, i>> = t
      BY <3>4, <1>3
    <3>. QED BY <3>5, <3>6, <3>7, <3>8, <2>2, <1>1 DEF AccountedFor
  <2>. QED BY <2>1, <2>2, SMTT(60)
<1>. QED BY <1>5, <1>8, <1>9 DEF Data, Whole, Delivered

\* The status copied from a completion decides: without an error the data is there.
LEMMA ReapData ==
    ASSUME Types, RequestInv, RingInv, CommandInv, Data, dev.on, Reap
    PROVE  Data'
<1>1. UNCHANGED <<unsub, req, token, cq, moved>> /\ host.cqh \in ToTake
  BY ReapRing DEF Reap
<1>2. Whole' /\ Delivered'
  BY <1>1 DEF Data, Whole, AccountedFor, Delivered
<1>3. CASE UNCHANGED <<notify, failed>>
  BY <1>1, <1>2, <1>3 DEF Data, Verdicts
<1>4. CASE ~UNCHANGED <<notify, failed>>
  <2>1. PICK k \in DOMAIN async :
           /\ async[k].cid = cq[host.cqh].cid
           /\ notify' = Append(notify, async[k].task)
           /\ failed' = IF cq[host.cqh].error THEN failed \cup {async[k].task}
                                              ELSE failed \ {async[k].task}
    BY <1>4, ReapIs
  <2>2. notify \in Seq(Task) /\ async[k].task \in Task
    BY ListsAre DEF Types
  <2>3. /\ DOMAIN notify = 1 .. Len(notify) /\ Len(notify) \in Nat
        /\ DOMAIN notify' = 1 .. Len(notify) + 1
        /\ \A l \in DOMAIN notify' :
              notify'[l] = IF l = Len(notify) + 1 THEN async[k].task ELSE notify[l]
    BY <2>1, <2>2, AppendIs
  <2>4. ~cq[host.cqh].error => async[k].task \in moved
    BY <1>1, <2>1 DEF CommandInv, Transferred
  <2>5. \A l \in DOMAIN notify : notify[l] # async[k].task /\ notify[l] \in failed \cup moved
    BY DEF RequestInv, Held, Data, Verdicts
  <2>6. ASSUME NEW l \in DOMAIN notify'
        PROVE  notify'[l] \in failed' \cup moved
    <3>1. CASE l = Len(notify) + 1
      BY <3>1, <2>1, <2>3, <2>4
    <3>2. CASE l # Len(notify) + 1
      <4>1. l \in DOMAIN notify /\ notify'[l] = notify[l]
        BY <3>2, <2>3
      <4>. QED BY <4>1, <2>1, <2>5
    <3>. QED BY <3>1, <3>2
  <2>7. Verdicts'
    BY <2>6, <1>1 DEF Verdicts
  <2>. QED BY <1>2, <2>7 DEF Data
<1>. QED BY <1>3, <1>4

LEMMA DataStep ==
    Intact /\ Types /\ RequestInv /\ RingInv /\ CommandInv /\ Data /\ [Next]_nvmeVars => Data'
<1> SUFFICES ASSUME Intact, Types, RequestInv, RingInv, CommandInv, Data, [Next]_nvmeVars
             PROVE  Data'
  OBVIOUS
<1>1. ASSUME UNCHANGED <<unsub, notify, req, token, failed>>, moved \subseteq moved'
      PROVE  Data'
  BY <1>1 DEF Data, Verdicts, Whole, AccountedFor, Delivered
<1>2. CASE \E r \in Requests : StartRead(r)
  BY <1>2, StartReadData
<1>3. CASE Caller
  BY <1>3, QueuePartData, QueuePartFailsData DEF Caller
<1>4. CASE TimerTick \/ SubmitEnds \/ ReapEnds
  BY <1>1, <1>4 DEF TimerTick, SubmitEnds, ReapEnds
<1>5. CASE Discard
  BY <1>5, DiscardData
<1>6. CASE Submit
  BY <1>6, SubmitData
<1>7. CASE \E why \in {"map", "memory"} : SubmitFails(why)
  BY <1>7, SubmitFailsData
<1>8. CASE Reap
  <2>1. dev.on
    BY <1>8, SidesAre DEF RingInv, Running, Reap
  <2>. QED BY <1>8, <2>1, ReapData
<1>9. CASE Callback
  BY <1>9, CallbackData
<1>10. CASE Controller
  BY <1>1, <1>10 DEF Controller, Fetch, Execute
<1>11. CASE BlockingTimeout \/ BlockingTimeoutDead
  BY <1>11 DEF BlockingTimeout, BlockingTimeoutDead, Intact
<1>12. CASE Reset
  <2>1. CASE ResetBegins
    BY <2>1 DEF ResetBegins, Intact
  <2>2. CASE ~ResetBegins
    BY <1>1, <1>12, <2>2 DEF Reset, ResetDisables, ResetClears, ResetEnds, ResetFails
  <2>. QED BY <2>1, <2>2
<1>13. CASE UNCHANGED nvmeVars
  BY <1>1, <1>13 DEF nvmeVars
<1>. QED BY <1>2, <1>3, <1>4, <1>5, <1>6, <1>7, <1>8, <1>9, <1>10, <1>11, <1>12, <1>13
         DEF Next, Handler

-----------------------------------------------------------------------------
(***************************************************************************)
(* The invariant, and the properties it gives.                             *)
(***************************************************************************)
NvmeInv ==
    /\ Types /\ RequestInv
    /\ NoReset => RingInv /\ CommandInv
    /\ Mapped => Remembered
    /\ Intact => Data

LEMMA NvmeInvInit == Init => NvmeInv
BY TypesInit, RequestInvInit, RingInvInit, CommandInvInit, RememberedInit, DataInit DEF NvmeInv

LEMMA NvmeInvStep == NvmeInv /\ NotOvertaken /\ [Next]_nvmeVars => NvmeInv'
<1> SUFFICES ASSUME NvmeInv, NotOvertaken, [Next]_nvmeVars
             PROVE  NvmeInv'
  OBVIOUS
<1>1. Types' /\ RequestInv' /\ Types /\ RequestInv
  BY TypesStep, RequestInvStep, SMTT(60) DEF NvmeInv
<1>2. faults' = faults
  BY ZenonT(60) DEF Next, nvmeVars, StartRead, Caller, QueuePart, QueuePartFails, TimerTick, Handler,
         SubmitEnds, Discard, Submit, SubmitFails, Reap, ReapEnds, Callback, Controller,
         Fetch, Execute, BlockingTimeout, BlockingTimeoutDead, Reset, ResetBegins,
         ResetDisables, ResetClears, ResetEnds, ResetFails
<1>3. (NoReset' <=> NoReset) /\ (Mapped' <=> Mapped) /\ (Intact' <=> Intact)
  BY <1>2 DEF NoReset, Mapped, Intact
<1>4. (Mapped => NoReset) /\ (Intact => NoReset)
  BY DEF NoReset, Mapped, Intact
<1>5. NoReset => RingInv' /\ CommandInv' /\ RingInv /\ CommandInv
  BY <1>1, RingInvStep, CommandInvStep DEF NvmeInv
<1>6. Mapped => Remembered'
  BY <1>1, <1>4, <1>5, RememberedStep DEF NvmeInv
<1>7. Intact => Data'
  BY <1>1, <1>4, <1>5, DataStep DEF NvmeInv
<1>. QED BY <1>1, <1>3, <1>5, <1>6, <1>7 DEF NvmeInv

LEMMA NvmeInvariant == Spec /\ []NotOvertaken => []NvmeInv
BY NvmeInvInit, NvmeInvStep, PTL DEF Spec

\* The rings never overrun and no identifier is used twice at a time: the entry a
\* completion's identifier names in AsyncPassThruQueue is that of the same subtask; and
\* the handler leaves the completion ring where the controller posts next.
THEOREM RingsStayInStep == Spec /\ []NotOvertaken => []RingsAgree
<1>1. NvmeInv => RingsAgree
  <2> SUFFICES ASSUME NvmeInv
               PROVE  RingsAgree
    OBVIOUS
  <2>1. Types /\ TypeOK
    BY TypesAreOK DEF NvmeInv
  <2>2. ASSUME Mapped, NEW c \in Outstanding
        PROVE  {async[k].task : k \in Taken(c)} = {c.task} /\ Cardinality(Taken(c)) = 1
    <3>1. RingInv /\ CommandInv /\ Remembered
      BY <2>2 DEF NvmeInv, Mapped, NoReset
    <3>2. dev.on /\ c \in Pending
      BY <2>1, <2>2, PendingIs
    <3>3. PICK k \in DOMAIN async : async[k] = c
      BY <3>1, <3>2 DEF Remembered
    <3>4. Taken(c) = {k}
      BY <3>1, <3>3 DEF CommandInv, Apart, Taken
    <3>5. Cardinality({k}) = 1
      BY FS_Singleton
    <3>. QED BY <3>3, <3>4, <3>5
  <2>3. ASSUME Mapped, dev.on, ~Posted
        PROVE  host.cqh = dev.ctail /\ host.pt # dev.phase
    <3>1. RingInv
      BY <2>3 DEF NvmeInv, Mapped, NoReset
    <3>. QED BY <2>1, <2>3, <3>1, PostedIs
  <2>. QED BY <2>1, <2>2, <2>3 DEF RingsAgree, Mapped
<1>. QED BY <1>1, NvmeInvariant, PTL

\* The memory of a request is not freed under its subtasks, and its caller's buffer is not
\* given back while a command that uses it is in the ring or in the controller.
THEOREM RequestsOutliveTheirParts == Spec /\ []NotOvertaken => []RequestOutlivesItsParts
<1>1. NvmeInv => (faults \cap {"memory", "reset", "resetEx"} = {} =>
                     \A c \in Outstanding : token[c.task[1]].event = "waiting")
  <2> SUFFICES ASSUME NvmeInv, Mapped, NEW c \in Outstanding
               PROVE  token[c.task[1]].event = "waiting"
    BY DEF Mapped
  <2>1. Types /\ RequestInv /\ Remembered
    BY DEF NvmeInv
  <2>2. dev.on /\ c \in Pending
    BY <2>1, PendingIs
  <2>3. PICK k \in DOMAIN async : async[k] = c
    BY <2>1, <2>2 DEF Remembered
  <2>4. PICK r \in Requests : r = c.task[1]
    BY <2>1, <2>3, ListsAre
  <2>5. req[r].live
    BY <2>1, <2>3, <2>4, FreedHoldsNothing
  <2>. QED BY <2>1, <2>4, <2>5 DEF RequestInv, Told
<1>2. Spec => []SubtasksLive
  BY SubtasksHaveTheirRequest
<1>3. /\ SubtasksLive
      /\ faults \cap {"memory", "reset", "resetEx"} = {} =>
            \A c \in Outstanding : token[c.task[1]].event = "waiting"
      => RequestOutlivesItsParts
  BY DEF RequestOutlivesItsParts
<1>. QED BY <1>1, <1>2, <1>3, NvmeInvariant, PTL

\* A token signalled with success stands for data: no error of a part is lost on the way
\* from the completion over the callback to the token, and no part is forgotten.
THEOREM SuccessStandsForData == Spec /\ []NotOvertaken => []SuccessMeansTransferred
<1>1. NvmeInv => SuccessMeansTransferred
  BY DEF NvmeInv, Intact, Data, Delivered, SuccessMeansTransferred
<1>. QED BY <1>1, NvmeInvariant, PTL

-----------------------------------------------------------------------------
(***************************************************************************)
(* Identifiers that do not run out.  A part of a read takes one identifier *)
(* when it is submitted, and none when it is discarded; so with fewer      *)
(* parts in all than there are identifiers, the next one is greater than   *)
(* every one in use and none is overtaken.                                 *)
(***************************************************************************)
FewParts(p) ==
    p \in Nat /\ (\A r \in Requests : Parts[r] <= p) /\ MaxReads * p < Cids

Budget(p) ==
    /\ host.cid + Len(unsub) <= started * p
    /\ \A r \in Requests :
          req[r].next > 0 =>
             host.cid + Len(unsub) + (Parts[r] - req[r].next) + 1 <= started * p

Used ==
    NoReset /\ dev.on =>
        /\ \A k \in DOMAIN async : async[k].cid < host.cid
        /\ \A c \in Pending : c.cid < host.cid
        /\ \A s \in ToTake : cq[s].cid < host.cid

LEMMA TimesIs ==
    ASSUME NEW p \in Nat, NEW m \in Nat, NEW n \in Nat
    PROVE  n * p \in Nat /\ (n + 1) * p = n * p + p /\ (n <= m => n * p <= m * p)
<1>1. n * p \in Nat /\ (n + 1) * p = n * p + p
  OBVIOUS
<1>2. ASSUME n <= m
      PROVE  n * p <= m * p
  <2>1. PICK d \in Nat : m = n + d
    <3>1. m - n \in Nat /\ m = n + (m - n)
      BY <1>2
    <3>. QED BY <3>1
  <2>2. m * p = n * p + d * p /\ d * p >= 0
    BY <2>1
  <2>. QED BY <1>1, <2>2
<1>. QED BY <1>1, <1>2

LEMMA NoneOvertaken == Types /\ Used => NotOvertaken
<1> SUFFICES ASSUME Types, Used, NoReset, dev.on
             PROVE  /\ \A k \in DOMAIN async : async[k].cid # host.cid
                    /\ \A c \in Outstanding : c.cid # host.cid
                    /\ \A s \in ToTake : cq[s].cid # host.cid
  BY DEF NotOvertaken
<1>1. host.cid \in Nat /\ ~(host.cid < host.cid)
  BY SidesAre
<1>. QED BY <1>1, PendingIs DEF Used

LEMMA BudgetIs ==
    ASSUME NEW p, FewParts(p), Types, Budget(p), NEW most, most = started * p
    PROVE  /\ started \in Nat /\ most \in Nat /\ (started + 1) * p = most + p
           /\ most < Cids /\ p \in Nat /\ Cids \in Nat
           /\ host.cid + Len(unsub) <= most
           /\ \A r \in Requests :
                 req[r].next > 0 =>
                    host.cid + Len(unsub) + (Parts[r] - req[r].next) + 1 <= most
           /\ host.cid \in Nat /\ Len(unsub) \in Nat /\ unsub \in Seq(Task)
           /\ \A r \in Requests : /\ req[r].next \in Nat /\ req[r].next <= Parts[r]
                                  /\ Parts[r] \in Nat /\ Parts[r] <= p
<1>1. started \in Nat /\ MaxReads \in Nat /\ started <= MaxReads /\ p \in Nat /\ MaxReads * p < Cids
  BY QueueAssumption DEF Types, FewParts
<1>2. /\ started * p \in Nat /\ (started + 1) * p = started * p + p /\ MaxReads * p \in Nat
      /\ started * p <= MaxReads * p
  BY <1>1, TimesIs
<1>3. most < Cids /\ Cids \in Nat
  BY <1>1, <1>2, QueueAssumption
<1>4. /\ host.cid + Len(unsub) <= most
      /\ \A r \in Requests :
            req[r].next > 0 => host.cid + Len(unsub) + (Parts[r] - req[r].next) + 1 <= most
  BY DEF Budget
<1>5. /\ host.cid \in Nat /\ Len(unsub) \in Nat /\ unsub \in Seq(Task)
      /\ \A r \in Requests : req[r].next \in Nat /\ req[r].next <= Parts[r] /\ Parts[r] \in Nat
  BY SidesAre, ListsAre, FieldsAre, SMTT(60) DEF Types
<1>. QED BY <1>1, <1>2, <1>3, <1>4, <1>5 DEF FewParts

LEMMA FewerMove ==
    ASSUME NEW few \in Int, NEW many \in Int, NEW left \in Int, NEW most \in Int,
           few <= many, many + left + 1 <= most
    PROVE  few + left + 1 <= most
OBVIOUS

LEMMA OnePartMoves ==
    ASSUME NEW c \in Nat, NEW l \in Nat, NEW n \in Nat, NEW k \in Nat, NEW most \in Nat,
           c + l + (n - k) + 1 <= most
    PROVE  c + (l + 1) + (n - (k + 1)) + 1 <= most
OBVIOUS

LEMMA ModIs == ASSUME NEW a \in Nat, NEW n \in Nat, a < n PROVE a % n = a
OBVIOUS

\* A subtask that leaves the list leaves an identifier for its command.
LEMMA CidAdvances ==
    ASSUME NEW p, FewParts(p), Types, Budget(p), unsub # <<>>, unsub' = Tail(unsub)
    PROVE  /\ Len(unsub') \in Nat /\ Len(unsub') + 1 = Len(unsub)
           /\ (host.cid + 1) % Cids = host.cid + 1
<1> PICK most : most = started * p
  OBVIOUS
<1>1. /\ most \in Nat /\ most < Cids /\ host.cid + Len(unsub) <= most
      /\ host.cid \in Nat /\ unsub \in Seq(Task) /\ Cids \in Nat
  BY BudgetIs
<1>2. Len(Tail(unsub)) = Len(unsub) - 1 /\ Len(unsub) \in Nat \ {0}
  BY <1>1, TailIs
<1>3. host.cid + 1 < Cids
  BY <1>1, <1>2
<1>4. (host.cid + 1) % Cids = host.cid + 1
  <2> PICK c : c = host.cid + 1
    OBVIOUS
  <2>1. c \in Nat /\ Cids \in Nat /\ c < Cids
    BY <1>1, <1>3
  <2>2. c % Cids = c
    BY <2>1, ModIs
  <2>. QED BY <2>2
<1>. QED BY <1>2, <1>4

LEMMA BudgetStep ==
    ASSUME NEW p, FewParts(p), Types, RequestInv, Budget(p), [Next]_nvmeVars
    PROVE  Budget(p)'
<1> PICK most : most = started * p
  OBVIOUS
<1>1. /\ started \in Nat /\ most \in Nat /\ (started + 1) * p = most + p /\ p \in Nat
      /\ host.cid + Len(unsub) <= most
      /\ \A r \in Requests :
            req[r].next > 0 => host.cid + Len(unsub) + (Parts[r] - req[r].next) + 1 <= most
      /\ host.cid \in Nat /\ Len(unsub) \in Nat /\ unsub \in Seq(Task)
      /\ \A r \in Requests : /\ req[r].next \in Nat /\ req[r].next <= Parts[r]
                             /\ Parts[r] \in Nat /\ Parts[r] <= p
  BY BudgetIs
<1>2. ASSUME started' = started, host'.cid \in Nat, Len(unsub') \in Nat,
             host'.cid + Len(unsub') <= host.cid + Len(unsub),
             \A r \in Requests : req'[r].next = req[r].next \/ req'[r].next = 0
      PROVE  Budget(p)'
  <2>1. host'.cid + Len(unsub') <= most
    BY <1>1, <1>2, SMTT(60)
  <2>2. ASSUME NEW r \in Requests, req'[r].next > 0
        PROVE  host'.cid + Len(unsub') + (Parts[r] - req'[r].next) + 1 <= most
    <3>1. req'[r].next = req[r].next
      BY <1>2, <2>2
    <3>2. PICK left : left = Parts[r] - req[r].next
      OBVIOUS
    <3>3. host.cid + Len(unsub) + left + 1 <= most /\ left \in Int
      BY <3>1, <3>2, <1>1, <2>2
    <3>4. host.cid + Len(unsub) \in Int /\ host'.cid + Len(unsub') \in Int /\ most \in Int
      BY <1>1, <1>2
    <3>5. host'.cid + Len(unsub') + left + 1 <= most
      BY <3>3, <3>4, <1>2, FewerMove
    <3>. QED BY <3>1, <3>2, <3>5
  <2>. QED BY <2>1, <2>2, <1>2 DEF Budget
<1>3. ASSUME NEW r \in Requests, StartRead(r)
      PROVE  Budget(p)'
  <2>1. /\ started' = started + 1 /\ UNCHANGED <<host, unsub>>
        /\ req'[r].next = 1 /\ \A q \in Requests \ {r} : req'[q].next = 0
    <3>1. \A q \in Requests : req[q].next = 0
      BY <1>3, <1>1 DEF StartRead, RequestInv, Queueing
    <3>. QED BY <3>1, <1>3, FieldsAre DEF StartRead, NoRequest
  <2>2. started' * p = most + p /\ Parts[r] <= p
    BY <2>1, <1>1
  <2>3. host.cid + Len(unsub) <= most + p
    BY <1>1
  <2>4. host.cid + Len(unsub) + (Parts[r] - 1) + 1 <= most + p
    BY <2>2, <1>1
  <2>5. ASSUME NEW q \in Requests, req'[q].next > 0
        PROVE  host.cid + Len(unsub) + (Parts[q] - req'[q].next) + 1 <= most + p
    <3>1. q = r
      BY <2>1, <2>5
    <3>. QED BY <3>1, <2>1, <2>4
  <2>. QED BY <2>1, <2>2, <2>3, <2>5 DEF Budget
<1>4. ASSUME NEW r \in Requests, QueuePart(r)
      PROVE  Budget(p)'
  <2>1. /\ UNCHANGED <<host, started>> /\ req[r].next > 0
        /\ unsub' = Append(unsub, <<r, req[r].next>>)
        /\ req' = [req EXCEPT ![r].next = IF IsLast(<<r, req[r].next>>) THEN 0 ELSE @ + 1]
    BY <1>4 DEF QueuePart
  <2>2. Len(unsub') = Len(unsub) + 1
    BY <2>1, <1>1, AppendProperties
  <2>3. /\ req'[r].next = 0 \/ req'[r].next = req[r].next + 1
        /\ \A q \in Requests \ {r} : req'[q].next = 0
    <3>1. \A q \in Requests \ {r} : req[q].next = 0
      BY <2>1, <1>1 DEF RequestInv, Queueing
    <3>. QED BY <3>1, <2>1, FieldsAre DEF Shape
  <2>4. host.cid + Len(unsub) + (Parts[r] - req[r].next) + 1 <= most
    BY <2>1, <1>1
  <2>5. host.cid + Len(unsub') <= most
    BY <2>2, <2>4, <1>1
  <2>6. ASSUME NEW q \in Requests, req'[q].next > 0
        PROVE  host.cid + Len(unsub') + (Parts[q] - req'[q].next) + 1 <= most
    <3>1. q = r /\ req'[q].next = req[r].next + 1
      BY <2>3, <2>6
    <3>2. /\ host.cid \in Nat /\ Len(unsub) \in Nat /\ most \in Nat
          /\ req[r].next \in Nat /\ Parts[r] \in Nat
      BY <1>1
    <3>3. host.cid + (Len(unsub) + 1) + (Parts[r] - (req[r].next + 1)) + 1 <= most
      BY <3>2, <2>4, OnePartMoves
    <3>. QED BY <3>1, <2>2, <3>3
  <2>. QED BY <2>1, <2>5, <2>6 DEF Budget
<1>5. ASSUME NEW r \in Requests, QueuePartFails(r)
      PROVE  Budget(p)'
  <2>1. UNCHANGED <<host, started, unsub>>
    BY <1>5 DEF QueuePartFails
  <2>2. \A q \in Requests : req'[q].next = req[q].next \/ req'[q].next = 0
    BY <1>5, FieldsAre, NoRequestIs, ZenonT(60) DEF QueuePartFails, Shape
  <2>. QED BY <2>1, <2>2, <1>1, <1>2
<1>6. CASE TimerTick \/ SubmitEnds \/ ReapEnds \/ Controller \/ UNCHANGED nvmeVars
  <2>1. UNCHANGED <<host, started, unsub, req>>
    BY <1>6 DEF TimerTick, SubmitEnds, ReapEnds, Controller, Fetch, Execute, nvmeVars
  <2>. QED BY <2>1, <1>1, <1>2
<1>7. CASE Discard
  <2>1. /\ UNCHANGED <<host, started>> /\ unsub # <<>> /\ unsub' = Tail(unsub)
        /\ \/ req' = [req EXCEPT ![Head(unsub)[1]] = NoRequest]
           \/ UNCHANGED req
    BY <1>7 DEF Discard, Finished
  <2>2. Len(unsub') \in Nat /\ Len(unsub') + 1 = Len(unsub)
    BY <2>1, CidAdvances
  <2>3. \A q \in Requests : req'[q].next = req[q].next \/ req'[q].next = 0
    BY <2>1, FieldsAre, NoRequestIs
  <2>. QED BY <2>1, <2>2, <2>3, <1>1, <1>2
<1>8. CASE Submit \/ \E why \in {"map", "memory"} : SubmitFails(why)
  <2> PICK r : r = Head(unsub)[1]
    OBVIOUS
  <2>1. /\ UNCHANGED started /\ unsub # <<>> /\ unsub' = Tail(unsub)
        /\ host' = Submitted \/ host' = [host EXCEPT !.cid = (@ + 1) % Cids]
    BY <1>8 DEF Submit, SubmitFails
  <2>2. host'.cid = (host.cid + 1) % Cids
    BY <2>1 DEF Submitted, Types, HostType
  <2>3. Len(unsub') \in Nat /\ Len(unsub') + 1 = Len(unsub) /\ host'.cid = host.cid + 1
    BY <2>1, <2>2, CidAdvances
  <2>4. r \in Requests
    BY <2>1, FirstLeaves, TaskIs
  <2>5. \/ UNCHANGED req
        \/ req' = [req EXCEPT ![r] = NoRequest]
        \/ req' = [req EXCEPT ![r].subs = @ \cup {Head(unsub)[2]},
                              ![r].last = @ \/ IsLast(Head(unsub))]
    BY <1>8 DEF Submit, SubmitFails
  <2>6. \A q \in Requests : req'[q].next = req[q].next \/ req'[q].next = 0
    <3>1. DOMAIN req = Requests /\ \A q \in Requests : req[q] \in Shape
      BY DEF Types, ReqTypes
    <3>2. CASE req' = [req EXCEPT ![r] = NoRequest]
      BY <3>1, <3>2, <2>4, NoRequestIs
    <3>3. CASE req' = [req EXCEPT ![r].subs = @ \cup {Head(unsub)[2]},
                                  ![r].last = @ \/ IsLast(Head(unsub))]
      BY <3>1, <3>3, <2>4 DEF Shape
    <3>. QED BY <2>5, <3>2, <3>3
  <2>. QED BY <2>1, <2>3, <2>6, <1>1, <1>2, SMTT(60)
<1>9. CASE Reap
  <2>1. UNCHANGED <<started, unsub, req>> /\ host'.cid = host.cid
    BY <1>9 DEF Reap, Types, HostType
  <2>. QED BY <2>1, <1>1, <1>2
<1>10. CASE Callback
  <2> PICK r : r = Head(notify)[1]
    OBVIOUS
  <2>1. /\ UNCHANGED <<host, started, unsub>> /\ notify # <<>>
        /\ \/ req' = [req EXCEPT ![r] = NoRequest]
           \/ req' = [req EXCEPT ![r].subs = @ \ {Head(notify)[2]}]
    BY <1>10 DEF Callback
  <2>2. r \in Requests
    <3>1. Head(notify) \in Task
      BY <2>1, TailIs DEF Types
    <3>. QED BY <3>1, TaskIs
  <2>3. \A q \in Requests : req'[q].next = req[q].next \/ req'[q].next = 0
    <3>1. DOMAIN req = Requests /\ \A q \in Requests : req[q] \in Shape
      BY DEF Types, ReqTypes
    <3>2. CASE req' = [req EXCEPT ![r] = NoRequest]
      BY <3>1, <3>2, <2>2, NoRequestIs
    <3>3. CASE req' = [req EXCEPT ![r].subs = @ \ {Head(notify)[2]}]
      BY <3>1, <3>3, <2>2 DEF Shape
    <3>. QED BY <2>1, <3>2, <3>3
  <2>. QED BY <2>1, <2>3, <1>1, <1>2
<1>11. CASE BlockingTimeout
  <2>1. UNCHANGED started /\ host'.cid = 0 /\ unsub' = <<>> /\ Len(<<>>) = 0
    BY <1>11 DEF BlockingTimeout, AbortAll, ZeroHost
  <2>2. \A r \in Requests : req'[r].next = req[r].next
    BY <1>11, FieldsAre DEF BlockingTimeout, AbortAll, Aborted, Shape
  <2>. QED BY <2>1, <2>2, <1>1, <1>2
<1>12. CASE BlockingTimeoutDead \/ Reset
  <2>1. UNCHANGED <<started, unsub, req>> /\ (host'.cid = 0 \/ UNCHANGED host)
    BY <1>12 DEF BlockingTimeoutDead, Reset, ResetBegins, ResetDisables, ResetClears, ResetEnds,
                 ResetFails, ZeroHost
  <2>. QED BY <2>1, <1>1, <1>2
<1>. QED BY <1>3, <1>4, <1>5, <1>6, <1>7, <1>8, <1>9, <1>10, <1>11, <1>12
         DEF Next, Caller, Handler

LEMMA UsedStep ==
    ASSUME NEW p, FewParts(p), NvmeInv, Budget(p), Used, NotOvertaken, [Next]_nvmeVars
    PROVE  Used'
<1> SUFFICES ASSUME NoReset', dev'.on
             PROVE  /\ \A k \in DOMAIN async' : async'[k].cid < host'.cid
                    /\ \A c \in Pending' : c.cid < host'.cid
                    /\ \A s \in ToTake' : cq'[s].cid < host'.cid
  BY DEF Used
<1>1. NoReset
  <2>1. faults' = faults
    BY ZenonT(60) DEF Next, nvmeVars, StartRead, Caller, QueuePart, QueuePartFails, TimerTick, Handler,
           SubmitEnds, Discard, Submit, SubmitFails, Reap, ReapEnds, Callback, Controller,
           Fetch, Execute, BlockingTimeout, BlockingTimeoutDead, Reset, ResetBegins,
           ResetDisables, ResetClears, ResetEnds, ResetFails
  <2>. QED BY <2>1, SMTT(60) DEF NoReset
<1>2. Types /\ RequestInv /\ RingInv /\ CommandInv
  BY <1>1 DEF NvmeInv
<1>3. host.cid \in Nat
  BY <1>2, SidesAre
<1>4. ASSUME UNCHANGED <<sq, cq, async>>, dev'.on = dev.on, dev'.fly = dev.fly,
             ToFetch' = ToFetch, ToTake' = ToTake, host'.cid = host.cid
      PROVE  /\ \A k \in DOMAIN async' : async'[k].cid < host'.cid
             /\ \A c \in Pending' : c.cid < host'.cid
             /\ \A s \in ToTake' : cq'[s].cid < host'.cid
  <2>1. Pending' = Pending
    BY <1>4 DEF Pending
  <2>. QED BY <2>1, <1>1, <1>4 DEF Used
<1>5. ASSUME UNCHANGED <<host, sq, cq, dev, async>>
      PROVE  /\ \A k \in DOMAIN async' : async'[k].cid < host'.cid
             /\ \A c \in Pending' : c.cid < host'.cid
             /\ \A s \in ToTake' : cq'[s].cid < host'.cid
  BY <1>4, <1>5 DEF ToFetch, ToTake
<1>6. CASE (\E r \in Requests : StartRead(r)) \/ Caller \/ TimerTick
  <2>1. UNCHANGED <<host, sq, cq, dev, async>>
    BY <1>6 DEF StartRead, Caller, QueuePart, QueuePartFails, TimerTick
  <2>. QED BY <2>1, <1>5
<1>7. CASE SubmitEnds \/ Discard \/ Callback \/ UNCHANGED nvmeVars
  <2>1. UNCHANGED <<host, sq, cq, dev, async>>
    BY <1>7 DEF SubmitEnds, Discard, Callback, nvmeVars
  <2>. QED BY <2>1, <1>5
<1>8. CASE Submit \/ SubmitFails("memory")
  <2> PICK t : t = Head(unsub)
    OBVIOUS
  <2> PICK c : c = [cid |-> host.cid, task |-> t]
    OBVIOUS
  <2>1. /\ t \in Task /\ tick = "submit" /\ unsub # <<>> /\ unsub' = Tail(unsub) /\ ~RingFull
        /\ Filled(t) /\ host' = Submitted /\ dev' = Rung
        /\ async' = Append(async, c) \/ UNCHANGED async
        /\ UNCHANGED <<caller, tick, armed, cq, moved>>
    <3>1. Head(unsub) \in Task
      BY <1>2, <1>8, FirstLeaves DEF Submit, SubmitFails
    <3>. QED BY <3>1, <1>8 DEF Submit, SubmitFails
  <2>2. Pending' = Pending \cup {c}
    BY <2>1, <1>1, <1>2, SubmitCommands
  <2>3. ToTake' = ToTake /\ dev.on
    BY <2>1, <1>2, SubmitRing
  <2>4. host'.cid = host.cid + 1
    <3>1. host'.cid = (host.cid + 1) % Cids
      BY <2>1, <1>2 DEF Submitted, Types, HostType
    <3>2. (host.cid + 1) % Cids = host.cid + 1
      BY <2>1, <1>2, CidAdvances
    <3>. QED BY <3>1, <3>2
  <2>5. c.cid = host.cid /\ host.cid < host.cid + 1
    BY <1>3
  <2>6. \A k \in DOMAIN async' : async'[k] = c \/ (k \in DOMAIN async /\ async'[k] = async[k])
    <3>1. CASE UNCHANGED async
      BY <3>1
    <3>2. CASE async' = Append(async, c)
      <4>1. c \in Entry /\ async \in Seq(Entry)
        BY <1>2, <2>1, FilledTypes DEF Types
      <4>2. /\ DOMAIN async = 1 .. Len(async) /\ Len(async) \in Nat
            /\ DOMAIN async' = 1 .. Len(async) + 1
            /\ \A k \in DOMAIN async' : async'[k] = IF k = Len(async) + 1 THEN c ELSE async[k]
        BY <4>1, <3>2, AppendIs
      <4>. QED BY <4>2
    <3>. QED BY <2>1, <3>1, <3>2
  <2>7. /\ \A k \in DOMAIN async : async[k].cid < host.cid /\ async[k].cid \in Nat
        /\ \A d \in Pending : d.cid < host.cid /\ d.cid \in Nat
        /\ \A s \in ToTake : cq[s].cid < host.cid /\ cq[s].cid \in Nat
    <3>1. \A k \in DOMAIN async : async[k].cid \in Nat
      BY <1>2, ListsAre DEF Entry
    <3>2. \A d \in Pending : d.cid \in Nat
      BY <1>2, SidesAre, PositionsAre DEF Pending, Stamp
    <3>3. \A s \in ToTake : cq[s].cid \in Nat
      BY <1>2, SidesAre, PositionsAre
    <3>. QED BY <3>1, <3>2, <3>3, <2>3, <1>1 DEF Used
  <2>8. \A n \in Nat : n < host.cid => n < host.cid + 1
    BY <1>3
  <2>9. \A k \in DOMAIN async' : async'[k].cid < host'.cid
    BY <2>4, <2>5, <2>6, <2>7, <2>8
  <2>10. \A d \in Pending' : d.cid < host'.cid
    BY <2>2, <2>4, <2>5, <2>7, <2>8
  <2>11. \A s \in ToTake' : cq'[s].cid < host'.cid
    BY <2>1, <2>3, <2>4, <2>7, <2>8
  <2>. QED BY <2>9, <2>10, <2>11
<1>9. CASE SubmitFails("map")
  <2>1. /\ Head(unsub) \in Task /\ tick = "submit" /\ unsub # <<>> /\ unsub' = Tail(unsub)
        /\ ~RingFull /\ Filled(Head(unsub)) /\ host' = [host EXCEPT !.cid = (@ + 1) % Cids]
        /\ UNCHANGED <<caller, tick, armed, cq, dev, async, moved>>
    <3>1. Head(unsub) \in Task
      BY <1>2, <1>9, FirstLeaves DEF SubmitFails
    <3>. QED BY <3>1, <1>9 DEF SubmitFails
  <2>2. Pending' = Pending /\ ToTake' = ToTake
    BY <2>1, <1>2, UnmappedCommands, SubmitRing
  <2>3. host'.cid = host.cid + 1
    <3>1. host'.cid = (host.cid + 1) % Cids
      BY <2>1, <1>2 DEF Types, HostType
    <3>2. (host.cid + 1) % Cids = host.cid + 1
      BY <2>1, <1>2, CidAdvances
    <3>. QED BY <3>1, <3>2
  <2>4. /\ \A k \in DOMAIN async : async[k].cid \in Nat
        /\ \A d \in Pending : d.cid \in Nat
        /\ \A s \in ToTake : cq[s].cid \in Nat
    <3>1. \A k \in DOMAIN async : async[k].cid \in Nat
      BY <1>2, ListsAre DEF Entry
    <3>2. \A d \in Pending : d.cid \in Nat
      BY <1>2, SidesAre, PositionsAre DEF Pending, Stamp
    <3>3. \A s \in ToTake : cq[s].cid \in Nat
      BY <1>2, SidesAre, PositionsAre
    <3>. QED BY <3>1, <3>2, <3>3
  <2>5. \A n \in Nat : n < host.cid => n < host.cid + 1
    BY <1>3
  <2>. QED BY <2>1, <2>2, <2>3, <2>4, <2>5, <1>1 DEF Used
<1>10. CASE Reap
  <2>1. dev.on
    BY <1>2, <1>10, SidesAre DEF RingInv, Running, Reap
  <2>2. /\ Pending' = Pending /\ ToTake' \subseteq ToTake /\ UNCHANGED cq
        /\ host'.cid = host.cid
    BY <1>2, <1>10, <2>1, ReapCommands, ReapRing DEF Reap, Types, HostType
  <2>3. \A i \in DOMAIN async' : \E j \in DOMAIN async : async'[i] = async[j]
    <3>1. CASE UNCHANGED async
      BY <3>1
    <3>2. CASE ~UNCHANGED async
      <4>1. PICK k \in DOMAIN async :
               \A i \in DOMAIN async' :
                  LET j == IF i < k THEN i ELSE i + 1
                  IN  j \in DOMAIN async /\ j # k /\ async'[i] = async[j]
        BY <3>2, <1>2, <1>10, ReapIs
      <4>. QED BY <4>1
    <3>. QED BY <3>1, <3>2
  <2>. QED BY <2>1, <2>2, <2>3, <1>1 DEF Used
<1>11. CASE ReapEnds
  <2>1. ToFetch' = ToFetch /\ ToTake' = ToTake
    BY <1>2, <1>11, ReapEndsRing
  <2>2. UNCHANGED <<host, sq, cq, async>> /\ dev'.fly = dev.fly /\ dev'.on = dev.on
    BY <1>2, <1>11 DEF ReapEnds, HeadRung, Types, DevType
  <2>. QED BY <2>1, <2>2, <1>4
<1>12. CASE Fetch
  <2>1. Pending' = Pending /\ ToTake' = ToTake /\ dev.on /\ UNCHANGED <<host, cq, async>>
    BY <1>2, <1>12, FetchCommands, FetchRing DEF Fetch
  <2>. QED BY <2>1, <1>1 DEF Used
<1>13. ASSUME NEW c \in dev.fly, NEW error \in BOOLEAN, Execute(c, error)
       PROVE  /\ \A k \in DOMAIN async' : async'[k].cid < host'.cid
              /\ \A d \in Pending' : d.cid < host'.cid
              /\ \A s \in ToTake' : cq'[s].cid < host'.cid
  <2>1. /\ Pending' \subseteq Pending /\ ToTake' = ToTake \cup {dev.ctail}
        /\ dev.ctail \notin ToTake /\ dev.on /\ UNCHANGED <<host, async>> /\ c \in Pending
    BY <1>2, <1>13, ExecuteCommands, ExecuteRing DEF Execute, Pending
  <2>2. cq'[dev.ctail].cid = c.cid /\ \A s \in ToTake : cq'[s] = cq[s]
    BY <1>2, <1>13, <2>1, SidesAre, PositionsAre DEF Execute, Types
  <2>. QED BY <2>1, <2>2, <1>1 DEF Used
<1>14. CASE BlockingTimeout
  <2>1. ToTake' = {} /\ Pending' = {} /\ DOMAIN async' = {}
    BY <1>2, <1>14, ZeroRing DEF BlockingTimeout, AbortAll, Pending
  <2>. QED BY <2>1
<1>15. CASE BlockingTimeoutDead
  BY <1>15 DEF BlockingTimeoutDead, DevOff
<1>16. CASE Reset
  BY <1>1, <1>2, <1>16 DEF Reset, ResetBegins, ResetDisables, ResetClears, ResetEnds,
                           ResetFails, RingInv, Running, NoReset
<1>. QED BY <1>6, <1>7, <1>8, <1>9, <1>10, <1>11, <1>12, <1>13, <1>14, <1>15, <1>16
         DEF Next, Handler, Controller

\* As long as fewer parts are read than there are identifiers, no command is overtaken by
\* another with its identifier, so that the three theorems above hold as they are: with
\* 2^16 identifiers this is every instance TLC checks.
THEOREM FewPartsAreNotOvertaken ==
    ASSUME NEW p, FewParts(p)
    PROVE  Spec => []NotOvertaken
<1> DEFINE I == NvmeInv /\ Budget(p) /\ Used
<1>1. Init => I
  <2> SUFFICES ASSUME Init
               PROVE  Budget(p) /\ Used
    BY NvmeInvInit
  <2>1. /\ host.cid = 0 /\ Len(unsub) = 0 /\ started = 0 /\ DOMAIN async = {}
        /\ dev.head = 0 /\ dev.tail = 0 /\ dev.fly = {} /\ dev.ctail = 0 /\ host.cqh = 0
        /\ \A r \in Requests : req[r].next = 0
    BY DEF Init, ZeroHost, DevReady, DevOff, NoRequest
  <2>2. ToTake = {} /\ ToFetch = {}
    BY <2>1, QueueAssumption DEF ToTake, ToFetch, Between, Ahead
  <2>3. 0 * p = 0
    BY DEF FewParts
  <2>. QED BY <2>1, <2>2, <2>3 DEF Budget, Used, Pending
<1>2. I => NotOvertaken
  BY NoneOvertaken DEF NvmeInv
<1>3. I /\ [Next]_nvmeVars => I'
  <2> SUFFICES ASSUME I, [Next]_nvmeVars
               PROVE  I'
    OBVIOUS
  <2>1. NotOvertaken
    BY <1>2
  <2>2. Budget(p)'
    BY BudgetStep DEF NvmeInv
  <2>. QED BY <2>1, <2>2, NvmeInvStep, UsedStep
<1>. QED BY <1>1, <1>2, <1>3, PTL DEF Spec
=============================================================================
