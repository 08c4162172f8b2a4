----------------------------- MODULE NvmeAsync -----------------------------
(***************************************************************************)
(* The asynchronous half of the NVMe driver library (NvmExpressLib): the   *)
(* pair of rings number 2, the pass-through entry point that fills it, the *)
(* 1 ms timer handler that feeds and empties it, the BlockIo2 requests cut *)
(* into subtasks above it, and the two ways it is torn down, a blocking    *)
(* command that times out and a reset of the block device.                 *)
(*                                                                         *)
(* Who runs when.  The caller of BlockIo2 runs at TPL_CALLBACK and can be  *)
(* interrupted between any two of its statements by the timer handler      *)
(* ProcessAsyncTaskList, which runs at TPL_NOTIFY and is never             *)
(* interrupted; the events it signals run AsyncIoCallback, also at         *)
(* TPL_NOTIFY, when it returns.  The controller runs all the time.         *)
(*                                                                         *)
(* A command is a subtask <<request, part>>; addresses, lengths and the    *)
(* direction of a transfer make no difference here.                        *)
(***************************************************************************)
EXTENDS Naturals, Sequences, FiniteSets, SequencesExt

CONSTANTS
    Requests,    \* the tokens a caller may hand to BlockIo2, one request each
    Parts,       \* how many subtasks a request is cut into (Mdts)
    QueueSize,   \* entries of the submission ring, MIN(63, Mqes) + 1
    CqSize,      \* entries of the completion ring, MIN(255, Mqes) + 1
    Cids,        \* number of command identifiers, 2^16 in the code
    MaxReads,    \* bound: reads started in one behaviour
    FaultSets    \* situations: the faults that may happen, see FaultKinds

FaultKinds ==
    { "media",     \* a command completes with an error status
      "map",       \* PciIo->Map fails inside PassThru
      "memory",    \* a pool allocation fails
      "timeout",   \* a blocking command on another ring times out
      "dead",      \* the controller does not come back from a reset
      "reset",     \* somebody calls BlockIo.Reset
      "resetEx" }  \* somebody calls BlockIo2.Reset

ASSUME PartsAssumption == Parts \in [Requests -> Nat \ {0}]
ASSUME QueueAssumption == /\ QueueSize \in Nat \ {0, 1}
                          /\ CqSize \in Nat \ {0, 1}
                          /\ Cids \in Nat \ {0}
                          /\ MaxReads \in Nat
ASSUME FaultsAssumption == FaultSets \subseteq SUBSET FaultKinds

VARIABLES
    faults,    \* what may go wrong in this behaviour
    started,   \* how many reads were started, for the bound
    caller,    \* where the code below TPL_NOTIFY is
    tick,      \* where ProcessAsyncTaskList is
    armed,     \* TimerEvent is set to fire periodically
    host,      \* Sqt, AsyncSqHead, Cid, Cqh and Pt of ring 2
    sq,        \* the submission ring in memory
    cq,        \* the completion ring in memory
    dev,       \* the controller's side of ring 2
    unsub,     \* UnsubmittedSubtasks
    async,     \* AsyncPassThruQueue
    notify,    \* subtasks whose Event is signalled and whose callback waits
    req,       \* the NVME_BLKIO2_REQUESTs
    token,     \* the callers' EFI_BLOCK_IO2_TOKENs
    failed,    \* subtasks whose NvmeCompletion holds an error status
    moved      \* subtasks whose data the controller has transferred

nvmeVars == <<faults, started, caller, tick, armed, host, sq, cq, dev, unsub, async, notify,
              req, token, failed, moved>>

Task == UNION {{<<r, i>> : i \in 1 .. Parts[r]} : r \in Requests}

IsLast(t) == t[2] = Parts[t[1]]

(***************************************************************************)
(* The state of the host's side of the ring, of the rings and of the       *)
(* controller after NvmeControllerInit.  A zeroed completion entry has     *)
(* phase 0, as Pt has, so it is not taken for a completion.                *)
(***************************************************************************)
ZeroHost == [sqt |-> 0, sqHead |-> 0, cid |-> 0, cqh |-> 0, pt |-> 0]

NoCommand == [cid |-> 0, task |-> <<>>]
ZeroSq == [k \in 0 .. QueueSize - 1 |-> NoCommand]
ZeroCq == [k \in 0 .. CqSize - 1 |->
              [cid |-> 0, phase |-> 0, sqhd |-> 0, error |-> FALSE]]

DevOff == [on |-> FALSE, head |-> 0, tail |-> 0, fly |-> {},
           ctail |-> 0, phase |-> 1, chead |-> 0]
DevReady == [DevOff EXCEPT !.on = TRUE]

NoRequest == [live |-> FALSE, next |-> 0, subs |-> {}, last |-> FALSE]
NoToken == [event |-> "idle", status |-> "success"]

Init ==
    /\ faults \in FaultSets
    /\ started = 0
    /\ caller = "idle"
    /\ tick = "idle"
    /\ armed = TRUE
    /\ host = ZeroHost
    /\ sq = ZeroSq
    /\ cq = ZeroCq
    /\ dev = DevReady
    /\ unsub = <<>>
    /\ async = <<>>
    /\ notify = <<>>
    /\ req = [r \in Requests |-> NoRequest]
    /\ token = [r \in Requests |-> NoToken]
    /\ failed = {}
    /\ moved = {}

-----------------------------------------------------------------------------
(***************************************************************************)
(* BlockIo2 requests.                                                      *)
(***************************************************************************)

\* Nothing runs at TPL_NOTIFY.
BelowNotify == tick = "idle" /\ notify = <<>>

\* UnsubmittedSubtaskNum: it is raised and lowered with every insertion in
\* and removal from UnsubmittedSubtasks.
Unsubmitted(queue, r) == Cardinality({k \in DOMAIN queue : queue[k][1] = r})

\* The request leaves the device's AsyncQueue, is freed and its token's event
\* is signalled.
Finished(r) ==
    /\ req' = [req EXCEPT ![r] = NoRequest]
    /\ token' = [token EXCEPT ![r].event = "signalled"]

\* NvmeBlockIoReadBlocksEx with an event: a new request, no subtask yet.
StartRead(r) ==
    /\ BelowNotify
    /\ caller = "idle"
    /\ token[r].event # "waiting"
    /\ started < MaxReads
    /\ started' = started + 1
    /\ caller' = "read"
    /\ token' = [token EXCEPT ![r] = [event |-> "waiting", status |-> "success"]]
    /\ req' = [req EXCEPT ![r] = [NoRequest EXCEPT !.live = TRUE, !.next = 1]]
    /\ failed' = {t \in failed : t[1] # r}
    /\ moved' = {t \in moved : t[1] # r}
    /\ UNCHANGED <<faults, tick, armed, host, sq, cq, dev, unsub, async, notify>>

\* AsyncReadSectors succeeds for the next part.
QueuePart(r) ==
    /\ BelowNotify
    /\ caller = "read" /\ req[r].next > 0
    /\ LET t == <<r, req[r].next>>
       IN  /\ unsub' = Append(unsub, t)
           /\ req' = [req EXCEPT ![r].next = IF IsLast(t) THEN 0 ELSE @ + 1]
           /\ caller' = IF IsLast(t) THEN "idle" ELSE caller
    /\ UNCHANGED <<faults, started, tick, armed, host, sq, cq, dev, async, notify, token,
                   failed, moved>>

\* AsyncReadSectors fails for the next part: with nothing queued the request
\* is withdrawn and the error returned, else the caller is told that it was
\* queued.
QueuePartFails(r) ==
    /\ "memory" \in faults
    /\ BelowNotify
    /\ caller = "read" /\ req[r].next > 0
    /\ caller' = "idle"
    /\ IF req[r].subs = {} /\ Unsubmitted(unsub, r) = 0
         THEN /\ req' = [req EXCEPT ![r] = NoRequest]
              /\ token' = [token EXCEPT ![r].event = "idle"]
         ELSE /\ req' = [req EXCEPT ![r].last = TRUE, ![r].next = 0]
              /\ token' = [token EXCEPT ![r].status = "device_error"]
    /\ UNCHANGED <<faults, started, tick, armed, host, sq, cq, dev, unsub, async, notify,
                   failed, moved>>

\* AsyncIoCallback for the subtask whose event was signalled first.
\* Mutant: it does not wait for the other subtasks of the request.
Callback_NoCount ==
    /\ tick = "idle"
    /\ notify # <<>>
    /\ LET t == Head(notify)
           r == t[1]
           left == req[r].subs \ {t[2]}
           verdict == IF token[r].status = "success" /\ t \in failed
                        THEN "device_error" ELSE token[r].status
       IN  IF req[r].last
             THEN /\ req' = [req EXCEPT ![r] = NoRequest]
                  /\ token' = [token EXCEPT ![r] = [event |-> "signalled",
                                                    status |-> verdict]]
             ELSE /\ req' = [req EXCEPT ![r].subs = left]
                  /\ token' = [token EXCEPT ![r].status = verdict]
    /\ notify' = Tail(notify)
    /\ UNCHANGED <<faults, started, caller, tick, armed, host, sq, cq, dev, unsub, async,
                   failed, moved>>

\* Mutant: the status of the completion is never looked at.
Callback_NoStatus ==
    /\ tick = "idle"
    /\ notify # <<>>
    /\ LET t == Head(notify)
           r == t[1]
           left == req[r].subs \ {t[2]}
       IN  IF left = {} /\ req[r].last
             THEN Finished(r)
             ELSE /\ req' = [req EXCEPT ![r].subs = left]
                  /\ UNCHANGED token
    /\ notify' = Tail(notify)
    /\ UNCHANGED <<faults, started, caller, tick, armed, host, sq, cq, dev, unsub, async,
                   failed, moved>>

Callback ==
    /\ tick = "idle"
    /\ notify # <<>>
    /\ LET t == Head(notify)
           r == t[1]
           left == req[r].subs \ {t[2]}
           verdict == IF token[r].status = "success" /\ t \in failed
                        THEN "device_error" ELSE token[r].status
       IN  IF left = {} /\ req[r].last
             THEN /\ req' = [req EXCEPT ![r] = NoRequest]
                  /\ token' = [token EXCEPT ![r] = [event |-> "signalled",
                                                    status |-> verdict]]
             ELSE /\ req' = [req EXCEPT ![r].subs = left]
                  /\ token' = [token EXCEPT ![r].status = verdict]
    /\ notify' = Tail(notify)
    /\ UNCHANGED <<faults, started, caller, tick, armed, host, sq, cq, dev, unsub, async,
                   failed, moved>>

-----------------------------------------------------------------------------
(***************************************************************************)
(* ProcessAsyncTaskList, first loop: hand the waiting subtasks to PassThru.*)
(***************************************************************************)

TimerTick ==
    /\ armed
    /\ BelowNotify
    /\ tick' = "submit"
    /\ UNCHANGED <<faults, started, caller, armed, host, sq, cq, dev, unsub, async, notify,
                   req, token, failed, moved>>

\* The submission ring is full for all the host knows.
RingFull == (host.sqt + 1) % QueueSize = host.sqHead

\* Nothing to submit, or no room: on to the second loop.
SubmitEnds ==
    /\ tick = "submit"
    /\ \/ unsub = <<>>
       \/ /\ unsub # <<>>
          /\ token[Head(unsub)[1]].status = "success"
          /\ RingFull
    /\ tick' = "reap"
    /\ UNCHANGED <<faults, started, caller, armed, host, sq, cq, dev, unsub, async, notify,
                   req, token, failed, moved>>

\* A subtask of a request that already failed is thrown away.
Discard ==
    /\ tick = "submit"
    /\ unsub # <<>>
    /\ LET r == Head(unsub)[1]
       IN  /\ token[r].status # "success"
           /\ unsub' = Tail(unsub)
           /\ IF /\ req[r].subs = {}
                 /\ req[r].last
                 /\ Unsubmitted(Tail(unsub), r) = 0
                THEN Finished(r)
                ELSE UNCHANGED <<req, token>>
    /\ UNCHANGED <<faults, started, caller, tick, armed, host, sq, cq, dev, async, notify,
                   failed, moved>>

\* What PassThru has written in the ring before anything can fail.
Filled(t) ==
    sq' = [sq EXCEPT ![host.sqt] = [cid |-> host.cid, task |-> t]]

Rung == [dev EXCEPT !.tail = IF dev.on THEN (host.sqt + 1) % QueueSize ELSE @]

\* Mutant: the command identifier is not advanced.
Submitted_SameCid == [host EXCEPT !.sqt = (@ + 1) % QueueSize]

Submitted == [host EXCEPT !.sqt = (@ + 1) % QueueSize,
                          !.cid = (@ + 1) % Cids]

\* PassThru takes the subtask: it fills the entry, rings the doorbell and
\* remembers the command.
Submit ==
    /\ tick = "submit"
    /\ unsub # <<>>
    /\ ~RingFull
    /\ LET t == Head(unsub)
       IN  /\ token[t[1]].status = "success"
           /\ Filled(t)
           /\ host' = Submitted
           /\ dev' = Rung
           /\ async' = Append(async, [cid |-> host.cid, task |-> t])
           /\ req' = [req EXCEPT ![t[1]].subs = @ \cup {t[2]},
                                 ![t[1]].last = @ \/ IsLast(t)]
    /\ unsub' = Tail(unsub)
    /\ UNCHANGED <<faults, started, caller, tick, armed, cq, notify, token, failed, moved>>

\* PassThru fails: before the doorbell when a buffer cannot be mapped, after
\* it when there is no memory to remember the command.
SubmitFails(why) ==
    /\ why \in faults
    /\ tick = "submit"
    /\ unsub # <<>>
    /\ ~RingFull
    /\ LET t == Head(unsub)
           r == t[1]
       IN  /\ token[r].status = "success"
           /\ Filled(t)
           /\ IF why = "memory"
                THEN host' = Submitted /\ dev' = Rung
                ELSE /\ host' = [host EXCEPT !.cid = (@ + 1) % Cids]
                     /\ UNCHANGED dev
           /\ IF req[r].subs = {} /\ IsLast(t)
                THEN /\ req' = [req EXCEPT ![r] = NoRequest]
                     /\ token' = [token EXCEPT ![r] = [event |-> "signalled",
                                                       status |-> "device_error"]]
                ELSE /\ token' = [token EXCEPT ![r].status = "device_error"]
                     /\ UNCHANGED req
    /\ unsub' = Tail(unsub)
    /\ UNCHANGED <<faults, started, caller, tick, armed, cq, async, notify, failed, moved>>

-----------------------------------------------------------------------------
(***************************************************************************)
(* ProcessAsyncTaskList, second loop: take the completions.                *)
(***************************************************************************)

\* The entry at the host's head carries the other phase.
Posted == cq[host.cqh].phase # host.pt

\* Mutant: the head runs past the end of the ring.
NextHead_NoWrap == [cqh |-> host.cqh + 1, pt |-> host.pt]

\* Mutant: the phase is not turned over when the ring wraps.
NextHead_SamePhase == [cqh |-> (host.cqh + 1) % CqSize, pt |-> host.pt]

NextHead == IF host.cqh + 1 = CqSize
              THEN [cqh |-> 0, pt |-> 1 - host.pt]
              ELSE [cqh |-> host.cqh + 1, pt |-> host.pt]

Taken(e) == {k \in DOMAIN async : async[k].cid = e.cid}

\* One completion: the request with its command identifier leaves the queue,
\* its status is copied and its event signalled.
Reap ==
    /\ tick \in {"reap", "reaped"}
    /\ Posted
    /\ tick' = "reaped"
    /\ LET e == cq[host.cqh]
           moveHead == [host EXCEPT !.cqh = NextHead.cqh, !.pt = NextHead.pt]
       IN  IF Taken(e) = {}
             THEN /\ host' = moveHead
                  /\ UNCHANGED <<async, notify, failed>>
             ELSE LET k == CHOOSE k \in Taken(e) : \A j \in Taken(e) : k <= j
                      t == async[k].task
                  IN  /\ async' = RemoveAt(async, k)
                      /\ notify' = Append(notify, t)
                      /\ failed' = IF e.error THEN failed \cup {t}
                                   ELSE failed \ {t}
                      /\ host' = [moveHead EXCEPT !.sqHead = e.sqhd]
    /\ UNCHANGED <<faults, started, caller, armed, sq, cq, dev, unsub, req, token, moved>>

\* Mutant: the head doorbell is forgotten.
HeadRung_Never == dev

HeadRung == IF dev.on THEN [dev EXCEPT !.chead = host.cqh] ELSE dev

\* The handler returns; the head doorbell is rung if an entry was taken.
ReapEnds ==
    /\ tick \in {"reap", "reaped"}
    /\ ~Posted
    /\ tick' = "idle"
    /\ dev' = IF tick = "reaped" THEN HeadRung ELSE dev
    /\ UNCHANGED <<faults, started, caller, armed, host, sq, cq, unsub, async, notify, req,
                   token, failed, moved>>

-----------------------------------------------------------------------------
(***************************************************************************)
(* The controller: it fetches the entries in order, executes what it       *)
(* fetched in any order and posts while the completion ring has room.      *)
(***************************************************************************)

Fetch ==
    /\ dev.on
    /\ dev.head # dev.tail
    /\ dev' = [dev EXCEPT !.fly = @ \cup {sq[dev.head]},
                          !.head = (@ + 1) % QueueSize]
    /\ UNCHANGED <<faults, started, caller, tick, armed, host, sq, cq, unsub, async, notify,
                   req, token, failed, moved>>

Execute(c, error) ==
    /\ error => "media" \in faults
    /\ dev.on
    /\ (dev.ctail + 1) % CqSize # dev.chead
    /\ cq' = [cq EXCEPT ![dev.ctail] = [cid |-> c.cid, phase |-> dev.phase,
                                        sqhd |-> dev.head, error |-> error]]
    /\ dev' = [dev EXCEPT !.fly = @ \ {c},
                          !.ctail = (@ + 1) % CqSize,
                          !.phase = IF dev.ctail + 1 = CqSize
                                      THEN 1 - @ ELSE @]
    /\ moved' = IF error THEN moved ELSE moved \cup ({c.task} \cap Task)
    /\ UNCHANGED <<faults, started, caller, tick, armed, host, sq, unsub, async, notify, req,
                   token, failed>>

Controller == Fetch \/ \E c \in dev.fly, error \in BOOLEAN : Execute(c, error)

-----------------------------------------------------------------------------
(***************************************************************************)
(* Tearing the rings down.  NvmeControllerInit first zeroes the host's     *)
(* counters, then disables the controller and waits, then clears the rings,*)
(* and at last enables the controller and creates its queues.              *)
(***************************************************************************)

\* Mutant: the subtasks that were never submitted are forgotten.
Aborted_OnlySubmitted(r) ==
    [req[r] EXCEPT !.last = @ \/ <<r, Parts[r]>> \in Range(unsub)]

\* AbortAsyncPassThruTasks: the subtasks not yet submitted join those of
\* their request.
Aborted(r) ==
    [req[r] EXCEPT !.subs = @ \cup {i \in 1 .. Parts[r] : <<r, i>> \in Range(unsub)},
                   !.last = @ \/ <<r, Parts[r]>> \in Range(unsub)]

AbortAll ==
    /\ req' = [r \in Requests |-> Aborted(r)]
    /\ token' = [r \in Requests |->
                    IF Unsubmitted(unsub, r) > 0
                      THEN [token[r] EXCEPT !.status = "aborted"] ELSE token[r]]
    /\ notify' = notify \o unsub \o [k \in DOMAIN async |-> async[k].task]
    /\ unsub' = <<>>
    /\ async' = <<>>

\* A blocking command times out in PassThru: the timer is stopped, the
\* controller reset, everything asynchronous aborted, the timer restarted.
BlockingTimeout ==
    /\ "timeout" \in faults
    /\ BelowNotify
    /\ caller = "idle"
    /\ host' = ZeroHost
    /\ sq' = ZeroSq
    /\ cq' = ZeroCq
    /\ dev' = DevReady
    /\ armed' = TRUE
    /\ AbortAll
    /\ UNCHANGED <<faults, started, caller, tick, failed, moved>>

\* The same, and the controller does not come back: PassThru returns at once.
BlockingTimeoutDead ==
    /\ {"timeout", "dead"} \subseteq faults
    /\ BelowNotify
    /\ caller = "idle"
    /\ host' = ZeroHost
    /\ sq' = ZeroSq
    /\ cq' = ZeroCq
    /\ dev' = DevOff
    /\ armed' = FALSE
    /\ UNCHANGED <<faults, started, caller, tick, unsub, async, notify, req, token, failed, moved>>

\* NvmeBlockIoReset, and NvmeBlockIoResetEx which first waits until no
\* asynchronous command is left.
ResetBegins ==
    /\ BelowNotify
    /\ caller = "idle"
    /\ \/ "reset" \in faults
       \/ "resetEx" \in faults /\ async = <<>> /\ unsub = <<>>
    /\ caller' = "zeroed"
    /\ host' = ZeroHost
    /\ UNCHANGED <<faults, started, tick, armed, sq, cq, dev, unsub, async, notify, req, token,
                   failed, moved>>

ResetDisables ==
    /\ BelowNotify
    /\ caller = "zeroed"
    /\ caller' = "disabled"
    /\ dev' = DevOff
    /\ UNCHANGED <<faults, started, tick, armed, host, sq, cq, unsub, async, notify, req, token,
                   failed, moved>>

ResetClears ==
    /\ BelowNotify
    /\ caller = "disabled"
    /\ caller' = "cleared"
    /\ sq' = ZeroSq
    /\ cq' = ZeroCq
    /\ UNCHANGED <<faults, started, tick, armed, host, dev, unsub, async, notify, req, token,
                   failed, moved>>

ResetEnds ==
    /\ BelowNotify
    /\ caller = "cleared"
    /\ caller' = "idle"
    /\ dev' = DevReady
    /\ UNCHANGED <<faults, started, tick, armed, host, sq, cq, unsub, async, notify, req, token,
                   failed, moved>>

\* Waiting for CSTS.RDY ran out: the caller gets an error.
ResetFails ==
    /\ "dead" \in faults
    /\ BelowNotify
    /\ caller \in {"disabled", "cleared"}
    /\ caller' = "idle"
    /\ UNCHANGED <<faults, started, tick, armed, host, sq, cq, dev, unsub, async, notify, req,
                   token, failed, moved>>

Reset == ResetBegins \/ ResetDisables \/ ResetClears \/ ResetEnds \/ ResetFails

-----------------------------------------------------------------------------
Handler ==
    \/ SubmitEnds \/ Discard \/ Submit
    \/ \E why \in {"map", "memory"} : SubmitFails(why)
    \/ Reap \/ ReapEnds \/ Callback

Caller == \E r \in Requests : QueuePart(r) \/ QueuePartFails(r)

Next ==
    \/ \E r \in Requests : StartRead(r)
    \/ Caller
    \/ TimerTick
    \/ Handler
    \/ Controller
    \/ BlockingTimeout
    \/ BlockingTimeoutDead
    \/ Reset

Spec == Init /\ [][Next]_nvmeVars

(***************************************************************************)
(* Fairness.  The firmware delivers the periodic timer and runs a notify   *)
(* function to its end; the code that queues the parts of a request and a  *)
(* reset that began are straight-line code; the controller fetches what    *)
(* was rung and answers every command it fetched.                          *)
(***************************************************************************)
Answered(t) ==
    \E c \in dev.fly, error \in BOOLEAN : c.task = t /\ Execute(c, error)

FairSpec ==
    /\ Spec
    /\ WF_nvmeVars(TimerTick)
    /\ WF_nvmeVars(Handler)
    /\ SF_nvmeVars(Caller)
    /\ WF_nvmeVars(Fetch)
    /\ \A t \in Task : SF_nvmeVars(Answered(t))

-----------------------------------------------------------------------------
Stamp == [cid : 0 .. Cids - 1, task : Task \cup {<<>>}]

(***************************************************************************)
(* The shape of the state of NVME_CONTROLLER_PRIVATE_DATA, of the rings    *)
(* and of the requests above them.                                         *)
(***************************************************************************)
TypeOK ==
    /\ faults \in FaultSets
    /\ started \in 0 .. MaxReads
    /\ caller \in {"idle", "read", "zeroed", "disabled", "cleared"}
    /\ tick \in {"idle", "submit", "reap", "reaped"}
    /\ armed \in BOOLEAN
    /\ host \in [sqt : 0 .. QueueSize - 1, sqHead : 0 .. QueueSize - 1,
                 cid : 0 .. Cids - 1, cqh : 0 .. CqSize - 1, pt : {0, 1}]
    /\ sq \in [0 .. QueueSize - 1 -> Stamp]
    /\ cq \in [0 .. CqSize - 1 ->
                [cid : 0 .. Cids - 1, phase : {0, 1},
                 sqhd : 0 .. QueueSize - 1, error : BOOLEAN]]
    /\ dev \in [on : BOOLEAN, head : 0 .. QueueSize - 1,
                tail : 0 .. QueueSize - 1, fly : SUBSET Stamp,
                ctail : 0 .. CqSize - 1, phase : {0, 1}, chead : 0 .. CqSize - 1]
    /\ unsub \in Seq(Task)
    /\ async \in Seq([cid : 0 .. Cids - 1, task : Task])
    /\ notify \in Seq(Task)
    /\ \A r \in Requests :
          req[r] \in [live : BOOLEAN, next : 0 .. Parts[r],
                     subs : SUBSET (1 .. Parts[r]), last : BOOLEAN]
    /\ token \in [Requests -> [event : {"idle", "waiting", "signalled"},
                               status : {"success", "device_error", "aborted"}]]
    /\ failed \subseteq Task
    /\ moved \subseteq Task

(***************************************************************************)
(* Entries the controller has yet to fetch, and commands it may execute.   *)
(***************************************************************************)
Waiting == {k \in 0 .. QueueSize - 1 :
               (k + QueueSize - dev.head) % QueueSize
                 < (dev.tail + QueueSize - dev.head) % QueueSize}

Outstanding == IF dev.on THEN dev.fly \cup {sq[k] : k \in Waiting} ELSE {}

(***************************************************************************)
(* The rings keep their shape and their two sides agree.  Every command    *)
(* the controller has still to answer is the only entry of                 *)
(* AsyncPassThruQueue with its command identifier, and that entry belongs  *)
(* to the same subtask: the ring never overruns and no identifier is used  *)
(* twice at a time.  When the handler has emptied the completion ring, the *)
(* host's head and phase are where the controller posts next.  (A reset    *)
(* below the timer handler and a command submitted without an AsyncRequest *)
(* break both.)                                                            *)
(***************************************************************************)
RingsAgree ==
    /\ TypeOK
    /\ faults \cap {"memory", "reset", "resetEx"} = {} =>
        /\ \A c \in Outstanding :
              {async[k].task : k \in Taken(c)} = {c.task} /\ Cardinality(Taken(c)) = 1
        /\ dev.on /\ ~Posted => host.cqh = dev.ctail /\ host.pt # dev.phase

(***************************************************************************)
(* A request outlives its parts.  Its memory is not freed while the timer  *)
(* handler or a callback still has one of its subtasks to look at, whatever*)
(* fails and however the rings are torn down; and the caller's buffer is   *)
(* not given back while a command that uses it is in the ring or in the    *)
(* controller, unless a command was submitted without an AsyncRequest or   *)
(* the block device was reset under the timer handler (see the README).    *)
(***************************************************************************)
SubtasksLive ==
    \A t \in Range(unsub) \cup Range(notify) \cup {async[k].task : k \in DOMAIN async} :
        req[t[1]].live

RequestOutlivesItsParts ==
    /\ SubtasksLive
    /\ faults \cap {"memory", "reset", "resetEx"} = {} =>
          \A c \in Outstanding : token[c.task[1]].event = "waiting"

(***************************************************************************)
(* A token whose event is signalled with success stands for data: every    *)
(* part of the request was transferred.  (AbortAsyncPassThruTasks breaks   *)
(* it, and so does a reset of the block device, see the README.)           *)
(***************************************************************************)
SuccessMeansTransferred ==
    faults \cap {"timeout", "reset", "resetEx"} = {} =>
        \A r \in Requests :
            token[r] = [event |-> "signalled", status |-> "success"]
                => \A i \in 1 .. Parts[r] : <<r, i>> \in moved

(***************************************************************************)
(* Every request that was queued is finished and the device's AsyncQueue   *)
(* drains, which blocking reads, writes and flushes wait for, also when a  *)
(* blocking command times out and the rings are reset under it.  (A part   *)
(* that fails breaks it: the parts behind it are discarded without setting *)
(* LastSubtaskSubmitted, see the README.)                                  *)
(***************************************************************************)
AsyncQueueDrains ==
    faults \subseteq {"timeout"} =>
        \A r \in Requests : req[r].live ~> ~req[r].live

=============================================================================
