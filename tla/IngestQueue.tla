------------------------------ MODULE IngestQueue ------------------------------
(***************************************************************************)
(* The webhooks' side of the queue: backpressure. A request enqueues one   *)
(* shot, or a batch of them concurrently; each enqueue counts the waiting  *)
(* jobs and adds its own in a later step, and a batch is counted as a      *)
(* whole before. The processor is reduced to taking jobs and reporting     *)
(* their end; what it does with a shot is the subject of ShotPipeline.     *)
(***************************************************************************)
EXTENDS JobQueue, FiniteSets

CONSTANTS
    Request,    \* webhook requests
    RequestOf,  \* [Shot -> Request]: the request a shot came with
    Batches,    \* requests of the batch endpoint (SwingMetric)
    MaxDepth,   \* MAX_QUEUE_DEPTH
    NoJobId

ASSUME ShotsCameWithRequests == RequestOf \in [Shot -> Request]
ASSUME BatchesAreRequests == Batches \subseteq Request
ASSUME SingleEndpointsTakeOneShot ==
    \A s, t \in Shot : RequestOf[s] = RequestOf[t] /\ RequestOf[s] \notin Batches => s = t
ASSUME ShotsAreFinite == IsFiniteSet(Shot) /\ IsFiniteSet(JobId)
ASSUME DepthIsPositive == MaxDepth \in Nat \ {0}
ASSUME NoJobIdIsNoJobId == NoJobId \notin JobId

VARIABLES
    phase,      \* phase[r]: how far the request is
    call,       \* call[s]: how far enqueue is with s
    worker,     \* worker[w]: the job slot w is at work on
    starts,     \* starts[k]: how often the job under k was started
    failures,   \* jobs for which onFailed counted a failure
    raced       \* history: requests overlapped, or a job came back to the queue

vars == <<job, phase, call, worker, starts, failures, raced>>

Phase == {"new", "check", "open", "refused", "broken"}
Call == {"new", "count", "add", "added", "refused", "broken"}

TypeOK ==
    /\ job \in [JobId -> JobRecord]
    /\ phase \in [Request -> Phase]
    /\ call \in [Shot -> Call]
    /\ worker \in [Slot -> JobId \cup {NoJobId}]
    /\ starts \in [JobId -> Nat]
    /\ failures \subseteq JobId
    /\ raced \in BOOLEAN

Init ==
    /\ QueueInit
    /\ phase = [r \in Request |-> "new"]
    /\ call = [s \in Shot |-> "new"]
    /\ worker = [w \in Slot |-> NoJobId]
    /\ starts = [k \in JobId |-> 0]
    /\ failures = {}
    /\ raced = FALSE

-----------------------------------------------------------------------------

ShotsOf(r) == {s \in Shot : RequestOf[s] = r}

\* queue.getWaitingCount: active and delayed jobs are not among them.
Waiting == {k \in JobId : job[k].state = "waiting"}
WaitingCount == Cardinality(Waiting)

\* A request that may still count or add.
InFlight(r) ==
    \/ phase[r] = "check"
    \/ \E s \in ShotsOf(r) : call[s] \in {"count", "add"}

\* Every shot's enqueue starts at once (shots.map).
CallAll(r) == [s \in Shot |-> IF s \in ShotsOf(r) THEN "count" ELSE call[s]]

\* A request arrives: a batch is checked as a whole, a single shot is not.
Arrive(r) ==
    /\ phase[r] = "new"
    /\ IF r \in Batches
         THEN /\ phase' = [phase EXCEPT ![r] = "check"]
              /\ UNCHANGED call
         ELSE /\ phase' = [phase EXCEPT ![r] = "open"]
              /\ call' = CallAll(r)
    /\ raced' = (raced \/ \E q \in Request : InFlight(q))
    /\ UNCHANGED <<job, worker, starts, failures>>

\* Mutant: the batch is checked as if it were one shot.
RoomForOne(n) == WaitingCount < MaxDepth

\* checkBatchCapacity: room for n more.
RoomFor(n) == WaitingCount + n <= MaxDepth

CheckBatch(r) ==
    /\ phase[r] = "check"
    /\ IF RoomFor(Cardinality(ShotsOf(r)))
         THEN /\ phase' = [phase EXCEPT ![r] = "open"]
              /\ call' = CallAll(r)
         ELSE /\ phase' = [phase EXCEPT ![r] = "refused"]
              /\ UNCHANGED call
    /\ UNCHANGED <<job, worker, starts, failures, raced>>

\* enqueue, up to the count it awaits.
CountWaiting(s) ==
    /\ call[s] = "count"
    /\ call' = [call EXCEPT ![s] =
                    IF WaitingCount >= MaxDepth THEN "refused" ELSE "add"]
    /\ UNCHANGED <<job, phase, worker, starts, failures, raced>>

\* The job is in the queue, unless its key was.
QueueShot(s) ==
    /\ AddJob(KeyOf[s], s)
    /\ starts' = IF job[KeyOf[s]].state = "none"
                   THEN [starts EXCEPT ![KeyOf[s]] = 0]
                   ELSE starts

\* enqueue, from there on.
AddShot(s) ==
    /\ call[s] = "add"
    /\ QueueShot(s)
    /\ call' = [call EXCEPT ![s] = "added"]
    /\ UNCHANGED <<phase, worker, failures, raced>>

\* Redis fails a batch's check, or a shot's count or add; the add may have been
\* done and only its answer lost.
BreakCheck(r) ==
    /\ phase[r] = "check"
    /\ phase' = [phase EXCEPT ![r] = "broken"]
    /\ UNCHANGED <<job, call, worker, starts, failures, raced>>

BreakCall(s) ==
    /\ call[s] \in {"count", "add"}
    /\ call' = [call EXCEPT ![s] = "broken"]
    /\ \/ UNCHANGED <<job, starts>>
       \/ call[s] = "add" /\ QueueShot(s)
    /\ UNCHANGED <<phase, worker, failures, raced>>

-----------------------------------------------------------------------------
(* The processor's side.                                                   *)

Start(w, k) ==
    /\ worker[w] = NoJobId
    /\ TakeJob(k, w)
    /\ worker' = [worker EXCEPT ![w] = k]
    /\ starts' = [starts EXCEPT ![k] = @ + 1]
    /\ UNCHANGED <<phase, call, failures, raced>>

Finish(w) ==
    /\ worker[w] # NoJobId
    /\ CompleteJob(worker[w], w)
    /\ worker' = [worker EXCEPT ![w] = NoJobId]
    /\ UNCHANGED <<phase, call, starts, failures, raced>>

\* The job's attempt fails, and the worker's failed event reaches onFailed,
\* whether or not an attempt is left.
Fail(w) ==
    /\ worker[w] # NoJobId
    /\ FailJob(worker[w], w)
    /\ failures' = IF HoldsLock(worker[w], w) THEN failures \cup {worker[w]}
                                              ELSE failures
    /\ worker' = [worker EXCEPT ![w] = NoJobId]
    /\ UNCHANGED <<phase, call, starts, raced>>

Crash(w) ==
    /\ worker[w] # NoJobId
    /\ worker' = [worker EXCEPT ![w] = NoJobId]
    /\ UNCHANGED <<job, phase, call, starts, failures, raced>>

\* A delayed or stalled job comes back, whatever the depth of the queue.
Promote(k) ==
    /\ PromoteJob(k)
    /\ raced' = TRUE
    /\ UNCHANGED <<phase, call, worker, starts, failures>>

Reclaim(k) ==
    /\ StallJob(k)
    /\ raced' = TRUE
    /\ failures' = IF job'[k].state = "failed" THEN failures \cup {k} ELSE failures
    /\ UNCHANGED <<phase, call, worker, starts>>

Expire(k) == ExpireJob(k) /\ UNCHANGED <<phase, call, worker, starts, failures, raced>>

-----------------------------------------------------------------------------

Next ==
    \/ \E r \in Request : Arrive(r) \/ CheckBatch(r) \/ BreakCheck(r)
    \/ \E s \in Shot : CountWaiting(s) \/ AddShot(s) \/ BreakCall(s)
    \/ \E w \in Slot, k \in JobId : Start(w, k)
    \/ \E w \in Slot : Finish(w) \/ Fail(w) \/ Crash(w)
    \/ \E k \in JobId : Promote(k) \/ Reclaim(k) \/ Expire(k)

Spec == Init /\ [][Next]_vars

-----------------------------------------------------------------------------

\* The request is answered 202: Promise.all waits for every enqueue.
Accepted(r) == phase[r] = "open" /\ \A s \in ShotsOf(r) : call[s] = "added"

\* The request is answered 503: Promise.all rejects with the first refusal,
\* and the other enqueues go on.
Refused(r) == phase[r] = "refused" \/ \E s \in ShotsOf(r) : call[s] = "refused"

\* As long as requests follow each other and no job comes back, the queue is
\* never deeper than MAX_QUEUE_DEPTH (checkBatchCapacity, enqueue). A batch
\* whose shots are all counted before one is added does not overflow it.
DepthIsKept == ~ raced => WaitingCount <= MaxDepth

\* ... and a batch is refused as a whole: one that is answered 503 has added
\* nothing, and the vendor may send it again in thirty seconds.
RefusedBatchAddsNothing ==
    \A r \in Request :
        Refused(r) => \A s \in ShotsOf(r) : call[s] \notin {"add", "added"}

RefusalIsWhole == ~ raced => RefusedBatchAddsNothing

\* No job is started more often than its attempts and stalls allow, zombies,
\* crashes and retransmissions included (attempts: 5).
StartsAreBounded == \A k \in JobId : starts[k] <= MaxAttempts + MaxStalls

\* The counter behind the "shots are being dropped" alert rises only with a
\* job that has failed for good (onFailed).
FailureIsFinal ==
    [][\A k \in JobId :
         k \in failures' \ failures => job'[k].state = "failed"]_vars

=============================================================================
