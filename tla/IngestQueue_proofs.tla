--------------------------- MODULE IngestQueue_proofs ---------------------------
(***************************************************************************)
(* Theorems about IngestQueue, for any requests, shots, slots, attempts,   *)
(* stalls and depth: its types, how often a job can be started, and that   *)
(* requests that follow each other keep the queue within its depth and are *)
(* refused as a whole.                                                     *)
(***************************************************************************)
EXTENDS IngestQueue, FiniteSetTheorems, TLAPS

-----------------------------------------------------------------------------
(* A job and its starts.                                                   *)

\* What the starts of a job have been spent on: an attempt that failed, a stall,
\* or the attempt under way. A finished job has spent no more than there is.
Fits(j, n) ==
    /\ j \in JobRecord /\ n \in Nat
    /\ n <= MaxAttempts + MaxStalls
    /\ j.state \in {"waiting", "delayed"} => n = j.made + j.stalls
    /\ j.state = "active" => n = j.made + j.stalls + 1
    /\ j.state \in {"waiting", "delayed", "active"} => j.made < MaxAttempts

\* Every job is within its attempts and stalls.
JobsInv ==
    /\ job \in [JobId -> JobRecord]
    /\ starts \in [JobId -> Nat]
    /\ \A k \in JobId : Fits(job[k], starts[k])

\* Another job under one jobId, that fits.
LEMMA ReplaceJob ==
  ASSUME JobsInv, NEW k \in JobId, NEW j, NEW n, Fits(j, n),
         job' = [job EXCEPT ![k] = j], starts' = [starts EXCEPT ![k] = n]
  PROVE  JobsInv'
<1>1. j \in JobRecord /\ n \in Nat
  BY DEF Fits
<1>2. job' \in [JobId -> JobRecord] /\ starts' \in [JobId -> Nat]
  BY <1>1 DEF JobsInv
<1>3. ASSUME NEW i \in JobId
      PROVE  Fits(job'[i], starts'[i])
  BY DEF JobsInv
<1> QED
  BY <1>2, <1>3 DEF JobsInv, Fits

\* ... while its starts stay what they are.
LEMMA ReplaceOnlyJob ==
  ASSUME JobsInv, NEW k \in JobId, NEW j, Fits(j, starts[k]),
         job' = [job EXCEPT ![k] = j], starts' = starts
  PROVE  JobsInv'
<1>1. starts' = [starts EXCEPT ![k] = starts[k]]
  BY DEF JobsInv
<1> QED
  BY <1>1, ReplaceJob

\* A jobId that is free.
LEMMA NoJobIsAJob == NoJob \in JobRecord /\ NoJob.state = "none"
BY QueueBounds DEF NoJob, JobRecord, JobState

\* A finished job fits, with the starts of the job it was.
LEMMA FinishedFits ==
  ASSUME JobsInv, NEW k \in JobId, NEW state \in {"completed", "failed"}
  PROVE  Fits(Finished(k, state), starts[k])
<1>1. job[k] \in JobRecord /\ Fits(job[k], starts[k])
  BY DEF JobsInv
<1>2. Finished(k, state) \in JobRecord
  <2>1. job[k].shot \in Shot \cup {NoShot}
    BY <1>1 DEF JobRecord
  <2> QED
    BY <2>1, NoJobIsAJob DEF Finished, JobRecord, JobState
<1>3. Finished(k, state).state = state
  BY DEF Finished, NoJob
<1> QED
  BY <1>1, <1>2, <1>3 DEF Fits

\* What a shot that is added makes of the queue.
LEMMA QueueShotKeeps ==
  ASSUME JobsInv, NEW s \in Shot, QueueShot(s)
  PROVE  JobsInv'
<1> DEFINE k == KeyOf[s]
<1>1. k \in JobId
  BY KeysAreJobIds
<1>2. CASE job[k].state = "none"
  <2> DEFINE j == [NoJob EXCEPT !.state = "waiting", !.shot = s]
  <2>1. job' = [job EXCEPT ![k] = j] /\ starts' = [starts EXCEPT ![k] = 0]
    BY <1>2 DEF QueueShot, AddJob
  <2>2. j \in JobRecord
    BY NoJobIsAJob DEF JobRecord, JobState
  <2>3. j.state = "waiting" /\ j.made = 0 /\ j.stalls = 0
    BY DEF NoJob
  <2> HIDE DEF j
  <2>4. Fits(j, 0)
    BY <2>2, <2>3, QueueBounds DEF Fits
  <2> QED
    BY <1>1, <2>1, <2>4, ReplaceJob
<1>3. CASE job[k].state # "none"
  <2>1. job' = job /\ starts' = starts
    BY <1>3 DEF QueueShot, AddJob
  <2> QED
    BY <2>1 DEF JobsInv
<1> QED
  BY <1>2, <1>3

\* What a slot that takes a job makes of it.
LEMMA StartKeeps ==
  ASSUME JobsInv, NEW w \in Slot, NEW k \in JobId, Start(w, k)
  PROVE  JobsInv'
<1> DEFINE j == [job[k] EXCEPT !.state = "active", !.holder = w]
<1>1. job[k] \in JobRecord /\ Fits(job[k], starts[k]) /\ starts[k] \in Nat
  BY DEF JobsInv
<1>2. job[k].state = "waiting" /\ job' = [job EXCEPT ![k] = j]
  BY DEF Start, TakeJob
<1>3. starts' = [starts EXCEPT ![k] = starts[k] + 1]
  BY DEF Start
<1>4. j \in JobRecord /\ j.state = "active" /\ j.made = job[k].made /\ j.stalls = job[k].stalls
  BY <1>1 DEF JobRecord, JobState
<1>5. job[k].made \in 0 .. MaxAttempts /\ job[k].stalls \in 0 .. MaxStalls
  BY <1>1 DEF JobRecord
<1> HIDE DEF j
<1>6. Fits(j, starts[k] + 1)
  BY <1>1, <1>2, <1>4, <1>5, QueueBounds DEF Fits
<1> QED
  BY <1>2, <1>3, <1>6, ReplaceJob

\* What the end of a job makes of it, its lock lost or not.
LEMMA EndKeeps ==
  ASSUME JobsInv, NEW w \in Slot, NEW k \in JobId, starts' = starts,
         CompleteJob(k, w) \/ FailJob(k, w)
  PROVE  JobsInv'
<1>1. job[k] \in JobRecord /\ Fits(job[k], starts[k])
  BY DEF JobsInv
<1>2. CASE job' = job
  BY <1>2 DEF JobsInv
<1>3. CASE \E state \in {"completed", "failed"} : job' = [job EXCEPT ![k] = Finished(k, state)]
  BY <1>3, FinishedFits, ReplaceOnlyJob
<1>4. CASE /\ HoldsLock(k, w) /\ job[k].made + 1 < MaxAttempts
           /\ job' = [job EXCEPT ![k] = BackOff(k)]
  <2>1. job[k].made \in 0 .. MaxAttempts /\ job[k].stalls \in 0 .. MaxStalls
    BY <1>1 DEF JobRecord
  <2>2. job[k].made + 1 \in 0 .. MaxAttempts
    BY <1>4, <2>1, QueueBounds
  <2>3. /\ BackOff(k) \in JobRecord /\ BackOff(k).state = "delayed"
        /\ BackOff(k).made = job[k].made + 1 /\ BackOff(k).stalls = job[k].stalls
    BY <1>1, <2>2 DEF BackOff, JobRecord, JobState
  <2>4. job[k].state = "active"
    BY <1>4 DEF HoldsLock
  <2>5. Fits(BackOff(k), starts[k])
    BY <1>1, <1>4, <2>1, <2>3, <2>4, QueueBounds DEF Fits
  <2> QED
    BY <1>4, <2>5, ReplaceOnlyJob
<1> QED
  BY <1>2, <1>3, <1>4 DEF CompleteJob, FailJob

\* What a back-off that ends, a lock that expires and a retention that ends make of it.
LEMMA ReturnKeeps ==
  ASSUME JobsInv, NEW k \in JobId, starts' = starts,
         PromoteJob(k) \/ StallJob(k) \/ ExpireJob(k)
  PROVE  JobsInv'
<1>1. job[k] \in JobRecord /\ Fits(job[k], starts[k])
  BY DEF JobsInv
<1>2. job[k].made \in 0 .. MaxAttempts /\ job[k].stalls \in 0 .. MaxStalls
  BY <1>1 DEF JobRecord
<1>3. CASE PromoteJob(k)
  <2> DEFINE j == [job[k] EXCEPT !.state = "waiting"]
  <2>1. job[k].state = "delayed" /\ job' = [job EXCEPT ![k] = j]
    BY <1>3 DEF PromoteJob
  <2>2. j \in JobRecord /\ j.state = "waiting" /\ j.made = job[k].made /\ j.stalls = job[k].stalls
    BY <1>1 DEF JobRecord, JobState
  <2> HIDE DEF j
  <2>3. Fits(j, starts[k])
    BY <1>1, <1>2, <2>1, <2>2 DEF Fits
  <2> QED
    BY <2>1, <2>3, ReplaceOnlyJob
<1>4. CASE StallJob(k)
  <2>1. job[k].state = "active"
    BY <1>4 DEF StallJob
  <2>2. CASE job[k].stalls < MaxStalls
    <3>1. job' = [job EXCEPT ![k] = PutBack(k)]
      BY <1>4, <2>2 DEF StallJob
    <3>2. job[k].stalls + 1 \in 0 .. MaxStalls
      BY <1>2, <2>2, QueueBounds
    <3>3. /\ PutBack(k) \in JobRecord /\ PutBack(k).state = "waiting"
          /\ PutBack(k).made = job[k].made /\ PutBack(k).stalls = job[k].stalls + 1
      BY <1>1, <3>2 DEF PutBack, JobRecord, JobState
    <3>4. Fits(PutBack(k), starts[k])
      BY <1>1, <1>2, <2>1, <3>3 DEF Fits
    <3> QED
      BY <3>1, <3>4, ReplaceOnlyJob
  <2>3. CASE ~ (job[k].stalls < MaxStalls)
    <3>1. job' = [job EXCEPT ![k] = Finished(k, "failed")]
      BY <1>4, <2>3 DEF StallJob
    <3> QED
      BY <3>1, FinishedFits, ReplaceOnlyJob
  <2> QED
    BY <2>2, <2>3
<1>5. CASE ExpireJob(k)
  <2>1. job' = [job EXCEPT ![k] = NoJob]
    BY <1>5 DEF ExpireJob
  <2>2. Fits(NoJob, starts[k])
    BY <1>1, NoJobIsAJob DEF Fits
  <2> QED
    BY <2>1, <2>2, ReplaceOnlyJob
<1> QED
  BY <1>3, <1>4, <1>5

-----------------------------------------------------------------------------
(* The queue.                                                              *)

\* It holds at first.
LEMMA JobsInvInit == Init => JobsInv
<1> SUFFICES ASSUME Init PROVE JobsInv
  OBVIOUS
<1>1. job = [k \in JobId |-> NoJob] /\ starts = [k \in JobId |-> 0]
  BY DEF Init, QueueInit
<1>2. Fits(NoJob, 0)
  BY NoJobIsAJob, QueueBounds DEF Fits
<1> QED
  BY <1>1, <1>2, NoJobIsAJob DEF JobsInv

\* A step keeps the types of the rest, and every job within its bounds.
LEMMA StepKeeps == TypeOK /\ JobsInv /\ [Next]_vars => TypeOK' /\ JobsInv'
<1> SUFFICES ASSUME TypeOK, JobsInv, [Next]_vars PROVE TypeOK' /\ JobsInv'
  OBVIOUS
<1> USE DEF TypeOK, Phase, Call
<1>0. JobsInv' => job' \in [JobId -> JobRecord] /\ starts' \in [JobId -> Nat]
  BY DEF JobsInv
<1>1. ASSUME job' = job, starts' = starts PROVE JobsInv'
  BY <1>1 DEF JobsInv
<1>2. ASSUME NEW r \in Request, Arrive(r) \/ CheckBatch(r) \/ BreakCheck(r)
      PROVE  TypeOK' /\ JobsInv'
  <2>1. JobsInv'
    BY <1>1, <1>2 DEF Arrive, CheckBatch, BreakCheck
  <2>2. CallAll(r) \in [Shot -> Call]
    BY DEF CallAll
  <2> QED
    BY <1>0, <1>2, <2>1, <2>2 DEF Arrive, CheckBatch, BreakCheck
<1>3. ASSUME NEW s \in Shot, CountWaiting(s) \/ AddShot(s) \/ BreakCall(s)
      PROVE  TypeOK' /\ JobsInv'
  <2>1. QueueShot(s) \/ (job' = job /\ starts' = starts)
    BY <1>3 DEF CountWaiting, AddShot, BreakCall
  <2>2. JobsInv'
    BY <1>1, <2>1, QueueShotKeeps
  <2> QED
    BY <1>0, <1>3, <2>2 DEF CountWaiting, AddShot, BreakCall
<1>4. ASSUME NEW w \in Slot, NEW k \in JobId, Start(w, k)
      PROVE  TypeOK' /\ JobsInv'
  <2>1. JobsInv'
    BY <1>4, StartKeeps
  <2> QED
    BY <1>0, <1>4, <2>1 DEF Start
<1>5. ASSUME NEW w \in Slot, Finish(w) \/ Fail(w)
      PROVE  TypeOK' /\ JobsInv'
  <2>1. worker[w] \in JobId
    BY <1>5 DEF Finish, Fail
  <2>2. JobsInv'
    BY <1>5, <2>1, EndKeeps DEF Finish, Fail
  <2> QED
    BY <1>0, <1>5, <2>1, <2>2 DEF Finish, Fail
<1>6. ASSUME NEW w \in Slot, Crash(w)
      PROVE  TypeOK' /\ JobsInv'
  BY <1>0, <1>1, <1>6 DEF Crash
<1>7. ASSUME NEW k \in JobId, Promote(k) \/ Reclaim(k) \/ Expire(k)
      PROVE  TypeOK' /\ JobsInv'
  <2>1. JobsInv'
    BY <1>7, ReturnKeeps DEF Promote, Reclaim, Expire
  <2> QED
    BY <1>0, <1>7, <2>1 DEF Promote, Reclaim, Expire
<1>8. CASE UNCHANGED vars
  BY <1>1, <1>8 DEF vars
<1> QED
  BY <1>2, <1>3, <1>4, <1>5, <1>6, <1>7, <1>8 DEF Next

\* The types hold at first.
LEMMA TypesInit == Init => TypeOK
BY JobsInvInit DEF Init, TypeOK, JobsInv, Phase, Call

\* The types of the queue's requests, calls, jobs and slots.
THEOREM QueueIsTyped == Spec => []TypeOK
BY TypesInit, JobsInvInit, StepKeeps, PTL DEF Spec

\* No job is started more often than its attempts and stalls allow, however its
\* slots die, block and answer late, and however often it is sent again.
THEOREM StartsHaveABound == Spec => []StartsAreBounded
<1>1. JobsInv => StartsAreBounded
  BY DEF JobsInv, StartsAreBounded, Fits
<1> QED
  BY <1>1, TypesInit, JobsInvInit, StepKeeps, PTL DEF Spec

-----------------------------------------------------------------------------
(* The depth.                                                              *)

\* Shots of a request that are still to be counted or added.
Pending(r) == {s \in ShotsOf(r) : call[s] \in {"count", "add"}}

\* A shot is called only once its request is open, and only batches are checked.
PhaseInv ==
    /\ \A s \in Shot : phase[RequestOf[s]] # "open" => call[s] = "new"
    /\ \A r \in Request \ Batches : phase[r] \in {"new", "open"}

\* One request at a time is in flight, and there is room for all it will add.
SerialInv ==
    ~ raced =>
        /\ \A q, r \in Request : InFlight(q) /\ InFlight(r) => q = r
        /\ WaitingCount <= MaxDepth
        /\ \A r \in Batches : Pending(r) # {} =>
              WaitingCount + Cardinality(Pending(r)) <= MaxDepth
        /\ \A s \in Shot : RequestOf[s] \notin Batches /\ call[s] = "add" =>
              WaitingCount < MaxDepth
        /\ \A s \in Shot : RequestOf[s] \in Batches => call[s] # "refused"

\* The sets that are counted are finite.
LEMMA CountsAreNumbers ==
  /\ IsFiniteSet(Waiting) /\ WaitingCount \in Nat
  /\ \A r \in Request : IsFiniteSet(Pending(r)) /\ Cardinality(Pending(r)) \in Nat
  /\ \A r \in Request : IsFiniteSet(ShotsOf(r)) /\ Cardinality(ShotsOf(r)) \in Nat
<1>1. Waiting \in SUBSET JobId
  BY DEF Waiting
<1>2. \A r \in Request : ShotsOf(r) \in SUBSET Shot /\ Pending(r) \in SUBSET Shot
  BY DEF ShotsOf, Pending
<1>3. IsFiniteSet(Waiting) /\ \A r \in Request : IsFiniteSet(ShotsOf(r)) /\ IsFiniteSet(Pending(r))
  BY <1>1, <1>2, ShotsAreFinite, FS_Subset
<1> QED
  BY <1>3, FS_CardinalityType DEF WaitingCount

\* A count that does not grow.
LEMMA CountFalls ==
  ASSUME Waiting' \subseteq Waiting
  PROVE  WaitingCount' \in Nat /\ WaitingCount' <= WaitingCount
<1>1. Waiting' \in SUBSET Waiting /\ IsFiniteSet(Waiting)
  BY CountsAreNumbers
<1>2. IsFiniteSet(Waiting') /\ Cardinality(Waiting') <= Cardinality(Waiting)
  BY <1>1, FS_Subset
<1> QED
  BY <1>2, FS_CardinalityType DEF WaitingCount

\* A count that grows by one at most.
LEMMA CountGrows ==
  ASSUME NEW k, Waiting' \subseteq Waiting \cup {k}
  PROVE  WaitingCount' \in Nat /\ WaitingCount' <= WaitingCount + 1
<1>1. IsFiniteSet(Waiting) /\ WaitingCount \in Nat
  BY CountsAreNumbers
<1>2. /\ IsFiniteSet(Waiting \cup {k})
      /\ Cardinality(Waiting \cup {k}) <= WaitingCount + 1
  BY <1>1, FS_AddElement DEF WaitingCount
<1>3. Cardinality(Waiting \cup {k}) \in Nat
  BY <1>2, FS_CardinalityType
<1>4. IsFiniteSet(Waiting') /\ Cardinality(Waiting') <= Cardinality(Waiting \cup {k})
  BY <1>2, FS_Subset
<1>5. Cardinality(Waiting') \in Nat
  BY <1>4, FS_CardinalityType
<1> QED
  BY <1>1, <1>2, <1>3, <1>4, <1>5 DEF WaitingCount

\* Whose shots are pending is in flight.
LEMMA PendingFlies ==
  /\ \A r \in Request : Pending(r) # {} => InFlight(r)
  /\ \A s \in Shot : call[s] \in {"count", "add"} =>
        RequestOf[s] \in Request /\ s \in Pending(RequestOf[s]) /\ InFlight(RequestOf[s])
BY ShotsCameWithRequests DEF Pending, InFlight, ShotsOf

\* Steps of the processor.
LEMMA QuietKeeps ==
  ASSUME PhaseInv, SerialInv, Waiting' \subseteq Waiting,
         call' = call, phase' = phase, raced' = raced
  PROVE  PhaseInv' /\ SerialInv'
<1>1. PhaseInv'
  BY DEF PhaseInv
<1>2. \A r \in Request : (InFlight(r)' <=> InFlight(r)) /\ Pending(r)' = Pending(r)
  BY DEF InFlight, Pending, ShotsOf
<1>3. WaitingCount' \in Nat /\ WaitingCount' <= WaitingCount /\ WaitingCount \in Nat
  BY CountFalls, CountsAreNumbers
<1>4. \A r \in Request : Cardinality(Pending(r)) \in Nat
  BY CountsAreNumbers
<1> QED
  BY <1>1, <1>2, <1>3, <1>4, BatchesAreRequests, DepthIsPositive DEF SerialInv

\* A request that arrives while none is in flight.
LEMMA ArriveKeeps ==
  ASSUME TypeOK, PhaseInv, SerialInv, NEW r \in Request, Arrive(r)
  PROVE  PhaseInv' /\ SerialInv'
<1>1. /\ phase[r] = "new" /\ \A q \in Request \ {r} : phase'[q] = phase[q]
      /\ \A s \in Shot : call'[s] = call[s] \/ (RequestOf[s] = r /\ call'[s] = "count")
      /\ phase'[r] = (IF r \in Batches THEN "check" ELSE "open")
      /\ r \in Batches => call' = call
  BY DEF Arrive, CallAll, ShotsOf, TypeOK
<1>2. PhaseInv'
  BY <1>1, ShotsCameWithRequests DEF PhaseInv
<1>3. raced' = (raced \/ \E q \in Request : InFlight(q)) /\ job' = job
  BY DEF Arrive
<1>4. ASSUME ~ raced'
      PROVE  ~ raced /\ \A q \in Request : ~ InFlight(q)
  BY <1>3, <1>4, Zenon
<1>5. WaitingCount' = WaitingCount
  BY <1>3 DEF WaitingCount, Waiting
<1>6. ASSUME \A q \in Request : ~ InFlight(q), NEW q \in Request, InFlight(q)'
      PROVE  q = r
  BY <1>1, <1>6 DEF InFlight, ShotsOf
<1>7. ASSUME \A q \in Request : ~ InFlight(q), NEW q \in Batches
      PROVE  Pending(q)' = {}
  BY <1>1, <1>7, BatchesAreRequests DEF Pending, ShotsOf, InFlight
<1>8. ASSUME \A q \in Request : ~ InFlight(q), NEW s \in Shot
      PROVE  call'[s] # "add"
  BY <1>1, <1>8, PendingFlies
<1>9. ASSUME NEW s \in Shot, RequestOf[s] \in Batches, ~ raced
      PROVE  call'[s] # "refused"
  BY <1>1, <1>9 DEF SerialInv
<1>10. ASSUME ~ raced'
       PROVE  WaitingCount' <= MaxDepth
  BY <1>4, <1>5, <1>10 DEF SerialInv
<1> QED
  BY <1>2, <1>4, <1>6, <1>7, <1>8, <1>9, <1>10 DEF SerialInv

\* A batch is counted as a whole, or its count fails.
LEMMA CheckKeeps ==
  ASSUME TypeOK, PhaseInv, SerialInv, NEW r \in Request, CheckBatch(r) \/ BreakCheck(r)
  PROVE  PhaseInv' /\ SerialInv'
<1>1. /\ phase[r] = "check" /\ job' = job /\ raced' = raced
      /\ \A q \in Request \ {r} : phase'[q] = phase[q]
      /\ \/ phase'[r] \in {"refused", "broken"} /\ call' = call
         \/ /\ phase'[r] = "open"
            /\ WaitingCount + Cardinality(ShotsOf(r)) <= MaxDepth
            /\ \A s \in Shot : call'[s] = IF RequestOf[s] = r THEN "count" ELSE call[s]
  BY DEF CheckBatch, BreakCheck, CallAll, RoomFor, ShotsOf, TypeOK
<1>2. r \in Batches
  BY <1>1 DEF PhaseInv
<1>3. PhaseInv'
  BY <1>1, <1>2, ShotsCameWithRequests DEF PhaseInv
<1>4. WaitingCount' = WaitingCount
  BY <1>1 DEF WaitingCount, Waiting
<1>5. InFlight(r)
  BY <1>1 DEF InFlight
<1>6. ASSUME NEW q \in Request, InFlight(q)'
      PROVE  InFlight(q)
  BY <1>1, <1>5, <1>6 DEF InFlight, ShotsOf
<1>7. ASSUME ~ raced, NEW q \in Batches, Pending(q)' # {}
      PROVE  WaitingCount' + Cardinality(Pending(q))' <= MaxDepth
  <2>1. CASE q # r
    <3>1. Pending(q)' = Pending(q)
      BY <1>1, <2>1 DEF Pending, ShotsOf
    <3>2. InFlight(q) /\ q \in Request
      BY <1>7, <3>1, PendingFlies, BatchesAreRequests
    <3> QED
      BY <1>5, <1>7, <2>1, <3>2 DEF SerialInv
  <2>2. CASE q = r
    <3>1. ASSUME NEW s \in Shot, RequestOf[s] = r
          PROVE  call[s] = "new"
      BY <1>1, <3>1 DEF PhaseInv
    <3>2. CASE phase'[r] = "open"
      <4>1. Pending(r)' = ShotsOf(r)
        BY <1>1, <3>2 DEF Pending, ShotsOf
      <4> QED
        BY <1>1, <1>4, <2>2, <3>2, <4>1
    <3>3. CASE phase'[r] # "open"
      <4>1. call' = call
        BY <1>1, <3>3
      <4>2. Pending(r)' = {}
        BY <3>1, <4>1 DEF Pending, ShotsOf
      <4> QED
        BY <1>7, <2>2, <4>2
    <3> QED
      BY <3>2, <3>3
  <2> QED
    BY <2>1, <2>2
<1>8. ASSUME NEW s \in Shot, RequestOf[s] \notin Batches
      PROVE  call'[s] = call[s]
  BY <1>1, <1>2, <1>8
<1>9. ASSUME ~ raced, NEW s \in Shot, RequestOf[s] \in Batches
      PROVE  call'[s] # "refused"
  BY <1>1, <1>9 DEF SerialInv
<1> QED
  BY <1>1, <1>3, <1>4, <1>6, <1>7, <1>8, <1>9 DEF SerialInv

\* A shot is counted.
LEMMA CountKeeps ==
  ASSUME TypeOK, PhaseInv, SerialInv, NEW s \in Shot, CountWaiting(s)
  PROVE  PhaseInv' /\ SerialInv'
<1> DEFINE r == RequestOf[s]
<1>1. /\ call[s] = "count" /\ job' = job /\ raced' = raced /\ phase' = phase
      /\ \A t \in Shot \ {s} : call'[t] = call[t]
      /\ call'[s] = IF WaitingCount >= MaxDepth THEN "refused" ELSE "add"
  BY DEF CountWaiting, TypeOK
<1>2. r \in Request /\ InFlight(r) /\ s \in Pending(r) /\ phase[r] = "open"
  BY <1>1, PendingFlies DEF PhaseInv
<1>3. PhaseInv'
  BY <1>1, <1>2 DEF PhaseInv
<1>4. WaitingCount' = WaitingCount /\ WaitingCount \in Nat
  BY <1>1, CountsAreNumbers DEF WaitingCount, Waiting
<1>5. ASSUME NEW q \in Request, InFlight(q)'
      PROVE  InFlight(q)
  BY <1>1, <1>2, <1>5 DEF InFlight, ShotsOf
<1>6. ASSUME ~ raced, r \in Batches
      PROVE  WaitingCount < MaxDepth
  <2>1. WaitingCount + Cardinality(Pending(r)) <= MaxDepth
    BY <1>2, <1>6 DEF SerialInv
  <2>2. Cardinality(Pending(r)) # 0 /\ Cardinality(Pending(r)) \in Nat
    BY <1>2, CountsAreNumbers, FS_EmptySet
  <2> QED
    BY <1>4, <2>1, <2>2, DepthIsPositive
<1>7. ASSUME ~ raced, NEW q \in Batches
      PROVE  Pending(q)' = Pending(q)
  <2>1. CASE q = r
    <3>1. call'[s] = "add"
      BY <1>1, <1>4, <1>6, <1>7, <2>1, DepthIsPositive
    <3> QED
      BY <1>1, <3>1 DEF Pending, ShotsOf
  <2>2. CASE q # r
    BY <1>1, <2>2 DEF Pending, ShotsOf
  <2> QED
    BY <2>1, <2>2
<1>8. ASSUME ~ raced, NEW t \in Shot, RequestOf[t] \notin Batches, call'[t] = "add"
      PROVE  WaitingCount < MaxDepth
  BY <1>1, <1>4, <1>8, DepthIsPositive DEF SerialInv
<1>9. ASSUME ~ raced, NEW t \in Shot, RequestOf[t] \in Batches
      PROVE  call'[t] # "refused"
  BY <1>1, <1>4, <1>6, <1>9, DepthIsPositive DEF SerialInv
<1> QED
  BY <1>1, <1>3, <1>4, <1>5, <1>7, <1>8, <1>9 DEF SerialInv

\* A shot is added, or Redis fails it.
LEMMA AddKeeps ==
  ASSUME TypeOK, PhaseInv, SerialInv, NEW s \in Shot, AddShot(s) \/ BreakCall(s)
  PROVE  PhaseInv' /\ SerialInv'
<1> DEFINE r == RequestOf[s]
<1>1. /\ call[s] \in {"count", "add"} /\ raced' = raced /\ phase' = phase
      /\ \A t \in Shot \ {s} : call'[t] = call[t]
      /\ call'[s] \in {"added", "broken"}
      /\ job' = job \/ (call[s] = "add" /\ AddJob(KeyOf[s], s))
  BY DEF AddShot, BreakCall, QueueShot, TypeOK
<1>2. r \in Request /\ InFlight(r) /\ s \in Pending(r) /\ phase[r] = "open"
  BY <1>1, PendingFlies DEF PhaseInv
<1>3. PhaseInv'
  BY <1>1, <1>2 DEF PhaseInv
<1>4. Waiting' \subseteq Waiting \cup {KeyOf[s]}
  BY <1>1, KeysAreJobIds DEF Waiting, AddJob, TypeOK
<1>5. WaitingCount' \in Nat /\ WaitingCount' <= WaitingCount + 1 /\ WaitingCount \in Nat
  BY <1>4, CountGrows, CountsAreNumbers
<1>6. ASSUME NEW q \in Request, InFlight(q)'
      PROVE  InFlight(q)
  BY <1>1, <1>2, <1>6 DEF InFlight, ShotsOf
<1>7. call[s] = "count" => WaitingCount' = WaitingCount
  BY <1>1 DEF WaitingCount, Waiting
<1>8. ASSUME ~ raced, r \in Batches
      PROVE  /\ WaitingCount' + Cardinality(Pending(r))' <= MaxDepth
             /\ Cardinality(Pending(r))' \in Nat
  <2>1. WaitingCount + Cardinality(Pending(r)) <= MaxDepth
    BY <1>2, <1>8 DEF SerialInv
  <2>2. Pending(r)' = Pending(r) \ {s}
    BY <1>1 DEF Pending, ShotsOf
  <2>3. IsFiniteSet(Pending(r)) /\ Cardinality(Pending(r)) \in Nat
    BY <1>2, CountsAreNumbers
  <2>4. /\ IsFiniteSet(Pending(r) \ {s})
        /\ Cardinality(Pending(r) \ {s}) = Cardinality(Pending(r)) - 1
    BY <1>2, <2>3, FS_RemoveElement
  <2>5. Cardinality(Pending(r) \ {s}) \in Nat
    BY <2>4, FS_CardinalityType
  <2> QED
    BY <1>5, <2>1, <2>2, <2>3, <2>4, <2>5, DepthIsPositive
<1>9. ASSUME ~ raced
      PROVE  WaitingCount' <= MaxDepth
  <2>1. CASE r \in Batches
    BY <1>5, <1>8, <1>9, <2>1, DepthIsPositive
  <2>2. CASE r \notin Batches /\ call[s] = "add"
    BY <1>5, <1>9, <2>2, DepthIsPositive DEF SerialInv
  <2>3. CASE call[s] = "count"
    BY <1>7, <1>9, <2>3 DEF SerialInv
  <2> QED
    BY <1>1, <2>1, <2>2, <2>3
<1>10. ASSUME ~ raced, NEW q \in Batches, q # r
       PROVE  Pending(q)' = {}
  <2>1. Pending(q)' = Pending(q)
    BY <1>1, <1>10 DEF Pending, ShotsOf
  <2>2. q \in Request /\ ~ InFlight(q)
    BY <1>2, <1>10, BatchesAreRequests DEF SerialInv
  <2> QED
    BY <2>1, <2>2, PendingFlies
<1>11. ASSUME ~ raced, NEW t \in Shot, RequestOf[t] \notin Batches
       PROVE  call'[t] # "add"
  <2>1. CASE t = s
    BY <1>1, <2>1
  <2>2. CASE t # s
    <3>1. RequestOf[t] # r
      BY <1>11, <2>2, SingleEndpointsTakeOneShot
    <3>2. RequestOf[t] \in Request
      BY ShotsCameWithRequests
    <3>3. ~ InFlight(RequestOf[t])
      BY <1>2, <1>11, <3>1, <3>2 DEF SerialInv
    <3> QED
      BY <1>1, <2>2, <3>3, PendingFlies
  <2> QED
    BY <2>1, <2>2
<1>12. ASSUME ~ raced, NEW t \in Shot, RequestOf[t] \in Batches
       PROVE  call'[t] # "refused"
  BY <1>1, <1>12 DEF SerialInv
<1> QED
  BY <1>1, <1>3, <1>6, <1>8, <1>9, <1>10, <1>11, <1>12 DEF SerialInv

\* Every step keeps both.
LEMMA StepKeepsDepth ==
  TypeOK /\ PhaseInv /\ SerialInv /\ [Next]_vars => PhaseInv' /\ SerialInv'
<1> SUFFICES ASSUME TypeOK, PhaseInv, SerialInv, [Next]_vars PROVE PhaseInv' /\ SerialInv'
  OBVIOUS
<1>1. ASSUME NEW r \in Request, Arrive(r) \/ CheckBatch(r) \/ BreakCheck(r)
      PROVE  PhaseInv' /\ SerialInv'
  BY <1>1, ArriveKeeps, CheckKeeps
<1>2. ASSUME NEW s \in Shot, CountWaiting(s) \/ AddShot(s) \/ BreakCall(s)
      PROVE  PhaseInv' /\ SerialInv'
  BY <1>2, CountKeeps, AddKeeps
<1>3. ASSUME NEW w \in Slot, NEW k \in JobId, Start(w, k)
      PROVE  PhaseInv' /\ SerialInv'
  <2>1. Waiting' \subseteq Waiting
    BY <1>3 DEF Start, TakeJob, Waiting, TypeOK
  <2> QED
    BY <1>3, <2>1, QuietKeeps DEF Start
<1>4. ASSUME NEW w \in Slot, Finish(w) \/ Fail(w) \/ Crash(w)
      PROVE  PhaseInv' /\ SerialInv'
  <2>1. worker[w] \in JobId
    BY <1>4 DEF Finish, Fail, Crash, TypeOK
  <2>2. \/ job' = job
        \/ \E j : job' = [job EXCEPT ![worker[w]] = j] /\ j.state # "waiting"
    <3>1. BackOff(worker[w]).state # "waiting"
      BY <2>1 DEF BackOff, TypeOK, JobRecord
    <3>2. /\ Finished(worker[w], "completed").state # "waiting"
          /\ Finished(worker[w], "failed").state # "waiting"
      BY DEF Finished, NoJob
    <3> QED
      BY <1>4, <3>1, <3>2 DEF Finish, Fail, Crash, CompleteJob, FailJob
  <2>3. Waiting' \subseteq Waiting
    BY <2>1, <2>2 DEF Waiting, TypeOK
  <2> QED
    BY <1>4, <2>3, QuietKeeps DEF Finish, Fail, Crash
<1>5. ASSUME NEW k \in JobId, Expire(k)
      PROVE  PhaseInv' /\ SerialInv'
  <2>1. Waiting' \subseteq Waiting
    BY <1>5 DEF Expire, ExpireJob, NoJob, Waiting, TypeOK
  <2> QED
    BY <1>5, <2>1, QuietKeeps DEF Expire
<1>6. ASSUME NEW k \in JobId, Promote(k) \/ Reclaim(k)
      PROVE  PhaseInv' /\ SerialInv'
  BY <1>6 DEF Promote, Reclaim, PhaseInv, SerialInv
<1>7. CASE UNCHANGED vars
  <2>1. Waiting' \subseteq Waiting /\ call' = call /\ phase' = phase /\ raced' = raced
    BY <1>7 DEF vars, Waiting
  <2> QED
    BY <2>1, QuietKeeps
<1> QED
  BY <1>1, <1>2, <1>3, <1>4, <1>5, <1>6, <1>7 DEF Next

\* Both hold at first.
LEMMA DepthInit == Init => PhaseInv /\ SerialInv
<1> SUFFICES ASSUME Init PROVE PhaseInv /\ SerialInv
  OBVIOUS
<1>1. /\ phase = [r \in Request |-> "new"] /\ call = [s \in Shot |-> "new"]
      /\ job = [k \in JobId |-> NoJob]
  BY DEF Init, QueueInit
<1>2. Waiting = {}
  BY <1>1, NoJobIsAJob DEF Waiting
<1>3. WaitingCount = 0
  BY <1>2, FS_EmptySet DEF WaitingCount
<1>4. \A r \in Request : ~ InFlight(r) /\ Pending(r) = {}
  BY <1>1 DEF InFlight, Pending, ShotsOf
<1> QED
  BY <1>1, <1>3, <1>4, BatchesAreRequests, ShotsCameWithRequests, DepthIsPositive
     DEF PhaseInv, SerialInv

\* As long as requests follow each other and no job comes back, the queue stays
\* within MAX_QUEUE_DEPTH, whatever a batch adds at once.
THEOREM QueueKeepsItsDepth == Spec => []DepthIsKept
<1>1. SerialInv => DepthIsKept
  BY DEF SerialInv, DepthIsKept
<1> QED
  BY <1>1, QueueIsTyped, DepthInit, StepKeepsDepth, PTL DEF Spec

\* ... and a request that is refused has added nothing.
THEOREM RefusalsAreWhole == Spec => []RefusalIsWhole
<1>1. ASSUME PhaseInv, SerialInv, ~ raced, NEW r \in Request, Refused(r), NEW s \in ShotsOf(r)
      PROVE  call[s] \notin {"add", "added"}
  <2>1. s \in Shot /\ RequestOf[s] = r
    BY DEF ShotsOf
  <2>2. CASE phase[r] = "refused"
    BY <1>1, <2>1, <2>2 DEF PhaseInv
  <2>3. CASE \E t \in ShotsOf(r) : call[t] = "refused"
    <3>1. PICK t \in Shot : RequestOf[t] = r /\ call[t] = "refused"
      BY <2>3 DEF ShotsOf
    <3>2. r \notin Batches
      BY <1>1, <3>1 DEF SerialInv
    <3> QED
      BY <2>1, <3>1, <3>2, SingleEndpointsTakeOneShot
  <2> QED
    BY <1>1, <2>2, <2>3 DEF Refused
<1>2. PhaseInv /\ SerialInv => RefusalIsWhole
  BY <1>1 DEF RefusalIsWhole, RefusedBatchAddsNothing
<1> QED
  BY <1>2, QueueIsTyped, DepthInit, StepKeepsDepth, PTL DEF Spec
=============================================================================
