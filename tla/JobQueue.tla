------------------------------- MODULE JobQueue -------------------------------
(***************************************************************************)
(* The BullMQ queue "shot-ingestion" as the code uses it: one job per      *)
(* jobId (the shot's idempotency key), five attempts with a back-off, a    *)
(* lock per active job that expires when its worker dies or blocks, and    *)
(* finished jobs that keep their jobId taken until their retention ends.   *)
(* BullMQ is a library: add is translated from the options enqueue passes, *)
(* the other operations from how the processor relies on them.             *)
(***************************************************************************)
EXTENDS Deliveries, Naturals

CONSTANTS
    Slot,           \* processor executions (concurrency slots of all processes)
    NoSlot,
    MaxAttempts,    \* attempts: 5
    MaxStalls       \* BullMQ's maxStalledCount, left at its default 1

ASSUME QueueBounds == MaxAttempts \in Nat \ {0} /\ MaxStalls \in Nat
ASSUME NoSlotIsNoSlot == NoSlot \notin Slot

VARIABLE job    \* job[k]: the job the queue holds under jobId k

JobState ==
    {"none", "waiting", "active", "delayed", "completed", "failed"}

\* A job: where it is, its data, the attempts that failed, how often it
\* stalled, and the slot whose lock token it carries.
JobRecord ==
    [state : JobState, shot : Shot \cup {NoShot}, made : 0..MaxAttempts,
     stalls : 0..MaxStalls, holder : Slot \cup {NoSlot}]

NoJob == [state |-> "none", shot |-> NoShot, made |-> 0, stalls |-> 0,
          holder |-> NoSlot]

QueueInit == job = [k \in JobId |-> NoJob]

-----------------------------------------------------------------------------

\* queue.add with jobId k: a job the queue still holds under k, finished or
\* not, swallows the call, which returns as if a job had been added.
AddJob(k, s) ==
    job' = IF job[k].state = "none"
             THEN [job EXCEPT ![k] = [NoJob EXCEPT !.state = "waiting",
                                                   !.shot = s]]
             ELSE job

\* A free slot takes a waiting job and its lock.
TakeJob(k, w) ==
    /\ job[k].state = "waiting"
    /\ job' = [job EXCEPT ![k] = [@ EXCEPT !.state = "active", !.holder = w]]

\* The slot's lock token is still the one the job carries.
HoldsLock(k, w) == job[k].state = "active" /\ job[k].holder = w

\* A job in its final state; its counts are history nobody reads.
Finished(k, state) == [NoJob EXCEPT !.state = state, !.shot = job[k].shot]

\* The processor returned. Without the lock the queue refuses the result.
CompleteJob(k, w) ==
    job' = IF HoldsLock(k, w)
             THEN [job EXCEPT ![k] = Finished(k, "completed")]
             ELSE job

\* A job one more attempt of which has failed.
BackOff(k) ==
    [job[k] EXCEPT !.state = "delayed", !.made = job[k].made + 1,
                   !.holder = NoSlot]

\* Mutant: attempts is left unset and the back-off goes on.
RetryForever(k, w) ==
    job' = IF HoldsLock(k, w)
             THEN [job EXCEPT ![k] = BackOff(k)]
             ELSE job

\* The processor threw: back off and try again, or fail for good.
FailJob(k, w) ==
    job' = IF ~ HoldsLock(k, w) THEN job
           ELSE IF job[k].made + 1 < MaxAttempts
             THEN [job EXCEPT ![k] = BackOff(k)]
             ELSE [job EXCEPT ![k] = Finished(k, "failed")]

\* The back-off of a delayed job ends.
PromoteJob(k) ==
    /\ job[k].state = "delayed"
    /\ job' = [job EXCEPT ![k] = [@ EXCEPT !.state = "waiting"]]

\* A job taken back from the slot that held it.
PutBack(k) ==
    [job[k] EXCEPT !.state = "waiting", !.stalls = job[k].stalls + 1,
                   !.holder = NoSlot]

\* The lock expired, whether its slot died or only blocked: the stalled check
\* puts the job back, or fails it when it has stalled too often.
StallJob(k) ==
    /\ job[k].state = "active"
    /\ job' = IF job[k].stalls < MaxStalls
                THEN [job EXCEPT ![k] = PutBack(k)]
                ELSE [job EXCEPT ![k] = Finished(k, "failed")]

\* removeOnComplete or removeOnFail: the retention of a finished job ends.
ExpireJob(k) ==
    /\ job[k].state \in {"completed", "failed"}
    /\ job' = [job EXCEPT ![k] = NoJob]

=============================================================================
