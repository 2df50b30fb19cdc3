------------------------- MODULE ShotPipeline_proofs -------------------------
(***************************************************************************)
(* Theorems about ShotPipeline, for any number of shots, keys, slots and   *)
(* publishers and any bounds. Three inductive invariants are proved one    *)
(* after the other, each from the ones before it: TypeInv, ProcessInv      *)
(* (what the slots rely on), OutboxInv (what the publishers rely on).      *)
(***************************************************************************)
EXTENDS ShotPipeline, NaturalsInduction, WellFoundedInduction, TLAPS

-----------------------------------------------------------------------------
(* Types, and jobs and slots that carry the shot they are about.           *)

\* The initial state: an empty queue, idle slots and publishers, empty tables.
LEMMA InitTypeInv == Init => TypeInv
BY QueueBounds, NoShotIsNoShot, NoSlotIsNoSlot
DEF Init, TypeInv, TypeOK, JobsMatch, ExecsMatch, QueueInit, NoJob, JobRecord,
    JobState, IdleExec, IdlePub, Stage, PubStage, At

\* A record the queue may hold under k.
JobFor(k, r) ==
    r \in JobRecord /\ (r.state # "none" => r.shot \in Shot /\ KeyOf[r.shot] = k)

\* The queue as JobFor describes it, entry by entry.
LEMMA JobsByEntry ==
    ASSUME job \in [JobId -> JobRecord], JobsMatch
    PROVE  \A k \in JobId : JobFor(k, job[k])
BY DEF JobsMatch, JobFor

\* Replacing one entry by a record it may hold leaves a queue.
LEMMA ReplaceJob ==
    ASSUME job \in [JobId -> JobRecord], JobsMatch,
           NEW k \in JobId, NEW r, JobFor(k, r), job' = [job EXCEPT ![k] = r]
    PROVE  job' \in [JobId -> JobRecord] /\ JobsMatch'
BY DEF JobsMatch, JobFor

\* One operation of the queue on the job of key k.
QueueStep(k) ==
    \/ \E s \in Shot : KeyOf[s] = k /\ AddJob(k, s)
    \/ \E w \in Slot : TakeJob(k, w) \/ CompleteJob(k, w) \/ FailJob(k, w)
    \/ PromoteJob(k) \/ StallJob(k) \/ ExpireJob(k)

\* What each operation of the queue leaves of it is a queue of jobs that carry
\* shots of their own keys.
LEMMA QueueKeepsJobs ==
    ASSUME job \in [JobId -> JobRecord], JobsMatch,
           NEW k \in JobId, QueueStep(k)
    PROVE  job' \in [JobId -> JobRecord] /\ JobsMatch'
<1> USE DEF JobRecord, JobState, JobFor
<1>0. JobFor(k, job[k]) /\ NoJob \in JobRecord /\ NoJob.state = "none"
  BY JobsByEntry, QueueBounds DEF NoJob
<1>1. JobFor(k, job[k]) /\ JobFor(k, NoJob)
  BY <1>0
<1>2. ASSUME job' = job PROVE job' \in [JobId -> JobRecord] /\ JobsMatch'
  BY <1>2 DEF JobsMatch
<1>3. ASSUME NEW s \in Shot, KeyOf[s] = k, AddJob(k, s)
      PROVE  job' \in [JobId -> JobRecord] /\ JobsMatch'
  <2>1. JobFor(k, [NoJob EXCEPT !.state = "waiting", !.shot = s])
    BY <1>0, <1>3
  <2>2. CASE job[k].state = "none"
    BY <1>3, <2>1, <2>2, ReplaceJob DEF AddJob
  <2> QED
    BY <1>2, <1>3, <2>2 DEF AddJob
<1>4. ASSUME NEW w \in Slot, TakeJob(k, w) 
      PROVE  job' \in [JobId -> JobRecord] /\ JobsMatch'
  <2>1. JobFor(k, [job[k] EXCEPT !.state = "active", !.holder = w])
    BY <1>1, <1>4 DEF TakeJob
  <2> QED
    BY <1>4, <2>1, ReplaceJob DEF TakeJob
<1>5. ASSUME NEW state \in {"completed", "failed"}, job[k].state = "active"
      PROVE  JobFor(k, Finished(k, state))
  BY <1>0, <1>5 DEF Finished
<1>6. ASSUME NEW w \in Slot, CompleteJob(k, w) 
      PROVE  job' \in [JobId -> JobRecord] /\ JobsMatch'
  <2>1. CASE HoldsLock(k, w)
    BY <1>5, <1>6, <2>1, ReplaceJob DEF CompleteJob, HoldsLock
  <2> QED
    BY <1>2, <1>6, <2>1 DEF CompleteJob
<1>7. ASSUME NEW w \in Slot, FailJob(k, w) 
      PROVE  job' \in [JobId -> JobRecord] /\ JobsMatch'
  <2>1. CASE HoldsLock(k, w) /\ job[k].made + 1 < MaxAttempts
    <3>1. job[k].made + 1 \in 0..MaxAttempts
      BY <1>0, <2>1, QueueBounds
    <3>2. JobFor(k, BackOff(k))
      BY <1>1, <2>1, <3>1 DEF BackOff, HoldsLock
    <3> QED
      BY <1>7, <2>1, <3>2, ReplaceJob DEF FailJob
  <2>2. CASE HoldsLock(k, w) /\ ~ (job[k].made + 1 < MaxAttempts)
    BY <1>5, <1>7, <2>2, ReplaceJob DEF FailJob, HoldsLock
  <2> QED
    BY <1>2, <1>7, <2>1, <2>2 DEF FailJob
<1>8. CASE PromoteJob(k)
  <2>1. JobFor(k, [job[k] EXCEPT !.state = "waiting"])
    BY <1>1, <1>8 DEF PromoteJob
  <2> QED
    BY <1>8, <2>1, ReplaceJob DEF PromoteJob
<1>9. CASE StallJob(k)
  <2>1. CASE job[k].stalls < MaxStalls
    <3>1. job[k].stalls + 1 \in 0..MaxStalls
      BY <1>0, <2>1, QueueBounds
    <3>2. JobFor(k, PutBack(k))
      BY <1>1, <1>9, <3>1 DEF PutBack, StallJob
    <3> QED
      BY <1>9, <2>1, <3>2, ReplaceJob DEF StallJob
  <2>2. CASE ~ (job[k].stalls < MaxStalls)
    BY <1>5, <1>9, <2>2, ReplaceJob DEF StallJob
  <2> QED
    BY <2>1, <2>2
<1>10. CASE ExpireJob(k)
  BY <1>1, <1>10, ReplaceJob DEF ExpireJob
<1> QED
  BY <1>3, <1>4, <1>6, <1>7, <1>8, <1>9, <1>10 DEF QueueStep

\* A slot that goes on with its shot is a slot.
LEMMA GoOnTyped ==
    ASSUME TypeInv, NEW w \in Slot, exec[w].shot \in Shot,
           NEW stage \in Stage, NEW o \in Shot \cup {NoShot}, GoOn(w, stage, o)
    PROVE  /\ exec' \in [Slot -> [at : Stage, shot : Shot \cup {NoShot},
                                  origin : Shot \cup {NoShot}]]
           /\ ExecsMatch'
BY DEF TypeInv, TypeOK, ExecsMatch, GoOn, At

\* Every step of the pipeline keeps types and matches.
LEMMA NextTypeInv == TypeInv /\ [Next]_vars => TypeInv'
<1> SUFFICES ASSUME TypeInv, [Next]_vars PROVE TypeInv'
  OBVIOUS
<1> USE NoShotIsNoShot, KeysAreJobIds
    DEF TypeInv, TypeOK, ExecsMatch, At, Stage, PubStage, IdleExec, IdlePub, dbVars
<1>1. ASSUME NEW s \in Shot, PostShot(s) PROVE TypeInv'
  <2>1. job' \in [JobId -> JobRecord] /\ JobsMatch'
    BY <1>1, QueueKeepsJobs DEF PostShot, QueueStep
  <2> QED
    BY <1>1, <2>1 DEF PostShot
<1>2. ASSUME NEW k \in JobId, Promote(k) \/ Reclaim(k) \/ Expire(k) PROVE TypeInv'
  <2>1. job' \in [JobId -> JobRecord] /\ JobsMatch'
    BY <1>2, QueueKeepsJobs DEF Promote, Reclaim, Expire, QueueStep
  <2> QED
    BY <1>2, <2>1 DEF Promote, Reclaim, Expire
<1>3. ASSUME NEW w \in Slot, NEW k \in JobId, StartJob(w, k) PROVE TypeInv'
  <2>1. job' \in [JobId -> JobRecord] /\ JobsMatch'
    BY <1>3, QueueKeepsJobs DEF StartJob, QueueStep
  <2>2. job[k].shot \in Shot
    BY <1>3 DEF StartJob, TakeJob, JobsMatch
  <2> QED
    BY <1>3, <2>1, <2>2 DEF StartJob
<1>4. ASSUME NEW w \in Slot, UpsertIfNew(w) PROVE TypeInv'
  <2>1. exec[w].shot \in Shot
    BY <1>4 DEF UpsertIfNew
  <2>2. stored' \subseteq Shot /\ rowId' \in [Shot -> Nat] /\ nextId' \in Nat \ {0}
    BY <1>4, <2>1 DEF UpsertIfNew
  <2>3. /\ duplicateOf' \in [Shot -> Shot \cup {NoShot}]
        /\ rowOrigin' \in [Shot -> Shot \cup {NoShot}]
    BY <1>4, <2>1 DEF UpsertIfNew
  <2>4. exec' \in [Slot -> [at : Stage, shot : Shot \cup {NoShot},
                            origin : Shot \cup {NoShot}]] /\ ExecsMatch'
    BY <1>4, <2>1, GoOnTyped DEF UpsertIfNew, AfterUpsert
  <2> QED
    BY <1>4, <2>2, <2>3, <2>4 DEF UpsertIfNew, JobsMatch
<1>5. ASSUME NEW w \in Slot, SearchOrigin(w) PROVE TypeInv'
  <2>1. Origins(exec[w].shot, stored) \subseteq Shot
    BY DEF Origins, Twins
  <2>2. exec[w].shot \in Shot
    BY <1>5 DEF SearchOrigin
  <2> QED
    BY <1>5, <2>1, <2>2, GoOnTyped DEF SearchOrigin, JobsMatch
<1>6. ASSUME NEW w \in Slot, FlagDuplicate(w) PROVE TypeInv'
  <2>1. exec[w].shot \in Shot
    BY <1>6 DEF FlagDuplicate
  <2> QED
    BY <1>6, <2>1, GoOnTyped DEF FlagDuplicate, JobsMatch
<1>7. ASSUME NEW w \in Slot, RelabelEvent(w) PROVE TypeInv'
  <2>1. exec[w].shot \in Shot
    BY <1>7 DEF RelabelEvent
  <2> QED
    BY <1>7, <2>1, GoOnTyped DEF RelabelEvent, JobsMatch
<1>8. ASSUME NEW w \in Slot, FinishJob(w) \/ FailAttempt(w) PROVE TypeInv'
  <2>1. exec[w].shot \in Shot /\ KeyOf[exec[w].shot] \in JobId
    BY <1>8 DEF FinishJob, FailAttempt
  <2>2. job' \in [JobId -> JobRecord] /\ JobsMatch'
    BY <1>8, <2>1, QueueKeepsJobs DEF FinishJob, FailAttempt, QueueStep
  <2> QED
    BY <1>8, <2>2 DEF FinishJob, FailAttempt
<1>9. ASSUME NEW w \in Slot, CrashSlot(w) PROVE TypeInv'
  BY <1>9 DEF CrashSlot, JobsMatch
<1>10. ASSUME NEW p \in Publisher, ClaimBatch(p) PROVE TypeInv'
  BY <1>10 DEF ClaimBatch, Claimable, Outbox, JobsMatch
<1>11. ASSUME NEW p \in Publisher, EmitBatch(p) PROVE TypeInv'
  <2>1. PICK sent \in SUBSET pub[p].batch :
           pub' = [pub EXCEPT ![p] = [pub[p] EXCEPT !.at = "delete", !.sent = sent]]
    BY <1>11 DEF EmitBatch
  <2>3. [pub[p] EXCEPT !.at = "delete", !.sent = sent]
          \in [at : PubStage, batch : SUBSET Shot, sent : SUBSET Shot]
    OBVIOUS
  <2>2. events' \subseteq Shot \X (Shot \cup {NoShot})
    BY <1>11 DEF EmitBatch
  <2> QED
    BY <1>11, <2>1, <2>2, <2>3 DEF EmitBatch, JobsMatch
<1>12. ASSUME NEW p \in Publisher, CommitBatch(p) PROVE TypeInv'
  BY <1>12 DEF CommitBatch, JobsMatch
<1>13. ASSUME NEW p \in Publisher, AbortBatch(p) PROVE TypeInv'
  BY <1>13 DEF AbortBatch, JobsMatch
<1>14. CASE UNCHANGED vars
  BY <1>14 DEF vars, JobsMatch
<1> QED
  BY <1>1, <1>2, <1>3, <1>4, <1>5, <1>6, <1>7, <1>8, <1>9, <1>10, <1>11, <1>12,
     <1>13, <1>14 DEF Next, ProcessStep

\* Types hold, and jobs and slots carry the shots they are about, always.
THEOREM TypeCorrect == Spec => []TypeInv
BY InitTypeInv, NextTypeInv, PTL DEF Spec

\* Every variable keeps its type.
THEOREM TypesHold == Spec => []TypeOK
BY TypeCorrect, PTL DEF TypeInv

-----------------------------------------------------------------------------
(* The slots: one shot per key, one inserter per shot, one origin per flag.*)

\* Initially no slot is past an INSERT and no flag is set.
LEMMA InitProcessInv == Init => ProcessInv
BY DEF Init, ProcessInv, OneShotPerKey, OriginsAreNear, CompletedIsStored, QueueInit,
   NoJob, OneInserter, Inserting, InserterDecides, DoneIsKnown, At, IdleExec

\* No operation but CompleteJob completes a job.
LEMMA OthersCompleteNothing ==
    ASSUME TypeInv, NEW k \in JobId,
           \/ \E s \in Shot : AddJob(k, s)
           \/ \E w \in Slot : TakeJob(k, w) \/ FailJob(k, w)
           \/ PromoteJob(k) \/ StallJob(k) \/ ExpireJob(k)
    PROVE  \A j \in JobId : job'[j].state = "completed" => job[j].state = "completed"
<1> USE DEF TypeInv, TypeOK, JobRecord
<1>0. ASSUME NEW r, r.state # "completed",
             job' = [job EXCEPT ![k] = r] \/ job' = job
      PROVE  \A j \in JobId : job'[j].state = "completed" => job[j].state = "completed"
  BY <1>0
<1>1. /\ NoJob.state = "none" /\ Finished(k, "failed").state = "failed"
      /\ BackOff(k).state = "delayed" /\ PutBack(k).state = "waiting"
  BY DEF NoJob, Finished, BackOff, PutBack
<1>2. CASE \E s \in Shot : AddJob(k, s)
  <2>1. PICK s \in Shot : AddJob(k, s)
    BY <1>2
  <2>2. [NoJob EXCEPT !.state = "waiting", !.shot = s].state = "waiting"
    BY DEF NoJob
  <2> QED
    BY <1>0, <2>1, <2>2 DEF AddJob
<1>3. CASE \E w \in Slot : TakeJob(k, w)
  <2>1. PICK w \in Slot : TakeJob(k, w)
    BY <1>3
  <2>2. [job[k] EXCEPT !.state = "active", !.holder = w].state = "active"
    OBVIOUS
  <2> QED
    BY <1>0, <2>1, <2>2 DEF TakeJob
<1>4. CASE \E w \in Slot : FailJob(k, w)
  BY <1>0, <1>1, <1>4 DEF FailJob
<1>5. CASE PromoteJob(k)
  <2>1. [job[k] EXCEPT !.state = "waiting"].state = "waiting"
    OBVIOUS
  <2> QED
    BY <1>0, <1>5, <2>1 DEF PromoteJob
<1>6. CASE StallJob(k) \/ ExpireJob(k)
  BY <1>0, <1>1, <1>6 DEF StallJob, ExpireJob
<1> QED
  BY <1>2, <1>3, <1>4, <1>5, <1>6

\* What the query finds is near.
LEMMA OriginsAreTwins ==
    ASSUME TypeInv, NEW s \in stored, NEW o \in Origins(s, stored)
    PROVE  Near(s, o)
<1>1. /\ o \in stored /\ o # s
      /\ ContentHash(o, Captured[o]) \in HashesToMatch(s)
      /\ Captured[s] - Window <= Captured[o] /\ Captured[o] <= Captured[s] + Window
  BY DEF Origins, Twins
<1>2. Swing[s] = Swing[o]
  BY <1>1 DEF ContentHash, HashesToMatch
<1>3. Captured[s] \in Nat /\ Captured[o] \in Nat
  BY <1>1, CapturedIsTime DEF TypeInv, TypeOK
<1>4. Captured[s] - Captured[o] \in -Window..Window
  BY <1>1, <1>3, MinuteIsPositive
<1> QED
  BY <1>1, <1>2, <1>4 DEF Near

\* Steps that touch neither slots nor shots and complete no job.
LEMMA QuietStep ==
    ASSUME TypeInv, ProcessInv, UNCHANGED <<exec, stored, duplicateOf>>,
           \A j \in JobId : job'[j].state = "completed" => job[j].state = "completed"
    PROVE  ProcessInv'
BY DEF ProcessInv, OneShotPerKey, OriginsAreNear, Near, CompletedIsStored, OneInserter,
   Inserting, InserterDecides, DoneIsKnown, KeyKnown, At

\* Slot w lets go of its shot, having completed a job of a stored key or none.
LEMMA SlotLetsGo ==
    ASSUME TypeInv, ProcessInv, NEW w \in Slot,
           exec' = [exec EXCEPT ![w] = IdleExec], UNCHANGED <<stored, duplicateOf>>,
           \A j \in JobId : job'[j].state = "completed" =>
                job[j].state = "completed" \/ \E s \in stored : KeyOf[s] = j
    PROVE  ProcessInv'
<1>1. \A v \in Slot : exec'[v] = exec[v] \/ exec'[v].at = "idle"
  BY DEF TypeInv, TypeOK, IdleExec
<1>2. OneShotPerKey' /\ OriginsAreNear' /\ CompletedIsStored'
  BY DEF ProcessInv, OneShotPerKey, OriginsAreNear, Near, CompletedIsStored
<1>3. OneInserter'
  BY <1>1 DEF ProcessInv, OneInserter, Inserting
<1>4. InserterDecides'
  BY <1>1 DEF ProcessInv, InserterDecides, Near, At
<1>5. DoneIsKnown'
  BY <1>1 DEF ProcessInv, DoneIsKnown, KeyKnown, At
<1> QED
  BY <1>2, <1>3, <1>4, <1>5 DEF ProcessInv

\* A slot that goes on leaves the other slots as they are.
LEMMA GoOnOthers ==
    ASSUME TypeInv, NEW w \in Slot, NEW stage, NEW o, GoOn(w, stage, o)
    PROVE  /\ exec'[w] = [at |-> stage, shot |-> exec[w].shot, origin |-> o]
           /\ \A v \in Slot \ {w} : exec'[v] = exec[v]
BY DEF TypeInv, TypeOK, GoOn

\* upsertIfNew: a known key changes nothing, a new one is inserted by w alone.
LEMMA UpsertKeepsProcessInv ==
    ASSUME TypeInv, ProcessInv, NEW w \in Slot, UpsertIfNew(w)
    PROVE  ProcessInv'
<1> DEFINE s == exec[w].shot
<1>0. s \in Shot /\ GoOn(w, AfterUpsert(s), NoShot)
  BY DEF TypeInv, ExecsMatch, At, UpsertIfNew
<1>1. /\ exec'[w] = [at |-> AfterUpsert(s), shot |-> s, origin |-> NoShot]
      /\ \A v \in Slot \ {w} : exec'[v] = exec[v]
  BY <1>0, GoOnOthers
<1>2. UNCHANGED <<job, duplicateOf>> /\ stored \subseteq stored'
  BY DEF UpsertIfNew, dbVars
<1>3. CASE KeyKnown(s)
  <2>1. UNCHANGED stored /\ exec'[w].at = "done"
    BY <1>1, <1>3 DEF UpsertIfNew, dbVars, AfterUpsert
  <2>2. OneShotPerKey' /\ OriginsAreNear' /\ CompletedIsStored'
    BY <1>2, <2>1 DEF ProcessInv, OneShotPerKey, OriginsAreNear, Near, CompletedIsStored
  <2>3. OneInserter' /\ InserterDecides'
    BY <1>1, <1>2, <2>1
    DEF ProcessInv, OneInserter, Inserting, InserterDecides, Near, At
  <2>4. DoneIsKnown'
    BY <1>1, <1>3, <2>1 DEF ProcessInv, DoneIsKnown, KeyKnown, At
  <2> QED
    BY <2>2, <2>3, <2>4 DEF ProcessInv
<1>4. CASE ~ KeyKnown(s)
  <2>1. stored' = stored \cup {s} /\ exec'[w].at = "search"
    BY <1>1, <1>4 DEF UpsertIfNew, AfterUpsert
  <2>2. s \notin stored /\ duplicateOf[s] = NoShot
    BY <1>0, <1>4 DEF KeyKnown, ProcessInv, OriginsAreNear, Near
  <2>3. OneShotPerKey' /\ OriginsAreNear' /\ CompletedIsStored'
    BY <1>2, <1>4, <2>1
    DEF KeyKnown, ProcessInv, OneShotPerKey, OriginsAreNear, Near, CompletedIsStored
  <2>4. OneInserter'
    BY <1>1, <2>1, <2>2 DEF ProcessInv, OneInserter, Inserting
  <2>5. InserterDecides'
    BY <1>1, <1>2, <2>1, <2>2 DEF ProcessInv, InserterDecides, Near, At
  <2>6. DoneIsKnown'
    BY <1>1, <2>1 DEF ProcessInv, DoneIsKnown, KeyKnown, At
  <2> QED
    BY <2>3, <2>4, <2>5, <2>6 DEF ProcessInv
<1> QED
  BY <1>3, <1>4

\* The steps after the INSERT, taken by the inserter of the shot alone.
LEMMA InserterKeepsProcessInv ==
    ASSUME TypeInv, ProcessInv, NEW w \in Slot,
           SearchOrigin(w) \/ FlagDuplicate(w) \/ RelabelEvent(w)
    PROVE  ProcessInv'
<1> DEFINE s == exec[w].shot
<1>0. s \in stored /\ s \in Shot /\ UNCHANGED <<job, stored>> /\ Inserting(w)
  BY DEF TypeInv, TypeOK, ProcessInv, OneInserter, Inserting, At, SearchOrigin,
         FlagDuplicate, RelabelEvent, dbVars
<1>1. CASE SearchOrigin(w)
  <2>1. UNCHANGED duplicateOf
    BY <1>1 DEF SearchOrigin, dbVars
  <2> Origins(s, stored) \subseteq Shot
    BY DEF Origins, Twins, TypeInv, TypeOK
  <2>2. PICK stage \in {"done", "flag"}, o \in Shot \cup {NoShot} :
           /\ GoOn(w, stage, o)
           /\ stage = "flag" => Near(s, o)
    BY <1>0, <1>1, OriginsAreTwins DEF SearchOrigin
  <2>3. /\ exec'[w] = [at |-> stage, shot |-> s, origin |-> o]
        /\ \A v \in Slot \ {w} : exec'[v] = exec[v]
    BY <2>2, GoOnOthers
  <2>4. OneShotPerKey' /\ OriginsAreNear' /\ CompletedIsStored'
    BY <1>0, <2>1 DEF ProcessInv, OneShotPerKey, OriginsAreNear, Near, CompletedIsStored
  <2>5. OneInserter'
    BY <1>0, <2>3 DEF ProcessInv, OneInserter, Inserting
  <2>6. InserterDecides'
    BY <1>0, <1>1, <2>1, <2>2, <2>3 DEF ProcessInv, InserterDecides, SearchOrigin, Near, At
  <2>7. DoneIsKnown'
    BY <1>0, <2>3 DEF ProcessInv, DoneIsKnown, KeyKnown, At
  <2> QED
    BY <2>4, <2>5, <2>6, <2>7 DEF ProcessInv
<1>2. CASE FlagDuplicate(w)
  <2>1. /\ Near(s, exec[w].origin)
        /\ duplicateOf' = [duplicateOf EXCEPT ![s] = exec[w].origin]
    BY <1>2 DEF ProcessInv, InserterDecides, FlagDuplicate
  <2>2. /\ exec'[w] = [at |-> "relabel", shot |-> s, origin |-> exec[w].origin]
        /\ \A v \in Slot \ {w} : exec'[v] = exec[v]
    BY <1>2, GoOnOthers DEF FlagDuplicate
  <2>3. exec[w].origin \in Shot
    BY <2>1 DEF Near, TypeInv, TypeOK
  <2>4. OneShotPerKey' /\ OriginsAreNear' /\ CompletedIsStored'
    BY <1>0, <2>1, <2>3
    DEF TypeInv, TypeOK, ProcessInv, OneShotPerKey, OriginsAreNear, Near, CompletedIsStored
  <2>5. OneInserter'
    BY <1>0, <2>2 DEF ProcessInv, OneInserter, Inserting
  <2>6. InserterDecides'
    <3>1. duplicateOf'[s] = exec[w].origin
      BY <1>0, <2>1 DEF TypeInv, TypeOK
    <3>2. \A v \in Slot \ {w} : Inserting(v) =>
             exec[v].shot # s /\ duplicateOf'[exec[v].shot] = duplicateOf[exec[v].shot]
      BY <1>0, <2>1 DEF TypeInv, TypeOK, ProcessInv, OneInserter
    <3> QED
      BY <1>0, <2>2, <2>3, <3>1, <3>2
      DEF ProcessInv, InserterDecides, Inserting, Near, At
  <2>7. DoneIsKnown'
    BY <1>0, <2>2 DEF ProcessInv, DoneIsKnown, KeyKnown, At
  <2> QED
    BY <2>4, <2>5, <2>6, <2>7 DEF ProcessInv
<1>3. CASE RelabelEvent(w)
  <2>1. UNCHANGED duplicateOf /\ GoOn(w, "done", NoShot)
    BY <1>3 DEF RelabelEvent
  <2>2. /\ exec'[w] = [at |-> "done", shot |-> s, origin |-> NoShot]
        /\ \A v \in Slot \ {w} : exec'[v] = exec[v]
    BY <2>1, GoOnOthers
  <2>3. OneShotPerKey' /\ OriginsAreNear' /\ CompletedIsStored'
    BY <1>0, <2>1 DEF ProcessInv, OneShotPerKey, OriginsAreNear, Near, CompletedIsStored
  <2>4. OneInserter' /\ InserterDecides'
    BY <1>0, <2>1, <2>2 DEF ProcessInv, OneInserter, Inserting, InserterDecides, Near, At
  <2>5. DoneIsKnown'
    BY <1>0, <2>2 DEF ProcessInv, DoneIsKnown, KeyKnown, At
  <2> QED
    BY <2>3, <2>4, <2>5 DEF ProcessInv
<1> QED
  BY <1>1, <1>2, <1>3

\* Every step of the pipeline keeps what the slots rely on.
LEMMA NextProcessInv == TypeInv /\ ProcessInv /\ [Next]_vars => ProcessInv'
<1> SUFFICES ASSUME TypeInv, ProcessInv, [Next]_vars PROVE ProcessInv'
  OBVIOUS
<1> USE DEF dbVars
<1>1. ASSUME NEW s \in Shot, PostShot(s) PROVE ProcessInv'
  <2>1. KeyOf[s] \in JobId
    BY KeysAreJobIds
  <2> QED
    BY <1>1, <2>1, OthersCompleteNothing, QuietStep DEF PostShot
<1>2. ASSUME NEW k \in JobId, Promote(k) \/ Reclaim(k) \/ Expire(k) PROVE ProcessInv'
  BY <1>2, OthersCompleteNothing, QuietStep DEF Promote, Reclaim, Expire
<1>3. ASSUME NEW w \in Slot, NEW k \in JobId, StartJob(w, k) PROVE ProcessInv'
  <2>1. \A j \in JobId : job'[j].state = "completed" => job[j].state = "completed"
    BY <1>3, OthersCompleteNothing DEF StartJob
  <2>2. /\ exec'[w].at = "upsert"
        /\ \A v \in Slot \ {w} : exec'[v] = exec[v]
        /\ UNCHANGED <<stored, duplicateOf>>
    BY <1>3 DEF StartJob, TypeInv, TypeOK
  <2> QED
    BY <2>1, <2>2
    DEF ProcessInv, OneShotPerKey, OriginsAreNear, Near, CompletedIsStored, OneInserter,
        Inserting, InserterDecides, DoneIsKnown, KeyKnown, At
<1>4. ASSUME NEW w \in Slot, UpsertIfNew(w) PROVE ProcessInv'
  BY <1>4, UpsertKeepsProcessInv
<1>5. ASSUME NEW w \in Slot, SearchOrigin(w) \/ FlagDuplicate(w) \/ RelabelEvent(w)
      PROVE  ProcessInv'
  BY <1>5, InserterKeepsProcessInv
<1>6. ASSUME NEW w \in Slot, FinishJob(w) PROVE ProcessInv'
  <2>1. KeyKnown(exec[w].shot)
    BY <1>6 DEF FinishJob, ProcessInv, DoneIsKnown
  <2>2. \A j \in JobId : job'[j].state = "completed" =>
           job[j].state = "completed" \/ \E s \in stored : KeyOf[s] = j
    BY <1>6, <2>1 DEF FinishJob, CompleteJob, KeyKnown, TypeInv, TypeOK
  <2> QED
    BY <1>6, <2>2, SlotLetsGo DEF FinishJob
<1>7. ASSUME NEW w \in Slot, FailAttempt(w) PROVE ProcessInv'
  <2>1. KeyOf[exec[w].shot] \in JobId
    BY <1>7, KeysAreJobIds DEF FailAttempt, TypeInv, ExecsMatch
  <2> QED
    BY <1>7, <2>1, OthersCompleteNothing, SlotLetsGo DEF FailAttempt
<1>8. ASSUME NEW w \in Slot, CrashSlot(w) PROVE ProcessInv'
  BY <1>8, SlotLetsGo DEF CrashSlot
<1>9. ASSUME NEW p \in Publisher,
             ClaimBatch(p) \/ EmitBatch(p) \/ CommitBatch(p) \/ AbortBatch(p)
      PROVE  ProcessInv'
  BY <1>9, QuietStep DEF ClaimBatch, EmitBatch, CommitBatch, AbortBatch
<1>10. CASE UNCHANGED vars
  BY <1>10, QuietStep DEF vars
<1> QED
  BY <1>1, <1>2, <1>3, <1>4, <1>5, <1>6, <1>7, <1>8, <1>9, <1>10 DEF Next, ProcessStep

\* What a slot relies on between two awaits holds, always.
THEOREM ProcessCorrect == Spec => []ProcessInv
BY InitProcessInv, InitTypeInv, NextTypeInv, NextProcessInv, PTL DEF Spec

\* Retransmissions, retries and zombies leave one shot per idempotency key.
THEOREM StoredOncePerKey == Spec => []OneShotPerKey
BY ProcessCorrect, PTL DEF ProcessInv

-----------------------------------------------------------------------------
(* The outbox: event if and only if shot, and labels that are never wrong. *)

\* Initially there is no shot, no row and no event.
LEMMA InitOutboxInv == Init => OutboxInv
BY DEF Init, OutboxInv, EventIffStored, Announced, Outbox, EventsNameTheFlag,
   DisjointClaims, BatchesAreRows, RowsNameTheFlag, IdlePub

\* Steps that touch neither table, publisher nor event.
LEMMA OutboxUntouched ==
    ASSUME OutboxInv,
           UNCHANGED <<stored, duplicateOf, rowId, rowOrigin, pub, events>>
    PROVE  OutboxInv'
BY DEF OutboxInv, EventIffStored, Announced, Outbox, EventsNameTheFlag, DisjointClaims,
       BatchesAreRows, RowsNameTheFlag

\* upsertIfNew writes shot and row together.
LEMMA UpsertKeepsOutboxInv ==
    ASSUME TypeInv, ProcessInv, OutboxInv, NEW w \in Slot, UpsertIfNew(w),
           ~ KeyKnown(exec[w].shot)
    PROVE  OutboxInv'
<1> DEFINE s == exec[w].shot
<1>1. /\ s \in Shot /\ stored' = stored \cup {s}
      /\ rowId' = [rowId EXCEPT ![s] = nextId]
      /\ rowOrigin' = [rowOrigin EXCEPT ![s] = NoShot]
      /\ UNCHANGED <<duplicateOf, pub, events>>
  BY DEF TypeInv, ExecsMatch, At, UpsertIfNew
<1>2. s \notin stored /\ s \notin Outbox /\ ~ Announced(s)
  BY <1>1 DEF KeyKnown, OutboxInv, EventIffStored
<1>3. Outbox' = Outbox \cup {s}
  BY <1>1 DEF Outbox, TypeInv, TypeOK
<1>4. \A t \in Shot : Announced(t)' <=> Announced(t)
  BY <1>1 DEF Announced
<1>5. EventIffStored'
  BY <1>1, <1>3, <1>4 DEF OutboxInv, EventIffStored
<1>6. EventsNameTheFlag' /\ DisjointClaims'
  BY <1>1 DEF OutboxInv, EventsNameTheFlag, DisjointClaims
<1>7. BatchesAreRows'
  <2>1. \A t \in Shot \ {s} : rowOrigin'[t] = rowOrigin[t]
    BY <1>1 DEF TypeInv, TypeOK
  <2>2. \A p \in Publisher : s \notin pub[p].sent
    BY <1>2 DEF OutboxInv, BatchesAreRows
  <2>3. \A p \in Publisher : pub[p].sent \subseteq Shot
    BY DEF TypeInv, TypeOK
  <2> QED
    BY <1>1, <1>3, <2>1, <2>2, <2>3 DEF OutboxInv, BatchesAreRows
<1>8. RowsNameTheFlag'
  <2>1. \A o \in Shot : <<s, o>> \notin events
    BY <1>2 DEF Announced
  <2>2. rowOrigin'[s] = NoShot /\ \A t \in Shot \ {s} : rowOrigin'[t] = rowOrigin[t]
    BY <1>1 DEF TypeInv, TypeOK
  <2> QED
    BY <1>1, <1>3, <2>1, <2>2 DEF OutboxInv, RowsNameTheFlag
<1> QED
  BY <1>5, <1>6, <1>7, <1>8 DEF OutboxInv

\* The flag is set on a shot no row and no event has labelled yet.
LEMMA FlagKeepsOutboxInv ==
    ASSUME TypeInv, ProcessInv, OutboxInv, NEW w \in Slot, FlagDuplicate(w)
    PROVE  OutboxInv'
<1> DEFINE s == exec[w].shot
<1>1. /\ duplicateOf[s] = NoShot
      /\ duplicateOf' = [duplicateOf EXCEPT ![s] = exec[w].origin]
      /\ UNCHANGED <<stored, rowId, rowOrigin, pub, events>>
  BY DEF ProcessInv, InserterDecides, At, FlagDuplicate
<1>2. \A t \in Shot : duplicateOf[t] # NoShot => duplicateOf'[t] = duplicateOf[t]
  BY <1>1 DEF TypeInv, TypeOK
<1>3. \A e \in events : e[1] \in Shot
  BY DEF TypeInv, TypeOK
<1>4. EventIffStored' /\ DisjointClaims' /\ BatchesAreRows'
  BY <1>1 DEF OutboxInv, EventIffStored, Announced, Outbox, DisjointClaims, BatchesAreRows
<1>5. EventsNameTheFlag' /\ RowsNameTheFlag'
  BY <1>1, <1>2, <1>3 DEF OutboxInv, EventsNameTheFlag, RowsNameTheFlag, Outbox
<1> QED
  BY <1>4, <1>5 DEF OutboxInv

\* The row, if it is still there, gets the label the shots table has.
LEMMA RelabelKeepsOutboxInv ==
    ASSUME TypeInv, ProcessInv, OutboxInv, NEW w \in Slot, RelabelEvent(w)
    PROVE  OutboxInv'
<1> DEFINE s == exec[w].shot
<1>1. /\ exec[w].origin \in Shot /\ duplicateOf[s] = exec[w].origin
      /\ s \notin Locked
      /\ UNCHANGED <<stored, duplicateOf, rowId, pub, events>>
      /\ rowOrigin' = rowOrigin
           \/ rowOrigin' = [rowOrigin EXCEPT ![s] = exec[w].origin]
  BY DEF ProcessInv, InserterDecides, At, RelabelEvent
<1>2. \A t \in Shot :
         rowOrigin'[t] = rowOrigin[t] \/ (rowOrigin'[t] = duplicateOf[t] /\ duplicateOf[t] \in Shot)
  BY <1>1 DEF TypeInv, TypeOK
<1>3. RowsNameTheFlag'
  BY <1>1, <1>2, NoShotIsNoShot DEF OutboxInv, RowsNameTheFlag, Outbox
<1>4. EventIffStored' /\ DisjointClaims' /\ EventsNameTheFlag'
  BY <1>1 DEF OutboxInv, EventIffStored, Announced, Outbox, DisjointClaims, EventsNameTheFlag
<1>5. BatchesAreRows'
  <2>1. \A p \in Publisher : pub[p].sent \subseteq Shot \ {s}
    BY <1>1 DEF OutboxInv, BatchesAreRows, Locked, TypeInv, TypeOK
  <2>2. \A t \in Shot \ {s} : rowOrigin'[t] = rowOrigin[t]
    BY <1>1 DEF TypeInv, TypeOK
  <2> QED
    BY <1>1, <2>1, <2>2 DEF OutboxInv, BatchesAreRows, Outbox
<1> QED
  BY <1>3, <1>4, <1>5 DEF OutboxInv

\* A batch is claimed from the rows no other publisher holds.
LEMMA ClaimKeepsOutboxInv ==
    ASSUME TypeInv, OutboxInv, NEW p \in Publisher, ClaimBatch(p)
    PROVE  OutboxInv'
<1>1. PICK batch \in SUBSET (Outbox \ Locked) :
         pub' = [pub EXCEPT ![p] = [at |-> "emit", batch |-> batch, sent |-> {}]]
  BY DEF ClaimBatch, Claimable
<1>2. /\ pub'[p] = [at |-> "emit", batch |-> batch, sent |-> {}]
      /\ \A q \in Publisher \ {p} : pub'[q] = pub[q] /\ pub[q].batch \cap batch = {}
  BY <1>1 DEF TypeInv, TypeOK, Locked
<1>3. UNCHANGED <<stored, duplicateOf, rowId, rowOrigin, events>>
  BY DEF ClaimBatch, dbVars
<1>4. EventIffStored' /\ EventsNameTheFlag' /\ RowsNameTheFlag'
  BY <1>3 DEF OutboxInv, EventIffStored, EventsNameTheFlag, RowsNameTheFlag, Announced, Outbox
<1>5. DisjointClaims'
  BY <1>2 DEF OutboxInv, DisjointClaims
<1>6. BatchesAreRows'
  BY <1>2, <1>3 DEF OutboxInv, BatchesAreRows, Announced, Outbox
<1> QED
  BY <1>4, <1>5, <1>6 DEF OutboxInv

\* What an emit loop lets listeners see, and what it will delete.
LEMMA EmitStep ==
    ASSUME TypeInv, OutboxInv, NEW p \in Publisher, EmitBatch(p)
    PROVE  \E heard, sent \in SUBSET pub[p].batch :
             /\ sent \subseteq heard
             /\ events' = events \cup {<<s, rowOrigin[s]>> : s \in heard}
             /\ pub'[p] = [pub[p] EXCEPT !.at = "delete", !.sent = sent]
             /\ \A q \in Publisher \ {p} : pub'[q] = pub[q]
<1>0. PICK refused \in SUBSET (pub[p].batch \cap Faulty) :
         \E seen \in SUBSET refused :
           /\ events' = events \cup
                {<<s, rowOrigin[s]>> : s \in (pub[p].batch \ refused) \cup seen}
           /\ pub' = [pub EXCEPT ![p] =
                [@ EXCEPT !.at = "delete", !.sent = pub[p].batch \ refused]]
  BY DEF EmitBatch
<1>1. PICK seen \in SUBSET refused :
         /\ events' = events \cup
              {<<s, rowOrigin[s]>> : s \in (pub[p].batch \ refused) \cup seen}
         /\ pub' = [pub EXCEPT ![p] =
              [@ EXCEPT !.at = "delete", !.sent = pub[p].batch \ refused]]
  BY <1>0
<1> DEFINE sent == pub[p].batch \ refused
           heard == sent \cup seen
<1>2. /\ pub'[p] = [pub[p] EXCEPT !.at = "delete", !.sent = sent]
      /\ \A q \in Publisher \ {p} : pub'[q] = pub[q]
  BY <1>1 DEF TypeInv, TypeOK
<1>3. sent \subseteq pub[p].batch /\ heard \subseteq pub[p].batch /\ sent \subseteq heard
  OBVIOUS
<1>4. events' = events \cup {<<s, rowOrigin[s]>> : s \in heard}
  BY <1>1
<1> QED
  BY <1>2, <1>3, <1>4

\* What is emitted are rows, with the labels they have.
LEMMA EmitKeepsOutboxInv ==
    ASSUME TypeInv, OutboxInv, NEW p \in Publisher, EmitBatch(p)
    PROVE  OutboxInv'
<1>1. PICK heard, sent \in SUBSET pub[p].batch :
         /\ sent \subseteq heard
         /\ events' = events \cup {<<s, rowOrigin[s]>> : s \in heard}
         /\ pub'[p] = [pub[p] EXCEPT !.at = "delete", !.sent = sent]
         /\ \A q \in Publisher \ {p} : pub'[q] = pub[q]
  BY EmitStep
<1>2. UNCHANGED <<stored, duplicateOf, rowId, rowOrigin>>
  BY DEF EmitBatch, dbVars
<1>3. /\ pub'[p].at = "delete" /\ pub'[p].batch = pub[p].batch /\ pub'[p].sent = sent
  BY <1>1 DEF TypeInv, TypeOK
<1>4. heard \subseteq Outbox /\ heard \subseteq stored
  BY <1>1 DEF OutboxInv, BatchesAreRows, EventIffStored, Outbox
<1>5. ASSUME NEW t \in Shot PROVE Announced(t)' <=> (Announced(t) \/ t \in heard)
  <2>1. ASSUME Announced(t)' PROVE Announced(t) \/ t \in heard
    <3>1. PICK e \in events' : e[1] = t
      BY <2>1 DEF Announced
    <3>2. CASE e \in events
      BY <3>1, <3>2 DEF Announced
    <3>3. CASE e \in {<<s, rowOrigin[s]>> : s \in heard}
      <4>1. PICK s \in heard : e = <<s, rowOrigin[s]>>
        BY <3>3
      <4> QED
        BY <3>1, <4>1
    <3> QED
      BY <1>1, <3>2, <3>3
  <2>2. ASSUME t \in heard PROVE Announced(t)'
    <3>1. <<t, rowOrigin[t]>> \in events'
      BY <1>1, <2>2
    <3> QED
      BY <3>1 DEF Announced
  <2>3. Announced(t) => Announced(t)'
    BY <1>1 DEF Announced
  <2> QED
    BY <2>1, <2>2, <2>3
<1>6. EventIffStored'
  BY <1>2, <1>4, <1>5 DEF OutboxInv, EventIffStored, Outbox
<1>7. EventsNameTheFlag'
  <2>1. \A t \in heard : rowOrigin[t] # NoShot => rowOrigin[t] = duplicateOf[t]
    BY <1>4 DEF OutboxInv, RowsNameTheFlag, Outbox
  <2> QED
    BY <1>1, <1>2, <2>1 DEF OutboxInv, EventsNameTheFlag
<1>8. DisjointClaims'
  BY <1>1, <1>3 DEF OutboxInv, DisjointClaims
<1>9. BatchesAreRows'
  <2>1. events \subseteq events'
    BY <1>1
  <2>2. \A t \in sent : <<t, rowOrigin[t]>> \in events'
    BY <1>1
  <2>3. ASSUME NEW q \in Publisher \ {p} PROVE BatchesAreRows!(q)'
    BY <1>1, <1>2, <2>1 DEF OutboxInv, BatchesAreRows, Outbox, TypeInv, TypeOK
  <2>4. BatchesAreRows!(p)'
    BY <1>1, <1>2, <1>3, <2>2 DEF OutboxInv, BatchesAreRows, Outbox
  <2> QED
    BY <2>3, <2>4 DEF BatchesAreRows
<1>10. RowsNameTheFlag'
  BY <1>1, <1>2, NoShotIsNoShot DEF OutboxInv, RowsNameTheFlag, Outbox
<1> QED
  BY <1>6, <1>7, <1>8, <1>9, <1>10 DEF OutboxInv

\* Only rows that were emitted leave the outbox, and only from one batch.
LEMMA CommitKeepsOutboxInv ==
    ASSUME TypeInv, OutboxInv, NEW p \in Publisher, CommitBatch(p)
    PROVE  OutboxInv'
<1> DEFINE sent == pub[p].sent
<1>1. /\ \A s \in sent : Announced(s)
      /\ sent \subseteq pub[p].batch
  BY DEF OutboxInv, BatchesAreRows, CommitBatch, Announced
<1>2. /\ UNCHANGED <<stored, duplicateOf, events>>
      /\ rowOrigin' = [s \in Shot |-> IF s \in sent THEN NoShot ELSE rowOrigin[s]]
      /\ pub'[p] = IdlePub
      /\ \A q \in Publisher \ {p} : pub'[q] = pub[q]
  BY DEF CommitBatch, DeleteEmitted, TypeInv, TypeOK
<1>3. Outbox' = Outbox \ sent
  BY DEF CommitBatch, DeleteEmitted, Outbox
<1>4. EventIffStored' /\ EventsNameTheFlag'
  BY <1>1, <1>2, <1>3 DEF OutboxInv, EventIffStored, Announced, EventsNameTheFlag
<1>5. DisjointClaims'
  BY <1>2 DEF OutboxInv, DisjointClaims, IdlePub
<1>6. BatchesAreRows'
  <2>1. ASSUME NEW q \in Publisher \ {p} PROVE BatchesAreRows!(q)'
    <3>1. pub[q].sent \subseteq Shot \ sent
      BY <1>1 DEF OutboxInv, BatchesAreRows, DisjointClaims, TypeInv, TypeOK
    <3>2. \A t \in pub[q].sent : rowOrigin'[t] = rowOrigin[t]
      BY <1>2, <3>1
    <3> QED
      BY <1>1, <1>2, <1>3, <3>2 DEF OutboxInv, BatchesAreRows, DisjointClaims
  <2>2. BatchesAreRows!(p)'
    BY <1>2 DEF IdlePub
  <2> QED
    BY <2>1, <2>2 DEF BatchesAreRows
<1>7. RowsNameTheFlag'
  BY <1>2, <1>3 DEF OutboxInv, RowsNameTheFlag
<1> QED
  BY <1>4, <1>5, <1>6, <1>7 DEF OutboxInv

\* A transaction that aborts keeps its rows in the outbox.
LEMMA AbortKeepsOutboxInv ==
    ASSUME TypeInv, OutboxInv, NEW p \in Publisher, AbortBatch(p)
    PROVE  OutboxInv'
<1>1. /\ UNCHANGED <<stored, duplicateOf, rowId, rowOrigin, events>>
      /\ pub'[p] = IdlePub
      /\ \A q \in Publisher \ {p} : pub'[q] = pub[q]
  BY DEF AbortBatch, dbVars, TypeInv, TypeOK
<1> QED
  BY <1>1 DEF OutboxInv, EventIffStored, Announced, Outbox, EventsNameTheFlag,
              DisjointClaims, BatchesAreRows, RowsNameTheFlag, IdlePub

\* Every step of the pipeline keeps what the publishers rely on.
LEMMA NextOutboxInv ==
    TypeInv /\ ProcessInv /\ OutboxInv /\ [Next]_vars => OutboxInv'
<1> SUFFICES ASSUME TypeInv, ProcessInv, OutboxInv, [Next]_vars PROVE OutboxInv'
  OBVIOUS
<1> USE DEF dbVars
<1>1. ASSUME NEW s \in Shot, PostShot(s) PROVE OutboxInv'
  BY <1>1, OutboxUntouched DEF PostShot
<1>2. ASSUME NEW k \in JobId, Promote(k) \/ Reclaim(k) \/ Expire(k) PROVE OutboxInv'
  BY <1>2, OutboxUntouched DEF Promote, Reclaim, Expire
<1>3. ASSUME NEW w \in Slot, NEW k \in JobId, StartJob(w, k) PROVE OutboxInv'
  BY <1>3, OutboxUntouched DEF StartJob
<1>4. ASSUME NEW w \in Slot, UpsertIfNew(w) PROVE OutboxInv'
  <2>1. CASE KeyKnown(exec[w].shot)
    BY <1>4, <2>1, OutboxUntouched DEF UpsertIfNew
  <2> QED
    BY <1>4, <2>1, UpsertKeepsOutboxInv
<1>5. ASSUME NEW w \in Slot, SearchOrigin(w) PROVE OutboxInv'
  BY <1>5, OutboxUntouched DEF SearchOrigin
<1>6. ASSUME NEW w \in Slot, FlagDuplicate(w) \/ RelabelEvent(w) PROVE OutboxInv'
  BY <1>6, FlagKeepsOutboxInv, RelabelKeepsOutboxInv
<1>7. ASSUME NEW w \in Slot, FinishJob(w) \/ FailAttempt(w) \/ CrashSlot(w)
      PROVE  OutboxInv'
  BY <1>7, OutboxUntouched DEF FinishJob, FailAttempt, CrashSlot
<1>8. ASSUME NEW p \in Publisher,
             ClaimBatch(p) \/ EmitBatch(p) \/ CommitBatch(p) \/ AbortBatch(p)
      PROVE  OutboxInv'
  BY <1>8, ClaimKeepsOutboxInv, EmitKeepsOutboxInv, CommitKeepsOutboxInv,
     AbortKeepsOutboxInv
<1>9. CASE UNCHANGED vars
  BY <1>9, OutboxUntouched DEF vars
<1> QED
  BY <1>1, <1>2, <1>3, <1>4, <1>5, <1>6, <1>7, <1>8, <1>9 DEF Next, ProcessStep

\* What a publisher relies on between two statements holds, always.
THEOREM OutboxCorrect == Spec => []OutboxInv
BY InitTypeInv, InitProcessInv, InitOutboxInv, NextTypeInv, NextProcessInv,
   NextOutboxInv, PTL DEF Spec

\* A shot.persisted event is waiting or emitted exactly for the stored shots.
THEOREM EventsMatchShots == Spec => []EventIffStored
BY OutboxCorrect, PTL DEF OutboxInv

\* An event never names an origin the shots table does not have.
THEOREM EventLabelsAreTrue == Spec => []EventsNameTheFlag
BY OutboxCorrect, PTL DEF OutboxInv

\* Every flag points at another stored shot of the same swing, in the window.
THEOREM FlagsAreNear == Spec => []OriginsAreNear
BY ProcessCorrect, PTL DEF ProcessInv

\* A completed job leaves a shot of its key behind.
THEOREM CompletedJobsAreStored == Spec => []CompletedIsStored
BY ProcessCorrect, PTL DEF ProcessInv

-----------------------------------------------------------------------------
(* What no step may do, and the refinement of the ledger.                  *)

\* The origin of a shot is decided once, whoever retries.
THEOREM FlagsAreFinal == Spec => FlagIsWrittenOnce
<1>1. TypeInv /\ ProcessInv /\ [Next]_vars =>
        [\A s \in Shot : duplicateOf[s] # NoShot => duplicateOf'[s] = duplicateOf[s]]_vars
  <2> SUFFICES ASSUME TypeInv, ProcessInv, Next, NEW s \in Shot, duplicateOf[s] # NoShot
               PROVE  duplicateOf'[s] = duplicateOf[s]
    OBVIOUS
  <2>1. CASE \E w \in Slot : FlagDuplicate(w)
    BY <2>1 DEF FlagDuplicate, ProcessInv, InserterDecides, At, TypeInv, TypeOK
  <2>2. CASE ~ \E w \in Slot : FlagDuplicate(w)
    BY <2>2 DEF Next, ProcessStep, PostShot, Promote, Reclaim, Expire, StartJob,
                UpsertIfNew, SearchOrigin, RelabelEvent, FinishJob, FailAttempt,
                CrashSlot, ClaimBatch, EmitBatch, CommitBatch, AbortBatch, dbVars
  <2> QED
    BY <2>1, <2>2
<1> QED
  BY <1>1, TypeCorrect, ProcessCorrect, PTL DEF Spec, FlagIsWrittenOnce

\* Steps that emit nothing let listeners see nothing.
LEMMA OnlyEmitsAreSeen ==
    ASSUME Next, ~ \E p \in Publisher : EmitBatch(p)
    PROVE  events' = events
BY DEF Next, ProcessStep, PostShot, Promote, Reclaim, Expire, StartJob, UpsertIfNew,
       SearchOrigin, FlagDuplicate, RelabelEvent, FinishJob, FailAttempt, CrashSlot,
       ClaimBatch, CommitBatch, AbortBatch, dbVars

\* A listener that saw a shot as a duplicate does not see it as an original.
THEOREM LabelsStay == Spec => LabelIsNotTakenBack
<1>1. TypeInv /\ OutboxInv /\ [Next]_vars =>
        [\A s \in Shot : \A o \in Shot :
           <<s, o>> \in events /\ <<s, NoShot>> \in events'
             => <<s, NoShot>> \in events]_vars
  <2> SUFFICES ASSUME TypeInv, OutboxInv, Next, NEW s \in Shot, NEW o \in Shot,
                      <<s, o>> \in events, <<s, NoShot>> \in events'
               PROVE  <<s, NoShot>> \in events
    OBVIOUS
  <2>1. ASSUME NEW p \in Publisher, EmitBatch(p) PROVE <<s, NoShot>> \in events
    <3>1. PICK heard, sent \in SUBSET pub[p].batch :
             events' = events \cup {<<t, rowOrigin[t]>> : t \in heard}
      BY <2>1, EmitStep
    <3>2. CASE <<s, NoShot>> \in {<<t, rowOrigin[t]>> : t \in heard}
      <4>1. s \in heard /\ rowOrigin[s] = NoShot
        BY <3>2
      <4>2. s \in Outbox
        BY <3>1, <4>1 DEF OutboxInv, BatchesAreRows
      <4> QED
        BY <4>1, <4>2 DEF OutboxInv, RowsNameTheFlag
    <3> QED
      BY <3>1, <3>2
  <2> QED
    BY <2>1, OnlyEmitsAreSeen
<1> QED
  BY <1>1, TypeCorrect, OutboxCorrect, PTL DEF Spec, LabelIsNotTakenBack

\* A row is deleted only after listeners saw the event with the label the row
\* has when it goes: no relabel slips in between publishPending's emit and DELETE.
THEOREM RowsLeaveSeen == Spec => RowsLeaveAsSeen
<1>1. TypeInv /\ OutboxInv /\ [Next]_vars =>
        [\A s \in Shot :
           s \in Outbox /\ rowId'[s] = 0 => <<s, rowOrigin[s]>> \in events]_vars
  <2> SUFFICES ASSUME TypeInv, OutboxInv, Next, NEW s \in Shot, s \in Outbox, rowId'[s] = 0
               PROVE  <<s, rowOrigin[s]>> \in events
    OBVIOUS
  <2>1. rowId[s] # 0
    BY DEF Outbox
  <2>2. ASSUME NEW p \in Publisher, CommitBatch(p) PROVE <<s, rowOrigin[s]>> \in events
    BY <2>1, <2>2 DEF CommitBatch, DeleteEmitted, OutboxInv, BatchesAreRows
  <2>3. ASSUME NEW w \in Slot, UpsertIfNew(w) PROVE FALSE
    BY <2>1, <2>3 DEF UpsertIfNew, dbVars, TypeInv, TypeOK
  <2>4. CASE /\ ~ \E p \in Publisher : CommitBatch(p)
             /\ ~ \E w \in Slot : UpsertIfNew(w)
    <3>1. UNCHANGED rowId
      BY <2>4 DEF Next, ProcessStep, PostShot, Promote, Reclaim, Expire, StartJob,
                  SearchOrigin, FlagDuplicate, RelabelEvent, FinishJob, FailAttempt,
                  CrashSlot, ClaimBatch, EmitBatch, AbortBatch, dbVars
    <3> QED
      BY <2>1, <3>1
  <2> QED
    BY <2>2, <2>3, <2>4
<1> QED
  BY <1>1, TypeCorrect, OutboxCorrect, PTL DEF Spec, RowsLeaveAsSeen

-----------------------------------------------------------------------------
(* The near-duplicate search.                                              *)

\* A set of natural numbers has a least one.
LEMMA LeastNatural ==
  ASSUME NEW T, T \subseteq Nat, T # {}
  PROVE  \E n \in T : \A m \in T : n <= m
<1>1. PICK n \in T : \A m \in T : <<m, n>> \notin OpToRel(<, Nat)
  BY NatLessThanWellFounded, WFMin, Zenon
<1>2. \A m \in T : ~ (m < n)
  BY <1>1, Zenon DEF OpToRel
<1> QED
  BY <1>2

\* Where there are twins there is an origin.
LEMMA TwinsHaveAnOrigin ==
  ASSUME NEW s \in Shot, NEW S \in SUBSET Shot, Twins(s, S) # {}
  PROVE  Origins(s, S) # {}
<1> DEFINE T == {Captured[t] : t \in Twins(s, S)}
<1>1. Twins(s, S) \subseteq Shot
  BY DEF Twins
<1>2. T \subseteq Nat /\ T # {}
  BY <1>1, CapturedIsTime
<1>3. PICK n \in T : \A m \in T : n <= m
  BY <1>2, LeastNatural
<1> QED
  BY <1>3 DEF Origins

\* What a minute bucket says of a time, and of the time a minute before.
LEMMA BucketOf ==
  ASSUME NEW t \in Int
  PROVE  /\ MinuteBucket(t) \in Int
         /\ Minute * MinuteBucket(t) <= t /\ t < Minute * MinuteBucket(t) + Minute
         /\ MinuteBucket(t - Minute) = MinuteBucket(t) - 1
BY MinuteIsPositive DEF MinuteBucket

\* Buckets are in the order of time.
LEMMA BucketOrder ==
  ASSUME NEW q \in Int, NEW r \in Int, Minute * q < Minute * r + Minute
  PROVE  q <= r
<1>1. SUFFICES ASSUME q >= r + 1 PROVE FALSE
  OBVIOUS
<1>2. Minute * q >= Minute * (r + 1)
  BY <1>1, MinuteIsPositive
<1> QED
  BY <1>2, MinuteIsPositive

\* A time up to a minute earlier is in the bucket of the time, or in that of the
\* minute before.
LEMMA EarlierBucket ==
  ASSUME NEW t \in Nat, NEW s \in Nat, s - t \in 0 .. Window
  PROVE  MinuteBucket(t) \in {MinuteBucket(s), MinuteBucket(s - Minute)}
<1> DEFINE q == MinuteBucket(t)
           r == MinuteBucket(s)
<1>1. /\ q \in Int /\ Minute * q <= t /\ t < Minute * q + Minute
      /\ r \in Int /\ Minute * r <= s /\ s < Minute * r + Minute
      /\ MinuteBucket(s - Minute) = r - 1
  BY BucketOf
<1>2. t <= s /\ s - Minute <= t
  BY MinuteIsPositive, WindowIsAtMostAMinute
<1> HIDE DEF q, r
<1>3. q <= r
  <2>1. Minute * q < Minute * r + Minute
    BY <1>1, <1>2, MinuteIsPositive
  <2> QED
    BY <1>1, <2>1, BucketOrder
<1>4. r - 1 <= q
  <2>1. Minute * (r - 1) = Minute * r - Minute
    BY <1>1, MinuteIsPositive
  <2>2. Minute * (r - 1) < Minute * q + Minute
    BY <1>1, <1>2, <2>1, MinuteIsPositive
  <2> QED
    BY <1>1, <2>2, BucketOrder
<1> QED
  BY <1>1, <1>3, <1>4 DEF q, r

\* A stored shot of the same swing from before is a twin.
LEMMA EarlierIsTwin ==
  ASSUME NEW s \in Shot, NEW S \in SUBSET Shot, NEW t \in S \ {s},
         Swing[t] = Swing[s], Captured[s] - Captured[t] \in 0 .. Window
  PROVE  t \in Twins(s, S)
<1>1. Captured[s] \in Nat /\ Captured[t] \in Nat
  BY CapturedIsTime
<1>2. ContentHash(t, Captured[t]) \in HashesToMatch(s)
  BY <1>1, EarlierBucket DEF ContentHash, HashesToMatch
<1>3. Captured[s] - Window <= Captured[t] /\ Captured[t] <= Captured[s] + Window
  BY <1>1, MinuteIsPositive
<1> QED
  BY <1>2, <1>3 DEF Twins

\* No step but its own search ends the search of a slot with nothing found.
LEMMA SearchesEndThemselves ==
  ASSUME TypeInv, Next, NEW w \in Slot, At(w, "search"), exec'[w].at = "done"
  PROVE  /\ exec[w].shot \in Shot
         /\ Origins(exec[w].shot, stored) = {}
<1>1. exec[w].shot \in Shot
  BY DEF TypeInv, ExecsMatch, At
<1>2. exec' # exec
  BY DEF At
<1>3. PICK v \in Slot : ProcessStep(v) \/ FailAttempt(v) \/ CrashSlot(v)
  BY <1>2 DEF Next, PostShot, Promote, Reclaim, Expire, ClaimBatch, EmitBatch, CommitBatch,
     AbortBatch
<1>4. \A x : exec' = [exec EXCEPT ![v] = x] => (v = w /\ exec'[w] = x) \/ exec'[w] = exec[w]
  BY DEF TypeInv, TypeOK
<1>5. \E x : exec' = [exec EXCEPT ![v] = x]
  BY <1>3 DEF ProcessStep, StartJob, UpsertIfNew, SearchOrigin, FlagDuplicate, RelabelEvent,
     FinishJob, FailAttempt, CrashSlot, GoOn
<1>6. v = w
  BY <1>4, <1>5 DEF At
<1>7. ASSUME NEW x, exec' = [exec EXCEPT ![w] = x]
      PROVE  x.at = "done"
  BY <1>7 DEF TypeInv, TypeOK
<1>8. SearchOrigin(w)
  <2>1. ~ (FailAttempt(w) \/ CrashSlot(w))
    <3>1. exec' # [exec EXCEPT ![w] = IdleExec]
      <4>1. IdleExec.at # "done"
        BY DEF IdleExec
      <4> QED
        BY <1>7, <4>1
    <3> QED
      BY <3>1 DEF FailAttempt, CrashSlot
  <2>2. ProcessStep(w)
    BY <1>3, <1>6, <2>1
  <2> QED
    BY <2>2 DEF ProcessStep, StartJob, UpsertIfNew, FlagDuplicate, RelabelEvent, FinishJob, At
<1>9. ASSUME NEW o, GoOn(w, "flag", o)
      PROVE  FALSE
  <2> DEFINE x == [at |-> "flag", shot |-> exec[w].shot, origin |-> o]
  <2>1. exec' = [exec EXCEPT ![w] = x]
    BY <1>9 DEF GoOn
  <2>2. x.at = "flag"
    OBVIOUS
  <2> HIDE DEF x
  <2> QED
    BY <1>7, <2>1, <2>2
<1> QED
  BY <1>1, <1>8, <1>9 DEF SearchOrigin

\* A search that finds nothing has missed no earlier twin, across minutes too.
THEOREM EarlierTwinsAreFound == Spec => EarlierTwinIsFound
<1>1. TypeInv /\ [Next]_vars =>
        [\A w \in Slot :
           At(w, "search") /\ exec'[w].at = "done" =>
             LET s == exec[w].shot
             IN  \A t \in stored \ {s} :
                   Swing[t] = Swing[s] => Captured[s] - Captured[t] \notin 0 .. Window]_vars
  <2> SUFFICES ASSUME TypeInv, Next, NEW w \in Slot, At(w, "search"), exec'[w].at = "done",
                      NEW t \in stored \ {exec[w].shot}, Swing[t] = Swing[exec[w].shot],
                      Captured[exec[w].shot] - Captured[t] \in 0 .. Window
               PROVE  FALSE
    OBVIOUS
  <2>1. exec[w].shot \in Shot /\ Origins(exec[w].shot, stored) = {}
    BY SearchesEndThemselves
  <2>2. stored \in SUBSET Shot
    BY DEF TypeInv, TypeOK
  <2>3. t \in Twins(exec[w].shot, stored)
    BY <2>1, <2>2, EarlierIsTwin
  <2> QED
    BY <2>1, <2>2, <2>3, TwinsHaveAnOrigin
<1> QED
  BY <1>1, TypeCorrect, PTL DEF Spec, EarlierTwinIsFound

-----------------------------------------------------------------------------
(* The ledger.                                                             *)

\* Each step of the pipeline is a step of the ledger or leaves it alone.
LEMMA LedgerStep ==
    TypeInv /\ ProcessInv /\ OutboxInv /\ [Next]_vars
        => [Ledger!LNext]_<<stored, duplicateOf, events>>
<1> SUFFICES ASSUME TypeInv, ProcessInv, OutboxInv, Next,
                    ~ UNCHANGED <<stored, duplicateOf, events>>
             PROVE  Ledger!LNext
  BY DEF vars
<1>1. ASSUME NEW w \in Slot, UpsertIfNew(w) PROVE Ledger!LNext
  <2>1. ~ KeyKnown(exec[w].shot)
    BY <1>1 DEF UpsertIfNew, dbVars
  <2>2. exec[w].shot \in Shot
    BY <1>1 DEF UpsertIfNew, TypeInv, ExecsMatch, At
  <2>3. Ledger!Enter(exec[w].shot)
    BY <1>1, <2>1 DEF UpsertIfNew, KeyKnown, Ledger!Enter
  <2> QED
    BY <2>2, <2>3 DEF Ledger!LNext
<1>2. ASSUME NEW w \in Slot, FlagDuplicate(w) PROVE Ledger!LNext
  <2> DEFINE s == exec[w].shot
             o == exec[w].origin
  <2>1. Near(s, o) /\ duplicateOf[s] = NoShot /\ s \in Shot /\ o \in Shot
    BY <1>2 DEF FlagDuplicate, ProcessInv, InserterDecides, Near, At, TypeInv, TypeOK
  <2>2. Ledger!MarkDuplicate(s, o)
    BY <1>2, <2>1 DEF FlagDuplicate, Near, Ledger!MarkDuplicate
  <2> QED
    BY <2>1, <2>2 DEF Ledger!LNext
<1>3. ASSUME NEW p \in Publisher, EmitBatch(p) PROVE Ledger!LNext
  <2>1. PICK heard, sent \in SUBSET pub[p].batch :
           events' = events \cup {<<s, rowOrigin[s]>> : s \in heard}
    BY <1>3, EmitStep
  <2>2. ASSUME NEW s \in heard PROVE <<s, rowOrigin[s]>> \in Ledger!Sayable
    <3>1. s \in stored /\ s \in Shot
      BY <2>1 DEF OutboxInv, BatchesAreRows, EventIffStored, Outbox
    <3>2. rowOrigin[s] \in {NoShot, duplicateOf[s]}
      BY <3>1 DEF OutboxInv, RowsNameTheFlag
    <3>3. rowOrigin[s] \in Shot \cup {NoShot}
      BY <3>1 DEF TypeInv, TypeOK
    <3> QED
      BY <3>1, <3>2, <3>3 DEF Ledger!Sayable
  <2>3. UNCHANGED <<stored, duplicateOf>>
    BY <1>3 DEF EmitBatch, dbVars
  <2>4. Ledger!Announce
    BY <2>1, <2>2, <2>3 DEF Ledger!Announce
  <2> QED
    BY <2>4 DEF Ledger!LNext
<1> QED
  BY <1>1, <1>2, <1>3
  DEF Next, ProcessStep, PostShot, Promote, Reclaim, Expire, StartJob, SearchOrigin,
      RelabelEvent, FinishJob, FailAttempt, CrashSlot, ClaimBatch, CommitBatch,
      AbortBatch, dbVars

\* The pipeline implements the ledger: at most one shot per key, one mark per
\* shot, and announcements of stored shots with their mark or none.
THEOREM PipelineImplementsLedger == Spec => ImplementsLedger
<1>1. Init => Ledger!LInit
  BY DEF Init, Ledger!LInit
<1> QED
  BY <1>1, LedgerStep, TypeCorrect, ProcessCorrect, OutboxCorrect, PTL
  DEF Spec, ImplementsLedger, Ledger!LSafe, Ledger!lvars

=============================================================================
