----------------------------- MODULE ShotPipeline -----------------------------
(***************************************************************************)
(* A shot from the webhook's 202 to the shot.persisted event: the queue,   *)
(* the processor's executions (ShotIngestionProcessor over ShotRepository),*)
(* the shots and outbox_events tables, and the OutboxPublisherService of   *)
(* each worker process. A step is what happens between two awaits of one   *)
(* execution; a statement or a transaction of the database is one step.    *)
(* Queue capacity is the subject of IngestQueue, canonical_user_id that of *)
(* IdentityLink; shots the webhooks reject for clock skew never get here.  *)
(***************************************************************************)
EXTENDS JobQueue, NearDuplicate, FiniteSets

CONSTANTS
    Publisher,  \* publishers, one per worker process
    BatchSize,  \* BATCH_SIZE of a publisher's cycle
    Faulty      \* shots whose event makes a listener throw, now and then

ASSUME BatchIsPositive == BatchSize \in Nat \ {0}
ASSUME FaultyAreShots == Faulty \subseteq Shot

VARIABLES
    posted,     \* deliveries a webhook has answered 202
    exec,       \* exec[w]: the step slot w is about to take, and for which shot
    stored,     \* rows of shots
    duplicateOf,\* duplicateOf[s]: column duplicate_of, NoShot for NULL
    rowId,      \* rowId[s]: id of s's row in outbox_events, 0 if it has none
    nextId,     \* the id sequence of outbox_events
    rowOrigin,  \* rowOrigin[s]: duplicate_of in the payload of that row
    pub,        \* pub[p]: the publisher's transaction and the rows it locked
    events      \* events listeners have seen: <<shot, duplicate_of>>

dbVars == <<stored, duplicateOf, rowId, nextId, rowOrigin>>
vars == <<job, posted, exec, stored, duplicateOf, rowId, nextId, rowOrigin,
          pub, events>>

Stage == {"idle", "upsert", "search", "flag", "relabel", "done"}
PubStage == {"idle", "emit", "delete"}

IdleExec == [at |-> "idle", shot |-> NoShot, origin |-> NoShot]
IdlePub == [at |-> "idle", batch |-> {}, sent |-> {}]

TypeOK ==
    /\ job \in [JobId -> JobRecord]
    /\ posted \subseteq Shot
    /\ exec \in [Slot -> [at : Stage, shot : Shot \cup {NoShot},
                          origin : Shot \cup {NoShot}]]
    /\ stored \subseteq Shot
    /\ duplicateOf \in [Shot -> Shot \cup {NoShot}]
    /\ rowId \in [Shot -> Nat]
    /\ nextId \in Nat \ {0}
    /\ rowOrigin \in [Shot -> Shot \cup {NoShot}]
    /\ pub \in [Publisher -> [at : PubStage, batch : SUBSET Shot,
                              sent : SUBSET Shot]]
    /\ events \subseteq Shot \X (Shot \cup {NoShot})

Init ==
    /\ QueueInit
    /\ posted = {}
    /\ exec = [w \in Slot |-> IdleExec]
    /\ stored = {}
    /\ duplicateOf = [s \in Shot |-> NoShot]
    /\ rowId = [s \in Shot |-> 0]
    /\ nextId = 1
    /\ rowOrigin = [s \in Shot |-> NoShot]
    /\ pub = [p \in Publisher |-> IdlePub]
    /\ events = {}

-----------------------------------------------------------------------------
(* The outbox table.                                                       *)

\* Shots with a row in outbox_events.
Outbox == {s \in Shot : rowId[s] # 0}

\* Mutant: no transaction around the cycle, auto-commit ends the lock with the
\* SELECT.
LockedUntilSelect == {}

\* Rows some publisher's transaction holds FOR UPDATE.
Locked == UNION {pub[p].batch : p \in Publisher}

\* Rows FOR UPDATE SKIP LOCKED can see.
Claimable == Outbox \ Locked

-----------------------------------------------------------------------------
(* The queue's part: deliveries come in, jobs wait, stall and expire.      *)

\* A webhook parses a delivery and enqueues it. The answer is 202 whether or
\* not the queue took a job for it.
PostShot(s) ==
    /\ s \notin posted
    /\ posted' = posted \cup {s}
    /\ AddJob(KeyOf[s], s)
    /\ UNCHANGED <<exec, pub, events, dbVars>>

Promote(k) == PromoteJob(k) /\ UNCHANGED <<posted, exec, pub, events, dbVars>>

\* Whether the slot that holds the job is dead or will go on with it.
Reclaim(k) == StallJob(k) /\ UNCHANGED <<posted, exec, pub, events, dbVars>>

Expire(k) == ExpireJob(k) /\ UNCHANGED <<posted, exec, pub, events, dbVars>>

-----------------------------------------------------------------------------
(* process(job), one action per await.                                     *)

At(w, stage) == exec[w].at = stage

\* Slot w goes on with its shot, at the given step and with the given origin.
GoOn(w, stage, origin) ==
    exec' = [exec EXCEPT ![w] = [at |-> stage, shot |-> exec[w].shot,
                                 origin |-> origin]]

\* A slot starts a job. Resolving the canonical user reads and fills a cache
\* this module does not show; its failure is that of the first step.
StartJob(w, k) ==
    /\ At(w, "idle")
    /\ TakeJob(k, w)
    /\ exec' = [exec EXCEPT ![w] = [at |-> "upsert", shot |-> job[k].shot,
                                    origin |-> NoShot]]
    /\ UNCHANGED <<posted, pub, events, dbVars>>

\* Mutants: no unique index at all, and one on canonical_shot_id alone.
NothingKnown(s) == FALSE
ShotIdKnown(s) == s \in stored

\* ON CONFLICT (vendor, idempotency_key).
KeyKnown(s) == \E t \in stored : KeyOf[t] = KeyOf[s]

\* Mutant: the near-duplicate check runs for shots already stored too.
AlwaysSearch(s) == "search"

\* process returns early unless the shot was inserted.
AfterUpsert(s) == IF KeyKnown(s) THEN "done" ELSE "search"

\* upsertIfNew, one transaction: a new key gets its shot and its outbox row,
\* and goes on to the near-duplicate check; a known key ends the job.
UpsertIfNew(w) ==
    LET s == exec[w].shot
    IN  /\ At(w, "upsert")
        /\ GoOn(w, AfterUpsert(s), NoShot)
        /\ IF KeyKnown(s)
             THEN UNCHANGED dbVars
             ELSE /\ stored' = stored \cup {s}
                  /\ rowId' = [rowId EXCEPT ![s] = nextId]
                  /\ nextId' = nextId + 1
                  /\ rowOrigin' = [rowOrigin EXCEPT ![s] = NoShot]
                  /\ UNCHANGED duplicateOf
        /\ UNCHANGED <<job, posted, pub, events>>

\* checkAndFlagNearDuplicates, its SELECT.
SearchOrigin(w) ==
    LET found == Origins(exec[w].shot, stored)
    IN  /\ At(w, "search")
        /\ \/ found = {} /\ GoOn(w, "done", NoShot)
           \/ \E o \in found : GoOn(w, "flag", o)
        /\ UNCHANGED <<job, posted, pub, events, dbVars>>

\* Mutant: the UPDATE of shots is forgotten.
FlagNothing(w) ==
    /\ At(w, "flag")
    /\ GoOn(w, "relabel", exec[w].origin)
    /\ UNCHANGED <<job, posted, pub, events, dbVars>>

\* checkAndFlagNearDuplicates, its UPDATE, in no transaction with the SELECT.
FlagDuplicate(w) ==
    /\ At(w, "flag")
    /\ duplicateOf' = [duplicateOf EXCEPT ![exec[w].shot] = exec[w].origin]
    /\ GoOn(w, "relabel", exec[w].origin)
    /\ UNCHANGED <<job, posted, stored, rowId, nextId, rowOrigin, pub, events>>

\* updateOutboxEventDuplicateOf: waits for a publisher that holds the row, and
\* finds nothing to update once the row is gone.
RelabelEvent(w) ==
    LET s == exec[w].shot
    IN  /\ At(w, "relabel")
        /\ s \notin Locked
        /\ rowOrigin' = IF s \in Outbox
                          THEN [rowOrigin EXCEPT ![s] = exec[w].origin]
                          ELSE rowOrigin
        /\ GoOn(w, "done", NoShot)
        /\ UNCHANGED <<job, posted, stored, duplicateOf, rowId, nextId, pub,
                       events>>

\* process returned: the slot reports it and is free.
FinishJob(w) ==
    /\ At(w, "done")
    /\ CompleteJob(KeyOf[exec[w].shot], w)
    /\ exec' = [exec EXCEPT ![w] = IdleExec]
    /\ UNCHANGED <<posted, pub, events, dbVars>>

\* Mutant: process catches what it should throw.
SwallowFailure(w) ==
    /\ ~ At(w, "idle")
    /\ CompleteJob(KeyOf[exec[w].shot], w)
    /\ exec' = [exec EXCEPT ![w] = IdleExec]
    /\ UNCHANGED <<posted, pub, events, dbVars>>

\* process threw: the await it stood at failed, or succeeded with its answer
\* lost, which is a failure at the step after it.
FailAttempt(w) ==
    /\ ~ At(w, "idle")
    /\ FailJob(KeyOf[exec[w].shot], w)
    /\ exec' = [exec EXCEPT ![w] = IdleExec]
    /\ UNCHANGED <<posted, pub, events, dbVars>>

\* The process of the slot dies and is restarted; its job stays active, with
\* a lock nobody renews.
CrashSlot(w) ==
    /\ ~ At(w, "idle")
    /\ exec' = [exec EXCEPT ![w] = IdleExec]
    /\ UNCHANGED <<job, posted, pub, events, dbVars>>

-----------------------------------------------------------------------------
(* publishPending, one transaction with the emits in the middle.           *)

\* SELECT ... ORDER BY created_at LIMIT n FOR UPDATE SKIP LOCKED.
ClaimBatch(p) ==
    LET free == Claimable
    IN  /\ pub[p].at = "idle"
        /\ free # {}
        /\ \E batch \in SUBSET free :
             /\ IF Cardinality(free) <= BatchSize
                  THEN batch = free
                  ELSE Cardinality(batch) = BatchSize
             /\ \A s \in batch, t \in free \ batch : rowId[s] < rowId[t]
             /\ pub' = [pub EXCEPT ![p] = [at |-> "emit", batch |-> batch,
                                           sent |-> {}]]
        /\ UNCHANGED <<job, posted, exec, events, dbVars>>

\* Mutant: an event that is refused ends the cycle.
EmitUntilRefused(p) ==
    /\ pub[p].at = "emit"
    /\ \E refused \in SUBSET (pub[p].batch \cap Faulty) :
         LET sent == IF refused = {} THEN pub[p].batch ELSE {}
         IN  /\ events' = events \cup {<<s, rowOrigin[s]>> : s \in sent}
             /\ pub' = [pub EXCEPT ![p] = [@ EXCEPT !.at = "delete", !.sent = sent]]
    /\ UNCHANGED <<job, posted, exec, dbVars>>

\* The emit loop, synchronous: an event whose listener throws is kept for the
\* next cycle, though listeners before that one have seen it.
EmitBatch(p) ==
    /\ pub[p].at = "emit"
    /\ \E refused \in SUBSET (pub[p].batch \cap Faulty) :
       \E seen \in SUBSET refused :
         LET sent == pub[p].batch \ refused
         IN  /\ events' = events \cup {<<s, rowOrigin[s]>> : s \in sent \cup seen}
             /\ pub' = [pub EXCEPT ![p] = [@ EXCEPT !.at = "delete", !.sent = sent]]
    /\ UNCHANGED <<job, posted, exec, dbVars>>

\* Mutant: the whole batch is deleted, refused or not.
DeleteClaimed(p) == pub[p].batch

\* The rows emit returned for.
DeleteEmitted(p) == pub[p].sent

\* DELETE of the rows emitted, and COMMIT.
CommitBatch(p) ==
    /\ pub[p].at = "delete"
    /\ rowId' = [s \in Shot |-> IF s \in DeleteEmitted(p) THEN 0 ELSE rowId[s]]
    /\ rowOrigin' =
         [s \in Shot |-> IF s \in DeleteEmitted(p) THEN NoShot ELSE rowOrigin[s]]
    /\ pub' = [pub EXCEPT ![p] = IdlePub]
    /\ UNCHANGED <<job, posted, exec, stored, duplicateOf, nextId, events>>

\* The transaction ends without its DELETE: the worker died, or the database
\* refused or lost the transaction.
AbortBatch(p) ==
    /\ pub[p].at # "idle"
    /\ pub' = [pub EXCEPT ![p] = IdlePub]
    /\ UNCHANGED <<job, posted, exec, events, dbVars>>

-----------------------------------------------------------------------------

ProcessStep(w) ==
    \/ \E k \in JobId : StartJob(w, k)
    \/ UpsertIfNew(w)
    \/ SearchOrigin(w)
    \/ FlagDuplicate(w)
    \/ RelabelEvent(w)
    \/ FinishJob(w)

Next ==
    \/ \E s \in Shot : PostShot(s)
    \/ \E k \in JobId : Promote(k) \/ Reclaim(k) \/ Expire(k)
    \/ \E w \in Slot : ProcessStep(w) \/ FailAttempt(w) \/ CrashSlot(w)
    \/ \E p \in Publisher :
         ClaimBatch(p) \/ EmitBatch(p) \/ CommitBatch(p) \/ AbortBatch(p)

Spec == Init /\ [][Next]_vars

\* Slots and publishers keep going, the queue promotes and reclaims in the end,
\* an UPDATE that waits for a row gets it (the database queues it), and a
\* publisher does not fail in every cycle. Nothing is asked of failures,
\* crashes and expiry.
Fairness ==
    /\ \A w \in Slot : WF_vars(ProcessStep(w)) /\ SF_vars(RelabelEvent(w))
    /\ \A k \in JobId : WF_vars(Promote(k)) /\ WF_vars(Reclaim(k))
    /\ \A p \in Publisher :
         WF_vars(ClaimBatch(p)) /\ SF_vars(EmitBatch(p)) /\ SF_vars(CommitBatch(p))

FairSpec == Spec /\ Fairness

-----------------------------------------------------------------------------
(* Safety.                                                                 *)

Announced(s) == \E e \in events : e[1] = s

\* Event if and only if shot: a shot in the table has its event waiting in the
\* outbox or already emitted, and nothing else is ever emitted (upsertIfNew,
\* publishPending).
EventIffStored ==
    \A s \in Shot : s \in stored <=> s \in Outbox \/ Announced(s)

\* Retries, retransmissions after the queue forgot the job, and two slots on
\* one stalled job leave one shot per idempotency key (upsertIfNew).
OneShotPerKey ==
    \A s, t \in stored : KeyOf[s] = KeyOf[t] => s = t

Near(s, o) ==
    /\ {s, o} \subseteq stored /\ s # o
    /\ Swing[s] = Swing[o]
    /\ Captured[s] - Captured[o] \in -Window..Window

\* An origin is another stored shot of the same swing, at most the window away
\* (checkAndFlagNearDuplicates).
OriginsAreNear ==
    \A s \in Shot : duplicateOf[s] # NoShot => Near(s, duplicateOf[s])

\* An event that names an origin names the one the shots table has
\* (updateOutboxEventDuplicateOf after the flag is set).
EventsNameTheFlag ==
    \A e \in events : e[2] # NoShot => e[2] = duplicateOf[e[1]]

\* A job the queue counts as completed has its shot in the table (process
\* returns only after upsertIfNew).
CompletedIsStored ==
    \A k \in JobId :
        job[k].state = "completed" => \E s \in stored : KeyOf[s] = k

\* Whatever attempts and zombies do, the origin of a shot is decided once.
FlagIsWrittenOnce ==
    [][\A s \in Shot :
         duplicateOf[s] # NoShot => duplicateOf'[s] = duplicateOf[s]]_vars

\* Once listeners saw a shot as a duplicate they never see it as an original.
LabelIsNotTakenBack ==
    [][\A s \in Shot : \A o \in Shot :
         <<s, o>> \in events /\ <<s, NoShot>> \in events'
           => <<s, NoShot>> \in events]_vars

\* A row leaves the outbox only after listeners saw the event labelled as the
\* row is by then: a relabel that comes between the emits and the DELETE waits,
\* and is never deleted unseen (publishPending's one transaction).
RowsLeaveAsSeen ==
    [][\A s \in Shot :
         s \in Outbox /\ rowId'[s] = 0 => <<s, rowOrigin[s]>> \in events]_vars

\* A search that finds nothing has missed no stored shot of the same swing from
\* before, on whichever side of a minute's end, up to the window exactly
\* (checkAndFlagNearDuplicates; one from after, in the next minute, it misses).
EarlierTwinIsFound ==
    [][\A w \in Slot :
         At(w, "search") /\ exec'[w].at = "done" =>
           LET s == exec[w].shot
           IN  \A t \in stored \ {s} :
                 Swing[t] = Swing[s] => Captured[s] - Captured[t] \notin 0 .. Window]_vars

-----------------------------------------------------------------------------
(* The invariants behind them: what a slot between two awaits, and a       *)
(* publisher between two statements, may rely on.                          *)

\* A job carries a shot of its own key.
JobsMatch ==
    \A k \in JobId :
        job[k].state # "none" => job[k].shot \in Shot /\ KeyOf[job[k].shot] = k

\* A slot at work has a shot.
ExecsMatch == \A w \in Slot : ~ At(w, "idle") => exec[w].shot \in Shot

\* Slots past the INSERT of a new row.
Inserting(w) == exec[w].at \in {"search", "flag", "relabel"}

\* Only the attempt that inserted a shot goes past the upsert with it: later
\* attempts and zombies find the key known.
OneInserter ==
    /\ \A w \in Slot : Inserting(w) => exec[w].shot \in stored
    /\ \A w, v \in Slot :
         Inserting(w) /\ Inserting(v) /\ exec[w].shot = exec[v].shot => w = v

\* What the inserter knows of the flag it is about to set or to announce.
InserterDecides ==
    \A w \in Slot :
        /\ exec[w].at \in {"search", "flag"} => duplicateOf[exec[w].shot] = NoShot
        /\ At(w, "flag") => Near(exec[w].shot, exec[w].origin)
        /\ At(w, "relabel") =>
             exec[w].origin \in Shot /\ duplicateOf[exec[w].shot] = exec[w].origin

DoneIsKnown == \A w \in Slot : At(w, "done") => KeyKnown(exec[w].shot)

\* No row is in the batch of two publishers.
DisjointClaims ==
    \A p, q \in Publisher : p # q => pub[p].batch \cap pub[q].batch = {}

\* A transaction holds rows of the outbox; those it will delete were emitted
\* with the label they still have.
BatchesAreRows ==
    \A p \in Publisher :
        /\ pub[p].sent \subseteq pub[p].batch /\ pub[p].batch \subseteq Outbox
        /\ pub[p].at = "delete" =>
             \A s \in pub[p].sent : <<s, rowOrigin[s]>> \in events

\* A row names the flag or nothing, and never nothing after a listener saw it.
RowsNameTheFlag ==
    \A s \in Shot :
        /\ rowOrigin[s] # NoShot => rowOrigin[s] = duplicateOf[s]
        /\ s \in Outbox /\ (\E o \in Shot : <<s, o>> \in events)
             => rowOrigin[s] # NoShot

TypeInv == TypeOK /\ JobsMatch /\ ExecsMatch

ProcessInv ==
    /\ OneShotPerKey /\ OriginsAreNear /\ CompletedIsStored
    /\ OneInserter /\ InserterDecides /\ DoneIsKnown

OutboxInv ==
    /\ EventIffStored /\ EventsNameTheFlag /\ DisjointClaims
    /\ BatchesAreRows /\ RowsNameTheFlag

-----------------------------------------------------------------------------
(* What ingestion promises, and how the pipeline keeps it.                 *)

Ledger == INSTANCE ShotLedger
            WITH entered <- stored, mark <- duplicateOf, announced <- events

\* Every step of queue, slots, tables and publishers is a step of the ledger,
\* or none.
ImplementsLedger == Ledger!LSafe

\* ... and every stored shot is announced in the end, as long as fewer events
\* than a batch holds are refused again and again (publishPending).
KeepsLedgerPromise == Ledger!LSpec

\* A job is settled: its key comes to be stored, or it fails for good
\* (attempts and backoff of enqueue, the stalled check).
JobIsSettled ==
    \A k \in JobId :
        job[k].state = "waiting" ~> \/ \E t \in stored : KeyOf[t] = k
                                    \/ job[k].state = "failed"

-----------------------------------------------------------------------------
(* What the repository says of its near-duplicates and the code does not   *)
(* keep.                                                                   *)

\* The origin is "an earlier shot" (checkAndFlagNearDuplicates), so of two
\* near-duplicates one stays an original, and visible to the queries.
NoMutualDuplicates ==
    \A s, o \in Shot : duplicateOf[s] = o => duplicateOf[o] # s

Settled ==
    /\ \A w \in Slot : At(w, "idle")
    /\ \A k \in JobId : job[k].state = "completed"

\* A retry is idempotent: once every job has completed, of two stored twins of
\* the same minute one is flagged, as it is when no attempt fails (process).
RetryFlagsTheTwin ==
    Settled =>
        \A s, o \in stored :
            /\ o \in Twins(s, stored)
            /\ s \in Twins(o, stored)
            => duplicateOf[s] # NoShot \/ duplicateOf[o] # NoShot

=============================================================================
