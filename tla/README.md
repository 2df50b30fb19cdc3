# A TLA+ development of pureplay-analytics-ingest

TLA+ models of the ingest service, the TLC runs that check them on small
instances, and the TLAPS proofs that hold for every instance. All paths below are
relative to the repository's root; the code is under `src/src`.

## 1. The system

Three vendors post golf shots to webhooks; the service queues, stores,
de-duplicates and announces them, and answers queries about them. It runs as two
kinds of process over one Redis (BullMQ queue, caches) and one PostgreSQL:

- **API** (`main.api.ts`, `AppModule`): webhooks, queries, identities. It imports
  `IngestionModule`, so it runs shot processors too. It runs the migrations before
  it listens.
- **Worker** (`main.worker.ts`, `WorkerModule`): shot processors and the outbox
  publisher.

### Components

| Component | State | Operations | Interacts with |
|---|---|---|---|
| Webhook controllers (`webhooks/*`) | none; a request in flight | throttle, authenticate, validate, parse, refuse skewed shots, check capacity, enqueue, answer | ingestion queue |
| Vendor schemas and parsers (`*.schema.ts`, `*.parser.ts`, `units.ts`, `club-code.ts`) | none | accept or refuse a payload; bring its wire format, units and clubs to one row with one key | webhook controllers; the CHECK constraints of `shots` |
| Ingestion queue (`shot-ingestion.queue.ts`) | the BullMQ queue: one job per idempotency key, its state, attempts and lock | `enqueue`, `checkBatchCapacity`; in BullMQ: take, complete, fail, back off, promote, stall, expire | processor |
| Shot processor (`shot-ingestion.processor.ts`) | up to 16 executions per process, each between two awaits | resolve the user, upsert, near-duplicate check, relabel the event; `onFailed` | repository, identity service |
| Shot repository (`shot-repository.ts`, `content-hash.ts`) | tables `shots`, `outbox_events` | `upsertIfNew` (one transaction), `checkAndFlagNearDuplicates` (SELECT, then UPDATE), `updateOutboxEventDuplicateOf` | publisher, through the outbox |
| Outbox publisher (`outbox-publisher.service.ts`) | the transaction of its current cycle, the rows it has locked | claim a batch, emit it, delete what was emitted | listeners |
| Identity service (`identity.service.ts`) | table `user_identities`, caches `identity:*` and `identity-list:*`, `shots.canonical_user_id` | resolve, link (commit, evict, answer, backfill), unlink, list | processor |
| Idempotency interceptor | response cache `idempotency:*` | look up, replay, or run the handler and write what it answered, not awaited | the link endpoint |
| Shots and stats queries (`shots.service.ts`, `stats.service.ts`) | none; the cursor is the client's | cursor pages; grouped statistics with a row cap | table `shots` |
| Guards (`webhook-auth.guard.ts`, `internal-api.guard.ts`, throttler) | none | admit or refuse, by the environment | every request |
| Environment, migrations, bootstrap | the schema of the database; how far a process has started | validate, migrate, listen | every other part, through the tables |
| Error mapping (`global-exception.filter.ts`) | none | from an exception to an answer | every request |
| Health, metrics, logging, tracing, OpenAPI, redaction | nothing another part reads | | |

### What is hard, and what makes each part correct

- **Queue.** Counting the waiting jobs and adding one are two round trips, and a
  batch adds concurrently. Retries, stalls and retention decide when a key is free
  again. *Correct:* the depth is kept, a refusal is whole, a job is started a
  bounded number of times and ends stored or failed.
- **Processor and repository.** A stalled job runs twice at once, the second time
  because the first execution only *seemed* dead; an attempt may fail between any
  two statements, with its effect done or not; the near-duplicate SELECT and UPDATE
  share no transaction. *Correct:* one shot per key, an event exactly for each shot,
  flags that point to a near shot, are written once and reach the event.
- **Outbox.** Several publishers, listeners that throw, transactions that end
  without their DELETE, labels that change meanwhile. *Correct:* no event lost or
  invented or deleted with a label nobody saw, none blocked by another one that is
  refused.
- **Identities.** Look-aside caches against commits and evictions by other
  processes, a backfill after the answer. *Correct:* caches are stale only in known
  races and not for ever, owners are not lost, not taken away.

- **Webhooks.** Three vendors, six wire formats, eight units, several ways to spell a
  club; retransmissions in another format, batches with doubles; identifiers joined
  to keys that nothing escapes and that the queue has rules for. The ranges of the
  schemas and the CHECKs of the table are written in different units. *Correct:* a
  shot arrives as it was measured, in whatever format, once; what can be a shot is
  neither refused nor fails after its 202; a shot outside the window leaves nothing of
  its batch behind.
- **Start.** Processes run the same migrations at the same time and die between two
  of them, or in the middle of an index; the environment decides what the guards
  ask for. *Correct:* nothing listens without the tables and the index that
  `ON CONFLICT` needs; no environment that starts in production leaves a way in.
- **Queries.** Between two pages shots are stored, flagged and given owners, and the
  window moves. *Correct:* a walk shows no shot twice, misses none that was there
  throughout, and ends; the statistics count what the listing shows.
- **Idempotency.** Lookup, handler and cache write are three steps of requests that
  overlap; Redis and the process may fail between them. *Correct:* a replay is the
  success of a request with the same key, and a second run has a known reason.

`PROJECT.json` lists each hazard at its line, with the properties that cover it or
the reason why none does.

## 2. The modules

| Module | What it is |
|---|---|
| `Deliveries` | the constants every ingest module speaks of: deliveries (`Shot`), idempotency keys (`JobId`), `KeyOf` |
| `NearDuplicate` | the near-duplicate query and the content hash, as operators on a set of stored shots |
| `JobQueue` | the BullMQ queue as the code uses it: variable `job`, one operator per queue operation |
| `ShotPipeline` | extends `JobQueue` and `NearDuplicate`: webhook, processor slots, tables, publishers |
| `ShotLedger` | what ingestion promises, without queue, workers, retries or outbox; `ShotPipeline` implements it |
| `IngestQueue` | extends `JobQueue` with requests, batches and backpressure; the processor reduced to its use of the queue |
| `IdentityLink` | mappings, both caches, link/unlink/list requests, and the processor's use of them |
| `VendorSchemas` | what the webhooks accept: the schemas of the vendors with their ranges, renamings and versions |
| `VendorParsers` | units, clubs, keys, the row that is written, and the constraints of the table |
| `VendorContract` | what the vendors' JSON means, which club spellings mean which club (by the seed of `club_aliases`), which fields were agreed on, what is plausible: no part of the program, but what schemas and parsers are measured by |
| `Startup` | the environment and what validation lets through; processes that migrate together, and die |
| `ErrorMapping` | exceptions and the answers they become |
| `ApiGateway` | deliveries and queries from the wire through throttler, guard, schema, parser and skew check to queue and table |
| `ShotQueries` | pages of shots and the counts of the statistics, as operators on the table |
| `Idempotency` | the response cache around a handler |
| `UserApi` | a client that walks through pages and asks for statistics, and link requests behind the response cache, while the table changes |
| `ShotPipeline_proofs`, `IdentityLink_proofs`, `IngestQueue_proofs`, `ApiGateway_proofs`, `UserApi_proofs` | the theorems and their proofs, one module per component |
| `VendorContract_proofs`, `ApiValues_proofs` | theorems about single payloads; from them, and `ApiGateway_proofs`, those about what becomes of a shot |
| `ShotQueries_proofs` | theorems about pages, errors and statistics, on top of `UserApi_proofs` |
| `MCShotPipeline`, `MCIngestQueue`, `MCIdentityLink`, `MCApiGateway`, `MCUserApi` | instances for TLC |

Composition: `ShotPipeline` and `IngestQueue` are built on the same `JobQueue`;
they meet at `AddJob` (`ShotPipeline!PostShot` is a request that found room).
`ShotPipeline` and `IdentityLink` meet at the INSERT: the owner a shot is stored
with is `IdentityLink`'s, everything else `ShotPipeline`'s. `ApiGateway` extends
`Startup` and `VendorContract`, which extend `VendorParsers` and that
`VendorSchemas`; a request of it is one step, and a job with all its attempts is one step, because `IngestQueue` and
`ShotPipeline` take them apart. `UserApi` extends `ShotQueries` and `Idempotency`;
both it and `ApiGateway` answer through `ErrorMapping`.

### How state and actions correspond to the code

A step is what happens between two awaits of one execution. A single SQL statement
or a transaction whose statements only the database sees is one step; the
publisher's transaction is three (`ClaimBatch`, `EmitBatch`, `CommitBatch`)
because listeners see its middle.

**JobQueue** (`queue.add` of `enqueue`, and BullMQ). `AddJob` does nothing if the
queue still holds the `jobId`, finished jobs included, and the caller is not told.
`TakeJob` gives the slot a lock; `StallJob` takes it away whether the slot is dead
or blocked, so that a *zombie* may go on while another slot runs the same job.
`CompleteJob` and `FailJob` of a slot without the lock change nothing. A failed
attempt is delayed and promoted, or fails for good at `MaxAttempts` (the code's 5);
a job that stalls more often than `MaxStalls` (BullMQ's default, 1) fails.

**ShotPipeline.** `exec[w]` is a slot: the next step of `process` and what it has in
hand. `UpsertIfNew` is `upsertIfNew`'s transaction with the early return of
`process` behind it; `SearchOrigin` and `FlagDuplicate` are the two statements of
`checkAndFlagNearDuplicates`; `RelabelEvent` is `updateOutboxEventDuplicateOf`,
which waits for a publisher that holds the row. `FailAttempt` at a step says that
the await there failed, or that the await before it succeeded with its answer lost.
`CrashSlot` is the death of the slot's process. `rowId`/`rowOrigin` are the row of
`outbox_events`, `pub[p]` a publisher's transaction, `events` what listeners saw.

**IngestQueue.** `Arrive`, `CheckBatch`, then per shot `CountWaiting` and `AddShot`.
The shots of a batch run concurrently and go on after one of them is refused, as
under `Promise.all`. `BreakCheck` and `BreakCall` are Redis failures, with or
without effect. `failures` is the counter `onFailed` raises.

**IdentityLink.** `exec[s]` walks `resolveCanonicalUserId` (`LookupUser`,
`QueryUser`, `FillUser`) and the INSERT. `op[r]` walks a request: `CommitLink` or
`CommitUnlink` (the transaction, audit entry included), `Evict` or `FailEvict`,
`Backfill` or `LoseBackfill`. `reader[l]` walks `listByCanonicalUser`.
`ExpireUser` and `ExpireList` are the TTLs. Four history variables name the races:
`missed` (users a shot of whom carries another owner than the table has, at a commit
or at an eviction, or whose eviction or backfill failed), `overtaken` (lists read
before a commit and not yet cached, or whose eviction failed), `movedFrom`
(canonical users a vendor user was linked away from) and `latest` (who wrote a row
last). No step reads them.

**ApiGateway** with its parts. A JSON object is a function from the fields that are
present; `Body[s]` has one for each wire format of the shot, and `Truth[s]` says what
was measured. `IsAbout` of `VendorContract` says that a JSON object is about a
measurement, with the units computed apart from the code's conversions (from the
inch) and the clubs by the aliases that `002_club_data.sql` seeds, not by the code's
`ALIAS_MAP`; a text is known by its length, its parts between `|` and their colons,
and a key by the prefix of the vendor and the parts of all identifiers in a row, which
is all that is left of them once they are joined. `Agreed` says which fields the vendor
was to send. `Accepts` is a strict zod object, `NormaliseShot` SwingMetric's renaming, `DetectVersion` and
`FromV1`..`FromV3` ProSwing's union, `ToSI` the conversions as whole factors,
`Storable` the CHECKs of `001_init.sql`. `env` is the environment, `boot[p]` and
`next[p]` say how far process `p` has started, `schema` what has become of each
table and index. An action each is a way a request ends: `Throttled`,
`Unauthorised`, `Malformed`, `Unparsable`, `Skewed`, `Accept`, `QueueIsFull`,
`IdIsRefused`, `QueueBreaks`, `Query`. `IdIsRefused` is BullMQ's own check of a job
id: one with colons must split into three (`JobIdIsRefused`, version 5.76.10 of
`package-lock.json:5929`). A message stays on the wire, so any of them may come again,
after `Expire` too. `answers` is what was answered, to what and when.

**UserApi** with its parts. `GetPage` is `ShotsService.executeQuery` with the cursor
of the last page, `GetStats` is `StatsService.executeStatsQuery`; `StoreShot`,
`FlagShot` (against any other twin, captured before or after), `Backfill` and `Tick`
are what goes on meanwhile. A bound of the window is an ISO text, and stands as a
number in the order of these texts; below 0 are the years `Date` knows and PostgreSQL
does not (`NoTimestamp`). `walk` is what a client
knows: its cursor, the shots it has seen, those it has seen `twice`, and, as history,
`steady`, the shots that were listed whenever it asked. `call[r]` is a request behind
the interceptor: `LookupMiss`, `LookupFails` or `Replay`; the handler's end
(`LinkIdentity`, `LinkRefused`, `LinkFails`); `Store` or `StoreFails`, which come
after the answer. `overlap` and `faulty` are history: who was under way at a lookup,
and the keys Redis has failed or forgotten.

Definitions whose comment begins with *Mutant* are faulty variants of the one after
them. No specification uses them; each names a plausible mistake that one of the
properties catches.

## 3. The runs

| Run | Instance | Shows |
|---|---|---|
| `pipeline_safety` | a shot delivered twice, a near-duplicate in its minute whose event a listener may refuse; 2 slots, 1 publisher, 1 attempt, 1 stall | one shot per key, an event exactly for each shot, near, final and consistent flags; every step is a step of `ShotLedger` |
| `pipeline_liveness` | two near-duplicates a minute apart, the event of one poisoned; 1 slot, 2 publishers, batches of 2, 2 attempts | no row leaves the outbox with a label nobody saw; the ledger's promise (each shot with a healthy listener is announced); each waiting job ends stored or failed; a twin from before is found across the end of its minute |
| `pipeline_mutual_flags` | two twins, 2 slots | *violation*: twins flag each other |
| `pipeline_retry_skips` | two twins, 1 slot, 2 attempts | *violation*: a retry skips the near-duplicate check |
| `queue_capacity` | a single shot, a batch of two, a retransmission; room for 2 | depth and whole refusals while requests do not overlap; starts are bounded |
| `queue_partial_batch` | a single shot and a batch | *violation*: a refused batch has added shots |
| `queue_early_alarm` | the same | *violation*: the "permanently failed" counter rises at a first failure |
| `identity_link` | 2 users, 2 canonical users, 1 shot, 2 arbitrary requests, 1 lister | cache freshness, owners, convergence |
| `identity_stale_null` | 1 user, 2 shots, 1 request | *violation*: a shot processed after the link has no owner |
| `identity_moved_list` | 1 user, 2 requests, 1 lister | *violation*: a list is stale without a race |
| `api_gateway` | each edge of each range, unit, format and spelling; each environment against each credential; repetitions and batches; identifiers that join alike or have colons; 2 processes that migrate | what was measured arrives, once; plausible shots are neither refused nor lost; a shot out of the window leaves nothing of its payload; each 500 has a known cause; production is closed; what listens has its schema |
| `user_api` | 5 shots of a player, pages of 1 to 3, a cap of 3; 6 link requests, 3 at a time | walks show every steady shot, none twice, and end; statistics agree with the listing; each 500 has a known cause; replays and second runs are explained |

### Bounds and why they are enough

- *Slots: two.* A zombie and its successor are two executions; a third repeats one
  of them. One slot is enough where only failures and retries matter.
- *Attempts 1 or 2, stalls 0 or 1.* One retry shows everything a retry finds (key
  known, or not). With one attempt the stall still runs a job twice, which is the
  retry that overlaps. `MaxStalls` is 0 in the liveness run, where the first stall
  fails the job. With `ExpireJob` a job comes back without bound anyway.
- *Shots: two keys, one of them delivered twice.* A pair is what the near-duplicate
  check is about; the second delivery is the retransmission. Minutes and the window
  are three units, so that twins may share a minute or sit on both sides of its end.
- *Depth 2, a batch of 2, three requests:* the smallest in which a batch fits
  alone, and does not fit with another request. Only one slot, as the webhooks'
  side does not see how many there are.
- *Identities:* the race of one shot against one link is there with one shot; two
  requests give re-links, unlinks of other mappings and overlapping requests.
- *Gateway:* `MCScenario` is a union of four kinds of start. `Values` sends each
  unusual shot alone, in every format it has: for every measure and unit the last
  accepted and the first refused value, and the values around the table's CHECKs.
  `Access` takes environments that differ from a production in whatever guards it,
  each against every credential. `Mixed` has repetitions in two formats, doubles,
  batches with a shot that is skewed or has no date, pairs of players and devices
  that join to one key, and ids with one colon or more. `Starts` has two processes
  on an empty database and on one in use. Two messages on the wire are a pair that
  may collide; three answers are a delivery, its repetition and one after `Expire`.
  A second is two units of time, so that two instants may share one or not. The
  clock stops at 12, the latest instant a shot with a date has.
- *Portal:* of the five shots two were captured together, one is a putt, and the ids
  are not in the order of the captures; so a page may end between equals, and a
  shot may come in before, at and after the cursor. The window (3) is shorter than
  the range of times (up to 5), so that it passes shots. A limit of 5 is above the
  maximum (3), and 0, -1 and -2 are below; a bound of -1 or -2 is a year that only
  JavaScript has. `r1` and `r2` are a request and its
  retry, `r3` has their key on another path, `r4` another body, `r5` no key, `r6` a
  key too long.
- No state constraint is used. The sequence behind `outbox_events.id` is bounded by
  the number of shots, as a key is stored once.
- Deadlock checking is off: a system with nothing posted, or all done, may stop.
- `pipeline_safety` uses the symmetry of slots, which no property tells apart. The
  runs with liveness use no symmetry.

### Fairness

- Slots go on with what they have (`WF` of `ProcessStep`): an await ends, in success
  or failure, and BullMQ hands jobs to free slots. `RelabelEvent` may find its row
  locked in cycle after cycle; the database queues the UPDATE behind the lock, so it
  gets it: `SF`.
- The delayed set is promoted and the stalled check runs periodically: `WF`.
- Publishers poll every five seconds (`WF` of `ClaimBatch`). `SF` of `EmitBatch` and
  `CommitBatch` says that not each cycle ends in a crash; it does not say that a
  listener accepts: which events are refused is a choice inside `EmitBatch`.
- Requests of `IdentityLink` that have committed go on, and TTLs run out. Nothing
  obliges a request to come, a job to be posted, or an await to fail.
- In `UserApi`, a client that walks asks for its next page (`WF` of `GetPage`). That
  is the client's doing: `WalksEnd` is about clients that go on.

### What the violations are

Each is a sentence of a comment or document that the code does not keep; `findings`
in `PROJECT.json` quotes it.

1. *Mutual duplicates.* The origin is any other matching row, and SELECT and UPDATE
   are not atomic. Twins inserted before either search flag each other, and the
   queries, which leave flagged rows out, show neither.
2. *A retry skips the check.* The key is known, so `process` returns early.
3. *Partial batches.* The capacity check of a batch reserves nothing. The comment that
   calls it atomic goes on to grant a soft race between requests, for the depth; that
   a batch answered 503 is queued in part is what the API documentation excludes.
4. *Early alarm.* `onFailed` does not look at `attemptsMade`.
5. *Stale "no user".* A lookup in flight writes its old answer after the link's DEL.
6. *Moved users.* A link evicts the list of the new canonical user only.

## 4. The proofs

Eight modules of theorems, for every value of the constants the `ASSUME`s of the
modules allow: any number of shots, slots, publishers, users, requests, processes,
any bounds, any vendors' messages. They assume nothing else. What the `ASSUME`s say:
that the constants are of their types (`QueueBounds`, `LimitsAreNumbers`, ...); that a
text is known by its parts (`TextsHaveParts`); that a request for a single shot has one
and a batch has finitely many
(`SingleEndpointsTakeOneShot`, `ShotsAreFinite`); that the near-duplicate window is
not longer than the minute of the hash (`WindowIsAtMostAMinute`; both are 60 seconds in
the code); that the rows a behaviour starts with are told apart by their ids
(`ScenariosAreTables`) and its messages are messages (`ScenariosAreStarts`). Three are
about the vendors, not about the code, and only the theorems about values use them:
a shot's JSON, in each format it is sent in, says what was measured, in whatever of
the fields and units there are (`BodiesTellTheTruth`); it has the agreed fields unless
the shot is listed as ill (`OthersAreIll`); and in one scenario two shots differ in
when or by whom they were hit or in what was measured, and have ids of their own where
the vendor gives ids
(`ShotsAreToldApart`: without it nobody could tell two shots from one sent twice).
None of them bounds a number: values out of every range are covered. TLC evaluates
the assumptions on the instance of each run.

**ShotPipeline.** Three inductive invariants, each proved from those before it.

- `TypeInv`: types, and that a job and a slot carry a shot of their own key.
- `ProcessInv`: `OneShotPerKey`, `OriginsAreNear` and `CompletedIsStored` are not
  inductive. What makes them so is `OneInserter` (of all executions of a job,
  zombies included, only the one that inserted the shot is past the upsert),
  `InserterDecides` (until that one flags the shot, nobody has) and `DoneIsKnown`.
- `OutboxInv`: `EventIffStored` and `EventsNameTheFlag` with `DisjointClaims` (no row
  is in two batches), `BatchesAreRows` (what a publisher holds is in the table, what it
  will delete was emitted with the label it still has) and `RowsNameTheFlag` (a row names the flag or nothing, and not nothing
  any more once listeners saw a flag).

From them: `TypesHold`, `StoredOncePerKey`, `FlagsAreNear`, `CompletedJobsAreStored`,
`EventsMatchShots`, `EventLabelsAreTrue`, the action properties `FlagsAreFinal`,
`LabelsStay` and `RowsLeaveSeen`, and the refinement
`PipelineImplementsLedger`: `UpsertIfNew` maps to `Enter` or a stutter,
`FlagDuplicate` to `MarkDuplicate`, `EmitBatch` to `Announce`, all else to a stutter.

`EarlierTwinsAreFound` is a step property of `SearchOrigin`: a search that ends
without an origin has no stored twin from before. It needs that an instant within a
window before another lies in the same minute or the one before (`EarlierBucket`),
and that of a set of instants one is the first (`LeastNatural`).

**IngestQueue.** Two inductive invariants.

- `JobsInv`: every job `Fits`, that is, its starts are its failed attempts, its
  stalls and the attempt under way. Zombies are why it cannot be said of slots: a
  start is counted when the job is taken, whoever holds it afterwards. Hence
  `QueueIsTyped` and `StartsHaveABound`.
- `SerialInv`, with `PhaseInv`: as long as requests have followed each other, one is
  in flight, and what waits together with the shots it has still to add fits into
  the queue. `DepthIsKept` and `RefusalIsWhole` are not inductive without it: each
  `AddShot` makes use of a count that is no longer true, and it is the room kept for
  the whole batch that the count stood for. Hence `QueueKeepsItsDepth` and
  `RefusalsAreWhole`.

**IdentityLink.** Four inductive invariants.

- `TypeOK`.
- `UserInv`: `UserCacheIsFresh` needs `ShotsCarryTheMapping` (what a shot read and
  has not used is what the table has, or its user is in `missed`), which needs
  `LatestWrote` (a new request is nobody's latest, so a commit makes one user, and
  only that user, one being evicted).
- `ListInv`: `ListCacheIsFresh` with `ReadsAreFresh`, the same for rows read.
- `OwnerInv`: `OrphansWereMissed` with `OwnersAreStored`; it uses `UserInv` at the
  INSERT.

From them: `IdentityTypes`, `UserCacheFresh`, `ListCacheFresh`, `Orphans`,
`OwnersStay`.

**ApiGateway.** `GateInv`, the conjunction of what holds together:

- `MessagesInv` and `AnswersInv`: what is on the wire was sent from the scenario,
  signed when it was sent; an answer other than 401 and 429 was given by a guard
  that admitted, in an environment that `ValidInv` says was valid when a process
  listened. Hence `TypesAreKept` and `NobodyGetsIn`.
- `SchemaInv`: what a process has behind it in the list of migrations is there, and
  nobody takes away again anything but the index that 003 drops. Hence
  `SchemaIsThere`.

**VendorContract.** No state: theorems about one payload, for any numbers in it.

- `TrackproIsRead`, `SwingmetricIsRead`, `ProswingIsRead`: what has the fields of a
  schema is parsed to a row that says what the JSON says, under the key of the shot.
  The factors of the code agree with the definitions of the units (`FactorsAreSizes`);
  a club is normalised to what its spelling means, or to UNKNOWN if only the seed of
  the aliases has the spelling (`MayRead`); `normaliseShot` renames what has an
  old name and leaves the rest; each version of ProSwing ends in the same reading,
  and the variant `fromV2` takes first is the one that counts.
- `TrackproIsAccepted`, `SwingmetricIsAccepted`, `V1IsAccepted`, `V2IsAccepted`,
  `V3IsAccepted`: what is agreed and plausible is in the ranges of its schema, in
  each unit: integer arithmetic about the edges of every range. Versions 1 and 3 need the
  exception `FarInFeet`, and version 2 needs that a field that does not count is the
  one that does, rounded: otherwise it could be out of its own range.

**ApiGateway, values.** `ValueInv`, in `ApiValues_proofs`:

- `TrafficInv`: what is on the wire is a message of the scenario, but for its stamp.
- `RowsInv`: each row in the queue, in the table or among the failed ones was parsed
  from a delivery that the pipe let through; what failed cannot be stored; rows in the
  table differ in vendor or key.
- `KeysInv`: whatever key the queue holds is that of a row in the queue, in the table
  or among the failed ones. So what `queue.add` ignores has its key's row somewhere,
  whatever `Expire` has forgotten.
- `ExplainedInv`: why an answer has its status; and, after a 202, that the keys of all
  its shots are there. Of the rows of one batch that share a key the first is queued
  (`NewJobsCover`, which needs that a set of positions has a least one).

With the theorems about payloads (`RowIsRead`, `RefusedIsKnown`), with the CHECKs of
the table against `Believable` (`PlausibleIsStorable`: 119 m/s passes, 120 m/s, which
the schema of TrackPro accepts, does not), and with keys that tell shots apart,
doubles and identifiers that join alike excepted (`KeysTellApart`), they give `OneRow`,
`AcceptedAreQueued`, `PlausibleAreStored`, `PlausibleAreAccepted` and `ServerErrors`.
`WindowInv` adds where each row came from: a payload that was in the window as a
whole. Hence `WindowKept`.

**UserApi.** Two inductive invariants.

- `IdemInv`: `EarnInv` (what is cached or about to be was earned by a success with
  that path and key), `FateInv` (a success is about to be cached, cached, or its key
  is among the faulty ones) and `SecondInv` (`SecondRunIsExplained` from the start of
  a handler on, as it is decided at the lookup). Hence `ReplaysEarned` and
  `SecondRunsExplained`.
- `ListInv`: `TableInv` (rows have an id of their own and keep their place in the
  order) and `WalkInv` (what was shown is not past the cursor, and what is steady
  and was not shown is). Hence `NothingTwice` and `WalksAreComplete`, for any table,
  any limit and any number of changes between two pages.
- `QueryInv`, in `ShotQueries_proofs`: what was answered, and why it was a 500. Hence,
  with the two others, `PortalIsTyped` and `QueryErrorsKnown`. `StatisticsAgree` is a
  step property of `GetStats`: the newest rows up to the cap are all there are, or
  fewer than the listing has; a club has as many samples as the listing has shots of
  it.

The strengthenings were checked by TLC on the instances above before they were
proved; the runs do not repeat them.

*Model-checked only:* liveness (`KeepsLedgerPromise`, `JobIsSettled`,
`CachesConverge`, `WalksEnd`), which needs fairness and `ENABLED`, out of reach of the
provers used here; and the six violations, which are counterexamples. Every invariant
and every action property of the passing runs is a theorem.

## 5. What is left out, and why

- Clock skew in `process`: each webhook refuses a skewed shot (422) by the same
  `receivedAtUtc`, so that no job reaches the branch; `recordIngestionFailure` goes
  with it.
- In `ShotPipeline`, payloads and the hash function: a shot is its key, the instant
  it was captured, and the class of everything else the hash tells apart. Keys are
  values there and in `IngestQueue`; how they come to be is `ApiGateway`'s. The hash
  stands for its fields: the search asks for the vendor user beside the hash, and no
  other field can have the separator in it.
- In `ApiGateway`, floating-point rounding (conversions are whole factors), explicit
  nulls, the player's email, and the texts that regular expressions match beyond
  their length and form. Texts of payloads are such as PostgreSQL can store; one with
  a NUL fails in the worker.
- Means, deviations and percentiles of the statistics: arithmetic on floating-point
  numbers. Their sample sizes and exclusions are modelled.
- The statement splitter of the migrations: a scan of the characters of fixed files.
- Headers, compression, CORS, body parsing, graceful shutdown; settings that are
  only passed on.
- An idempotency key that is used again with another body replays the first answer
  (`r4` in `MCUserApi`); nothing in the repository says it should not.
- Audit entries: those of link and unlink are part of their transaction; those of
  list are fire-and-forget.
- Metrics, logs, traces, redaction, OpenAPI, health: nothing reads them.
- `BATCH_SIZE` poisoned events at the head of the outbox keep newer ones from being
  published. `KeepsLedgerPromise` is checked below that number; it is listed under
  the hazards.

Some properties name an exception, where the code does something that no text of the
repository excludes, or that it does against one:

- `FarInFeet`: a nested distance in feet has the range of metres.
- `MayRead`: a spelling that only the seed of `club_aliases` has (`7-iron`, `iron 7`,
  `putt`) is stored as `UNKNOWN`, since `ALIAS_MAP` is what is read, though
  `002_club_data.sql` says the aliases are not hardcoded; and `constructor` as a club
  is lost on the way (`ClubIsReadable`).
- `JoinsAlike`: two players or devices whose identifiers give one text when they are
  joined by `|` share a key, and the second shot is lost after its 202.
- `Believable`: the values between what is plausible and the bounds of the schemas may
  fail after their 202.
- 500 (`ServerErrorsAreKnown`, `QueryErrorsAreKnown`), while Redis and the database
  answer: a time that no `Date` holds, and a job id whose colons BullMQ refuses; a
  window in a year that PostgreSQL does not read, a user id with a NUL, a cursor of no
  timestamp or id, a limit below -1, and for the statistics an empty club.
- Limits below one (`WalkIsComplete`), and `capped` with exactly as many rows as the
  cap (`StatsAgreeWithListing`).

Each is a hazard in `PROJECT.json`.

## 6. Plan

Done: the pipeline with its ledger, the queue with backpressure, identities, the
gateway from the environment to the table, and the portal with pages, statistics and
the response cache; the proofs of section 4. To come, in this order:

1. A reference definition of the near-duplicate pairs, against what `Twins` finds in
   every order of processing: which pairs across the end of a minute are missed.
2. `UserApi` over `IdentityLink`: owners of the listed shots through the caches.
3. The percentiles over rationals against a definition; the statement splitter as a
   recursive function against a definition of statements.
