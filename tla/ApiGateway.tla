------------------------------- MODULE ApiGateway ------------------------------
(***************************************************************************)
(* The API from its start to its answers. A webhook delivery goes through  *)
(* the throttler, the guard, the vendor's schema, its parser and the       *)
(* clock-skew check to the queue, and from there to the table. Vendors     *)
(* send a shot in any wire format they have, repeat it, and messages stay  *)
(* on the wire: any of them may be delivered again. A query of the portal  *)
(* passes the internal guard.                                              *)
(***************************************************************************)
EXTENDS Startup, VendorContract, ErrorMapping, FiniteSets, Sequences

CONSTANTS
    Shot,           \* what devices measured
    Truth,          \* Truth[s]: the vendor, the player, the instant, the club
                    \* and the measures of shot s, in the units of the table
    DeviceOf,       \* [Shot -> Text]: the device that measured it
    IdOf,           \* [Shot -> Text]: the id the vendor gives it
    Body,           \* Body[s]: [wire formats shot s is sent in -> its JSON]
    Ill,            \* shots whose JSON is not what the vendor agreed to send
    Scenario,       \* environments, with what happens in them
    MaxPast,        \* 24 hours
    MaxFuture,      \* 5 minutes
    ReplayWindow,   \* 300 seconds
    MaxClock,       \* bound: the clock stops there
    MaxMessages,    \* bound: messages on the wire
    MaxAnswers      \* bound: answers that differ in what they say, to what, or when

ASSUME WindowsAreNumbers == {MaxPast, MaxFuture, ReplayWindow} \subseteq Nat
ASSUME BoundsAreNumbers == {MaxClock, MaxMessages, MaxAnswers} \subseteq Nat

VARIABLES
    traffic,    \* the messages there are to send
    clock,
    wire,       \* messages sent so far
    jobs,       \* rows that wait in the queue
    kept,       \* keys of finished jobs that the queue still holds
    table,      \* rows of the shots table, in the order they came
    failed,     \* rows whose job has failed for good
    answers     \* what was answered, to what and when

apiVars == <<traffic, clock, wire, jobs, kept, table, failed, answers>>
vars == <<startVars, apiVars>>

\* A message: its wire format ("query": a request of the portal), the shots in
\* it (several in one SwingMetric payload), the credential it shows, and, for a
\* signed one, the time it was signed at.
VendorOf ==
    [tp |-> "trackpro", sm1 |-> "swingmetric", sm2 |-> "swingmetric",
     ps1 |-> "proswing", ps2 |-> "proswing", ps3 |-> "proswing"]

ShotsOf(messages) == UNION {{m.shots[i] : i \in DOMAIN m.shots} : m \in messages}

\* What happens in a scenario: messages of these kinds, in an environment.
ASSUME ScenariosAreStarts ==
    \A sc \in Scenario :
        /\ sc.env \in Environment
        /\ sc.clock \in 0 .. MaxClock
        /\ \A m \in sc.traffic :
              /\ m = [field \in DOMAIN m |-> m[field]]
              /\ {"format", "shots", "cred", "stamp"} \subseteq DOMAIN m
              /\ m.format \in DOMAIN VendorOf \cup {"query"}
              /\ m.stamp \in Int
              /\ m.shots \in Seq(Shot)
              /\ m.format # "query" =>
                    \A i \in DOMAIN m.shots : m.format \in DOMAIN Body[m.shots[i]]

\* What the vendors' devices measured, and what their JSON says of it.
ASSUME ShotsAreMeasured ==
    Truth \in [Shot -> Measurement] /\ {DeviceOf, IdOf} \subseteq [Shot -> Text]
ASSUME BodiesTellTheTruth ==
    \A s \in Shot : \A f \in DOMAIN Body[s] :
        /\ f \in DOMAIN VendorOf /\ VendorOf[f] = Truth[s].vendor
        /\ IsAbout(Body[s][f], Truth[s], DeviceOf[s], IdOf[s])
ASSUME OthersAreIll ==
    \A s \in Shot \ Ill : \A f \in DOMAIN Body[s] : Agreed(f, Body[s][f], Truth[s])

\* Two shots in one scenario differ in when they were hit, by whom, or in what was
\* measured, and a vendor gives them different ids: TrackPro among all shots,
\* ProSwing among those of a player.
ASSUME ShotsAreToldApart ==
    \A sc \in Scenario : \A s, t \in ShotsOf(sc.traffic) :
        /\ (\A f \in {"vendor", "user", "at", "measures"} : Truth[s][f] = Truth[t][f])
           => s = t
        /\ /\ Truth[s].vendor = Truth[t].vendor
           /\ \/ Truth[s].vendor = "trackpro"
              \/ Truth[s].vendor = "proswing" /\ Truth[s].user = Truth[t].user
           /\ IdOf[s] = IdOf[t]
           => s = t

Abs(n) == IF n < 0 THEN -n ELSE n

-----------------------------------------------------------------------------
(* What the handlers are made of.                                          *)

\* WebhookAuthGuard
GuardAdmits(m) ==
    \/ env.mode = "none"
    \/ /\ env.mode = "api_key"
       /\ env.secret[VendorOf[m.format]] # "unset"
       /\ m.cred = "right"
    \/ /\ env.mode = "hmac"
       /\ env.secret[VendorOf[m.format]] # "unset"
       /\ Abs(clock - m.stamp) <= ReplayWindow
       /\ m.cred = "right"

\* InternalApiGuard
InternalAdmits(m) == env.internalKey = "unset" \/ m.cred = "right"

Json(m, i) == Body[m.shots[i]][m.format]

\* The validation pipe of the vendor's route.
WellFormed(m) ==
    \A i \in DOMAIN m.shots :
        CASE VendorOf[m.format] = "trackpro" -> AcceptsTrackpro(Json(m, i))
          [] VendorOf[m.format] = "swingmetric" ->
                Accepts(SwingmetricSchema, NormaliseShot(Json(m, i)))
          [] OTHER -> AcceptsProswing(Json(m, i))

RowOf(m, i) ==
    CASE VendorOf[m.format] = "trackpro" -> ParseTrackpro(Json(m, i))
      [] VendorOf[m.format] = "swingmetric" ->
            ParseSwingmetric(NormaliseShot(Json(m, i)))
      [] OTHER -> ParseProswing(Json(m, i))

Rows(m) == [i \in DOMAIN m.shots |-> RowOf(m, i)]

HasExcessiveClockSkew(row) ==
    row.at - clock > MaxFuture \/ row.at - clock < - MaxPast

KeysInQueue == {j.key : j \in jobs} \cup kept

\* BullMQ takes a jobId with a colon only if it splits at colons into three.
JobIdIsRefused(row) == Colons(row.key.ids) \notin {0, 2}

\* queue.add of rows, one after the other: a key that the queue holds is
\* ignored, the job that has it is returned.
NewJobs(rows) ==
    {rows[i] : i \in {k \in DOMAIN rows :
        /\ ~ JobIdIsRefused(rows[k])
        /\ rows[k].key \notin KeysInQueue
        /\ \A h \in 1 .. (k - 1) : rows[h].key # rows[k].key}}

\* The answer to m. "broken": a command to Redis was rejected in between.
Answer(m, problem, broken) ==
    answers' = answers \cup {[to |-> m, at |-> clock, status |-> problem.status,
                              code |-> problem.code, broken |-> broken]}

\* Nothing but the answer.
Refuse(m, exception) ==
    /\ Answer(m, Catch(exception), FALSE)
    /\ UNCHANGED <<traffic, clock, wire, jobs, kept, table, failed, startVars>>

Arrives(p, m) == boot[p] = "up" /\ m \in wire /\ Cardinality(answers) < MaxAnswers
Webhook(p, m) == Arrives(p, m) /\ m.format # "query"
Admitted(p, m) == Webhook(p, m) /\ GuardAdmits(m)
Parsed(p, m) ==
    Admitted(p, m) /\ WellFormed(m) /\ \A i \in DOMAIN m.shots : DateExists(RowOf(m, i))

-----------------------------------------------------------------------------
(* The requests.                                                           *)

\* ThrottlerGuard comes first.
Throttled(p, m) ==
    /\ Arrives(p, m)
    /\ env.throttle
    /\ Refuse(m, Http(429))

Unauthorised(p, m) ==
    /\ Webhook(p, m)
    /\ ~ GuardAdmits(m)
    /\ Refuse(m, UnauthorizedException)

Malformed(p, m) ==
    /\ Admitted(p, m)
    /\ ~ WellFormed(m)
    /\ Refuse(m, PayloadValidationFailed)

\* toISOString of a ts_ms that no Date holds: a RangeError of the parser.
Unparsable(p, m) ==
    /\ Admitted(p, m)
    /\ WellFormed(m)
    /\ \E i \in DOMAIN m.shots : ~ DateExists(RowOf(m, i))
    /\ Refuse(m, Unhandled)

\* Mutant: the shots in order are queued before the others are found.
SkewedIsFiltered(p, m) ==
    /\ Parsed(p, m)
    /\ \E i \in DOMAIN m.shots : HasExcessiveClockSkew(RowOf(m, i))
    /\ Answer(m, Catch(HttpCoded(422, "CLOCK_SKEW_EXCESSIVE", 0)), FALSE)
    /\ jobs' = jobs \cup {j \in NewJobs(Rows(m)) : ~ HasExcessiveClockSkew(j)}
    /\ UNCHANGED <<traffic, clock, wire, kept, table, failed, startVars>>

\* One shot out of the window refuses the payload.
Skewed(p, m) ==
    /\ Parsed(p, m)
    /\ \E i \in DOMAIN m.shots : HasExcessiveClockSkew(RowOf(m, i))
    /\ Refuse(m, HttpCoded(422, "CLOCK_SKEW_EXCESSIVE", 0))

InWindow(p, m) ==
    Parsed(p, m) /\ \A i \in DOMAIN m.shots : ~ HasExcessiveClockSkew(RowOf(m, i))

Accept(p, m) ==
    /\ InWindow(p, m)
    /\ \A i \in DOMAIN m.shots : ~ JobIdIsRefused(RowOf(m, i))
    /\ jobs' = jobs \cup NewJobs(Rows(m))
    /\ Answer(m, Problem(202, "", 0), FALSE)
    /\ UNCHANGED <<traffic, clock, wire, kept, table, failed, startVars>>

\* The queue is at capacity, for all shots of a payload or, when others fill it
\* meanwhile, for some.
QueueIsFull(p, m) ==
    /\ InWindow(p, m)
    /\ \E some \in SUBSET NewJobs(Rows(m)) : jobs' = jobs \cup some
    /\ Answer(m, Catch(HttpCoded(503, "SERVICE_UNAVAILABLE", 30)), FALSE)
    /\ UNCHANGED <<traffic, clock, wire, kept, table, failed, startVars>>

\* queue.add throws at an id, whenever the shot is sent; other shots of the payload
\* may be queued.
IdIsRefused(p, m) ==
    /\ InWindow(p, m)
    /\ \E i \in DOMAIN m.shots : JobIdIsRefused(RowOf(m, i))
    /\ \E some \in SUBSET NewJobs(Rows(m)) : jobs' = jobs \cup some
    /\ Answer(m, Catch(Unhandled), FALSE)
    /\ UNCHANGED <<traffic, clock, wire, kept, table, failed, startVars>>

\* A command to Redis is rejected; some shots may be queued.
QueueBreaks(p, m) ==
    /\ InWindow(p, m)
    /\ \E some \in SUBSET NewJobs(Rows(m)) : jobs' = jobs \cup some
    /\ Answer(m, Catch(Unhandled), TRUE)
    /\ UNCHANGED <<traffic, clock, wire, kept, table, failed, startVars>>

\* A query of the portal: answered, or refused by the guard.
Query(p, m) ==
    /\ Arrives(p, m)
    /\ m.format = "query"
    /\ IF InternalAdmits(m)
         THEN /\ Answer(m, Problem(200, "", 0), FALSE)
              /\ UNCHANGED <<traffic, clock, wire, jobs, kept, table, failed, startVars>>
         ELSE Refuse(m, UnauthorizedException)

Handle(p, m) ==
    \/ Throttled(p, m) \/ Unauthorised(p, m) \/ Malformed(p, m)
    \/ Unparsable(p, m) \/ Skewed(p, m) \/ Accept(p, m)
    \/ QueueIsFull(p, m) \/ IdIsRefused(p, m) \/ QueueBreaks(p, m) \/ Query(p, m)

-----------------------------------------------------------------------------
(* The vendors, the worker and time.                                       *)

\* A message is sent; where the receiver wants a signature, it is signed then.
Send(m) ==
    /\ m \in traffic
    /\ Cardinality(wire) < MaxMessages
    /\ wire' = wire \cup {[m EXCEPT !.stamp = IF env.mode = "hmac" THEN clock ELSE @]}
    /\ UNCHANGED <<traffic, clock, jobs, kept, table, failed, answers, startVars>>

Tick ==
    /\ clock < MaxClock
    /\ clock' = clock + 1
    /\ UNCHANGED <<traffic, wire, jobs, kept, table, failed, answers, startVars>>

KeyStored(row) ==
    \E i \in DOMAIN table : table[i].vendor = row.vendor /\ table[i].key = row.key

\* Mutant: the INSERT has no ON CONFLICT.
ProcessUnconditionally(j) ==
    /\ j \in jobs
    /\ jobs' = jobs \ {j}
    /\ kept' = kept \cup {j.key}
    /\ \/ Storable(j) /\ table' = Append(table, j) /\ UNCHANGED failed
       \/ ~ Storable(j) /\ failed' = failed \cup {j} /\ UNCHANGED table
    /\ UNCHANGED <<traffic, clock, wire, answers, startVars>>

\* A job, through all its attempts: the CHECKs come before ON CONFLICT.
Process(j) ==
    /\ j \in jobs
    /\ jobs' = jobs \ {j}
    /\ kept' = kept \cup {j.key}
    /\ \/ /\ Storable(j) /\ KeyStored(j)
          /\ UNCHANGED <<table, failed>>
       \/ /\ Storable(j) /\ ~ KeyStored(j)
          /\ table' = Append(table, j)
          /\ UNCHANGED failed
       \/ /\ ~ Storable(j)
          /\ failed' = failed \cup {j}
          /\ UNCHANGED table
    /\ UNCHANGED <<traffic, clock, wire, answers, startVars>>

\* removeOnComplete, removeOnFail: after days the queue forgets a job.
Expire(k) ==
    /\ k \in kept
    /\ kept' = kept \ {k}
    /\ UNCHANGED <<traffic, clock, wire, jobs, table, failed, answers, startVars>>

Boot(p) ==
    /\ \/ Start(p) \/ Migrate(p) \/ BuildIndex(p) \/ EndBuild(p) \/ Listen(p)
       \/ Crash(p)
    /\ UNCHANGED apiVars

Init ==
    /\ \E sc \in Scenario :
          /\ env = sc.env
          /\ traffic = sc.traffic
          /\ clock = sc.clock
          /\ boot = [p \in Api |-> IF p \in sc.starts THEN "down" ELSE "exited"]
          /\ schema = [o \in SchemaObject |->
                          IF sc.deployed /\ o # "by_user" THEN "valid" ELSE "absent"]
    /\ next = [p \in Api |-> 1]
    /\ wire = {} /\ jobs = {} /\ kept = {} /\ table = <<>> /\ failed = {} /\ answers = {}

Next ==
    \/ \E p \in Api : Boot(p)
    \/ \E p \in Api, m \in wire : Handle(p, m)
    \/ \E m \in traffic : Send(m)
    \/ \E j \in jobs : Process(j)
    \/ \E k \in kept : Expire(k)
    \/ Tick

Spec == Init /\ [][Next]_vars

-----------------------------------------------------------------------------
(* Properties.                                                             *)

\* Types: in particular, what the filter answers is a status the documented API
\* has, and no process looks beyond its migrations.
TypeOK ==
    /\ env \in Environment
    /\ boot \in [Api -> {"down", "exited", "migrating", "building", "up"}]
    /\ next \in [Api -> 1 .. (Len(Migrations) + 1)]
    /\ schema \in [SchemaObject -> ObjectState]
    /\ clock \in 0 .. MaxClock
    /\ \A a \in answers :
          a.status \in {200, 202, 400, 401, 422, 429, 500, 503} /\ a.to \in wire

\* No environment that validate lets through in production leaves a way in:
\* without the right credential, signed within the replay window and of a vendor
\* whose secret is long, a request gets no answer but 401 or 429.
ProductionIsClosed ==
    env.production => \A a \in answers : a.status \notin {401, 429} =>
        /\ a.to.cred = "right"
        /\ IF a.to.format = "query" THEN env.internalKey = "long"
           ELSE /\ env.secret[VendorOf[a.to.format]] = "long"
                /\ env.mode = "hmac" => a.at - a.to.stamp <= ReplayWindow

ShotsSent == ShotsOf(wire)

SpellingsOf(s) == UNION {SpellingsIn(Body[s][f]) : f \in DOMAIN Body[s]}

\* The row says what the device measured, and the club, unless only the seed of
\* club_aliases has its spelling.
Tells(row, s) ==
    /\ row.vendor = Truth[s].vendor /\ row.user = Truth[s].user
    /\ row.at = Truth[s].at /\ row.measures = Truth[s].measures
    /\ MayRead(row.club, Truth[s].club, SpellingsOf(s))

\* The name of a member that every JavaScript object has is read as no club.
ClubIsReadable(s) == \A spelling \in SpellingsOf(s) : spelling.form # "inherited"

\* SwingMetric's double emit: one player and one device, in one second. The
\* parser means the two shots to share a key.
DoubleEmit(s, t) ==
    /\ Truth[s].vendor = "swingmetric" /\ Truth[t].vendor = "swingmetric"
    /\ Truth[s].user = Truth[t].user
    /\ DeviceOf[s] = DeviceOf[t]
    /\ Truth[s].at \div Second = Truth[t].at \div Second

\* What a key shows of the identifiers of a shot.
IdsInKey(s) ==
    IF Truth[s].vendor = "trackpro" THEN PartsOf[IdOf[s]]
    ELSE PartsOf[Truth[s].user]
         \o PartsOf[IF Truth[s].vendor = "swingmetric" THEN DeviceOf[s] ELSE IdOf[s]]

\* Identifiers of two users that are not the same but read the same when they are
\* joined by "|", in SwingMetric within one second: the second shot is lost.
JoinsAlike(s, t) ==
    /\ Truth[s].vendor = Truth[t].vendor /\ Truth[s].vendor # "trackpro"
    /\ Truth[s].user # Truth[t].user
    /\ IdsInKey(s) = IdsInKey(t)
    /\ Truth[s].vendor = "swingmetric" =>
          Truth[s].at \div Second = Truth[t].at \div Second

Seen == jobs \cup failed \cup {table[i] : i \in DOMAIN table}

\* A shot that was answered 202 is in the queue, in the table or among the failed
\* jobs as it was measured, whatever format, unit and spelling it came in: or its
\* double is, or one whose identifiers make the same key once they are joined. No
\* other shot has taken its key.
AcceptedShotsAreQueued ==
    \A a \in answers : a.status = 202 => \A i \in DOMAIN a.to.shots :
        LET s == a.to.shots[i]
        IN  \E t \in {s} \cup {u \in ShotsSent : DoubleEmit(s, u) \/ JoinsAlike(s, u)} :
                \E row \in Seen : Tells(row, t)

\* A shot has one row, however often, in whatever formats and through whatever
\* processes it came, and though the queue forgets its keys.
OneRowPerShot ==
    \A i, j \in DOMAIN table : \A s \in ShotsSent :
        Tells(table[i], s) /\ Tells(table[j], s) => i = j

Plausible(s) == IsPlausible(Truth[s])

\* What the schemas let in and the CHECKs of the table keep out is implausible:
\* a plausible shot in a unit of its vendor never fails after its 202.
PlausibleShotsAreStored ==
    \A row \in failed, s \in ShotsSent :
        Tells(row, s) /\ ClubIsReadable(s) => ~ Plausible(s)

\* 400 is for shots that are implausible, far in feet, or not what was agreed.
PlausibleShotsAreAccepted ==
    \A a \in answers : a.status = 400 =>
        \E i \in DOMAIN a.to.shots :
            a.to.shots[i] \in Ill \/ ~ Plausible(a.to.shots[i]) \/ FarInFeet(Json(a.to, i))

\* A webhook answers 500 for a rejected Redis command, for a time that no Date
\* holds, and for identifiers with a number of colons that BullMQ does not take.
ServerErrorsAreKnown ==
    \A a \in answers : a.status = 500 =>
        \/ a.broken
        \/ \E i \in DOMAIN a.to.shots :
              LET s == a.to.shots[i]
              IN  \/ Truth[s].at > LastInstant
                  \/ Colons(IdsInKey(s)) \notin {0, 2}

Timely(s, at) == Truth[s].at - at \in -MaxPast .. MaxFuture

\* 422 is for a payload with a shot that was out of the window when it came; and
\* whatever the pipeline has came in a payload of which every shot was in it: one
\* shot out of the window leaves nothing of its payload behind.
WindowIsKept ==
    /\ \A a \in answers : a.status = 422 =>
          \E i \in DOMAIN a.to.shots : ~ Timely(a.to.shots[i], a.at)
    /\ \A row \in Seen : \E a \in answers :
          /\ a.status \in {202, 500, 503}
          /\ \E i \in DOMAIN a.to.shots : Tells(row, a.to.shots[i])
          /\ \A i \in DOMAIN a.to.shots : Timely(a.to.shots[i], a.at)

\* A process that was to migrate answers only with the tables and the unique
\* index that ON CONFLICT needs, whichever processes migrated and died before.
ServedSchemaIsComplete ==
    env.migrate => \A p \in Api : boot[p] = "up" =>
        \A o \in {"shots", "shots_key", "user_identities"} : schema[o] = "valid"

=============================================================================
