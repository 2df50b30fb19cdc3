--------------------------- MODULE ApiGateway_proofs ---------------------------
(***************************************************************************)
(* Theorems about ApiGateway, for any vendors' shots, any messages, any    *)
(* environment and any number of processes: what it answers, to whom, and  *)
(* the schema it answers with.                                             *)
(***************************************************************************)
EXTENDS ApiGateway, TLAPS

-----------------------------------------------------------------------------
(* Answers.                                                                *)

\* A message that can be sent.
IsMessage(m) ==
    /\ m = [field \in DOMAIN m |-> m[field]]
    /\ {"format", "shots", "cred", "stamp"} \subseteq DOMAIN m
    /\ m.format \in DOMAIN VendorOf \cup {"query"}
    /\ m.stamp \in Int

\* The status of each exception.
LEMMA Statuses ==
    /\ Catch(Http(429)).status = 429
    /\ Catch(UnauthorizedException).status = 401
    /\ Catch(PayloadValidationFailed).status = 400
    /\ Catch(Unhandled).status = 500
    /\ Catch(HttpCoded(422, "CLOCK_SKEW_EXCESSIVE", 0)).status = 422
    /\ Catch(HttpCoded(503, "SERVICE_UNAVAILABLE", 30)).status = 503
    /\ Problem(200, "", 0).status = 200
    /\ Problem(202, "", 0).status = 202
BY DEF Catch, Http, HttpCoded, UnauthorizedException, PayloadValidationFailed, Unhandled,
   Problem

\* Who is let in.
LetIn(m) == IF m.format = "query" THEN InternalAdmits(m) ELSE GuardAdmits(m)

\* An answer to m is given, with this status.
Gives(m, status) ==
    \E a : answers' = answers \cup {a} /\ a.to = m /\ a.at = clock /\ a.status = status

\* Answer gives one.
LEMMA AnswerGives ==
  ASSUME NEW m, NEW problem, NEW broken, Answer(m, problem, broken)
  PROVE  Gives(m, problem.status)
<1> DEFINE a == [to |-> m, at |-> clock, status |-> problem.status,
                 code |-> problem.code, broken |-> broken]
<1>1. answers' = answers \cup {a}
  BY DEF Answer
<1>2. a.to = m /\ a.at = clock /\ a.status = problem.status
  BY Zenon
<1> HIDE DEF a
<1> QED
  BY <1>1, <1>2 DEF Gives

\* What a handler leaves alone, whatever it answers.
Quiet == UNCHANGED <<wire, traffic, clock, env, boot, next, schema>>

\* Refuse gives one, and changes nothing else.
LEMMA RefuseGives ==
  ASSUME NEW m, NEW exception, Refuse(m, exception)
  PROVE  Gives(m, Catch(exception).status) /\ Quiet
<1>1. Answer(m, Catch(exception), FALSE)
  BY DEF Refuse
<1>2. Quiet
  BY DEF Refuse, Quiet, startVars
<1> QED
  BY <1>1, <1>2, AnswerGives

\* What comes of a request: a status but 401 and 429 is for those who are
\* let in.
Outcome(m, status) ==
    /\ Gives(m, status)
    /\ status \notin {401, 429} => LetIn(m)
    /\ Quiet

\* The statuses there are.
Status == {200, 202, 400, 401, 422, 429, 500, 503}

\* A refusal by the throttler or a guard.
LEMMA TurnedAway ==
  ASSUME NEW m, NEW exception, Refuse(m, exception),
         Catch(exception).status \in {401, 429}
  PROVE  \E status \in Status : Outcome(m, status)
<1>1. Catch(exception).status \in Status
  BY DEF Status
<1> QED
  BY <1>1, RefuseGives DEF Outcome

\* Those of the refusals after the guard are documented ones.
LEMMA RefusalsAreStatuses ==
    /\ Catch(PayloadValidationFailed).status \in Status
    /\ Catch(Unhandled).status \in Status
    /\ Catch(HttpCoded(422, "CLOCK_SKEW_EXCESSIVE", 0)).status \in Status
<1>1. /\ Catch(PayloadValidationFailed).status = 400
      /\ Catch(Unhandled).status = 500
      /\ Catch(HttpCoded(422, "CLOCK_SKEW_EXCESSIVE", 0)).status = 422
  BY Statuses, Zenon
<1>2. 400 \in Status /\ 500 \in Status /\ 422 \in Status
  BY DEF Status
<1> QED
  BY <1>1, <1>2, Zenon

\* A refusal of those who were let in.
LEMMA TurnedDown ==
  ASSUME NEW m, NEW exception, Refuse(m, exception), LetIn(m),
         Catch(exception).status \in Status
  PROVE  \E status \in Status : Outcome(m, status)
BY RefuseGives DEF Outcome

\* Another answer to those who were let in.
LEMMA LetThrough ==
  ASSUME NEW m, NEW problem, NEW broken, Answer(m, problem, broken), Quiet, LetIn(m),
         problem.status \in {200, 202, 500, 503}
  PROVE  \E status \in Status : Outcome(m, status)
<1>1. problem.status \in Status
  BY DEF Status
<1>2. Gives(m, problem.status)
  BY AnswerGives
<1> QED
  BY <1>1, <1>2 DEF Outcome

\* The handlers, by what comes of them.
LEMMA HandlersAnswer ==
  ASSUME NEW p \in Api, NEW m \in wire, Handle(p, m)
  PROVE  \E status \in Status : Outcome(m, status)
<1>1. CASE Throttled(p, m)
  <2>1. Refuse(m, Http(429))
    BY <1>1 DEF Throttled
  <2> QED
    BY <2>1, TurnedAway, Statuses
<1>2. CASE Unauthorised(p, m)
  <2>1. Refuse(m, UnauthorizedException)
    BY <1>2 DEF Unauthorised
  <2> QED
    BY <2>1, TurnedAway, Statuses
<1>3. CASE Malformed(p, m)
  <2>1. Refuse(m, PayloadValidationFailed) /\ LetIn(m)
    BY <1>3 DEF Malformed, Admitted, Webhook, LetIn
  <2>2. Catch(PayloadValidationFailed).status \in Status
    BY RefusalsAreStatuses, Zenon
  <2> QED
    BY <2>1, <2>2, TurnedDown
<1>4. CASE Unparsable(p, m)
  <2>1. Refuse(m, Unhandled) /\ LetIn(m)
    BY <1>4 DEF Unparsable, Admitted, Webhook, LetIn
  <2>2. Catch(Unhandled).status \in Status
    BY RefusalsAreStatuses, Zenon
  <2> QED
    BY <2>1, <2>2, TurnedDown
<1>5. CASE Skewed(p, m)
  <2>1. Refuse(m, HttpCoded(422, "CLOCK_SKEW_EXCESSIVE", 0)) /\ LetIn(m)
    BY <1>5 DEF Skewed, Parsed, Admitted, Webhook, LetIn
  <2>2. Catch(HttpCoded(422, "CLOCK_SKEW_EXCESSIVE", 0)).status \in Status
    BY RefusalsAreStatuses, Zenon
  <2> QED
    BY <2>1, <2>2, TurnedDown
<1>6. CASE Accept(p, m)
  <2>1. Answer(m, Problem(202, "", 0), FALSE)
    BY <1>6 DEF Accept
  <2>2. Quiet
    BY <1>6 DEF Accept, Quiet, startVars
  <2>3. LetIn(m)
    BY <1>6 DEF Accept, InWindow, Parsed, Admitted, Webhook, LetIn
  <2> QED
    BY <2>1, <2>2, <2>3, LetThrough, Statuses
<1>7. CASE QueueIsFull(p, m)
  <2>1. Answer(m, Catch(HttpCoded(503, "SERVICE_UNAVAILABLE", 30)), FALSE)
    BY <1>7 DEF QueueIsFull
  <2>2. Quiet
    BY <1>7 DEF QueueIsFull, Quiet, startVars
  <2>3. LetIn(m)
    BY <1>7 DEF QueueIsFull, InWindow, Parsed, Admitted, Webhook, LetIn
  <2> QED
    BY <2>1, <2>2, <2>3, LetThrough, Statuses
<1>8. CASE QueueBreaks(p, m)
  <2>1. Answer(m, Catch(Unhandled), TRUE)
    BY <1>8 DEF QueueBreaks
  <2>2. Quiet
    BY <1>8 DEF QueueBreaks, Quiet, startVars
  <2>3. LetIn(m)
    BY <1>8 DEF QueueBreaks, InWindow, Parsed, Admitted, Webhook, LetIn
  <2> QED
    BY <2>1, <2>2, <2>3, LetThrough, Statuses
<1>9. CASE Query(p, m) /\ InternalAdmits(m)
  <2>1. Answer(m, Problem(200, "", 0), FALSE)
    BY <1>9 DEF Query
  <2>2. Quiet
    BY <1>9 DEF Query, Quiet, startVars
  <2>3. LetIn(m)
    BY <1>9 DEF Query, LetIn
  <2> QED
    BY <2>1, <2>2, <2>3, LetThrough, Statuses
<1>10. CASE Query(p, m) /\ ~ InternalAdmits(m)
  <2>1. Refuse(m, UnauthorizedException)
    BY <1>10 DEF Query
  <2> QED
    BY <2>1, TurnedAway, Statuses
<1>11. CASE IdIsRefused(p, m)
  <2>1. Answer(m, Catch(Unhandled), FALSE)
    BY <1>11 DEF IdIsRefused
  <2>2. Quiet
    BY <1>11 DEF IdIsRefused, Quiet, startVars
  <2>3. LetIn(m)
    BY <1>11 DEF IdIsRefused, InWindow, Parsed, Admitted, Webhook, LetIn
  <2> QED
    BY <2>1, <2>2, <2>3, LetThrough, Statuses
<1> QED
  BY <1>1, <1>2, <1>3, <1>4, <1>5, <1>6, <1>7, <1>8, <1>9, <1>10, <1>11 DEF Handle

\* No other step answers.
LEMMA OnlyHandlersAnswer ==
  [Next]_vars => UNCHANGED answers \/ \E p \in Api, m \in wire : Handle(p, m)
BY DEF Next, vars, apiVars, Boot, Send, Process, Expire, Tick

-----------------------------------------------------------------------------
(* Starts: the schema a process finds when it listens.                     *)

\* The objects that something reads or writes.
Needed == {"shots", "shots_key", "user_identities"}

\* Where the migrations make them.
MadeBy == [o \in Needed |-> CASE o = "shots" -> 1 [] o = "shots_key" -> 2
                              [] OTHER -> 3]

\* The types of what a start goes through.
StartType ==
    /\ boot \in [Api -> {"down", "exited", "migrating", "building", "up"}]
    /\ next \in [Api -> 1 .. 7]
    /\ schema \in [SchemaObject -> ObjectState]

\* A needed object is there or is not, and never in between; a process that is
\* past its migration, or has listened, has left it there; only the sixth
\* migration builds.
SchemaInv ==
    /\ \A o \in Needed : schema[o] \in {"absent", "valid"}
    /\ \A p \in Api, o \in Needed :
          boot[p] \in {"migrating", "building"} /\ next[p] > MadeBy[o] => schema[o] = "valid"
    /\ \A p \in Api : boot[p] = "building" => next[p] = 6
    /\ \A p \in Api : boot[p] = "up" /\ env.migrate => \A o \in Needed : schema[o] = "valid"

\* The migrations, one by one.
LEMMA MigrationList ==
  /\ DOMAIN Migrations = 1 .. 6 /\ Len(Migrations) = 6
  /\ Migrations[1].does = "create" /\ Migrations[1].object = "shots"
  /\ Migrations[2].does = "create" /\ Migrations[2].object = "shots_key"
  /\ Migrations[3].does = "create" /\ Migrations[3].object = "user_identities"
  /\ Migrations[4].does = "create" /\ Migrations[4].object = "by_user"
  /\ Migrations[5].does = "drop" /\ Migrations[5].object = "by_user"
  /\ Migrations[6].does = "build" /\ Migrations[6].object = "by_user_created"
BY DEF Migrations

\* What a step does to the schema: no needed object is lost.
LEMMA SchemaGrows ==
  ASSUME StartType, SchemaInv, NEW p \in Api,
         Start(p) \/ Migrate(p) \/ BuildIndex(p) \/ EndBuild(p) \/ Listen(p) \/ Crash(p)
  PROVE  /\ schema' \in [SchemaObject -> ObjectState]
         /\ \A o \in Needed : schema'[o] \in {"absent", "valid"}
         /\ \A o \in Needed : schema[o] = "valid" => schema'[o] = "valid"
<1> USE DEF StartType, SchemaObject, ObjectState, Needed
<1>1. CASE Start(p) \/ Listen(p)
  <2>1. schema' = schema
    BY <1>1 DEF Start, Listen
  <2> QED
    BY <2>1 DEF SchemaInv
<1>2. CASE Migrate(p)
  <2>1. next[p] \in 1 .. 6
    BY <1>2, MigrationList DEF Migrate
  <2>2. CASE next[p] \in 1 .. 4
    <3>1. /\ Migrations[next[p]].does = "create"
          /\ Migrations[next[p]].object \in SchemaObject
      BY <2>2, MigrationList
    <3>2. schema' = [schema EXCEPT ![Migrations[next[p]].object] =
                        IF Exists(Migrations[next[p]].object) THEN @ ELSE "valid"]
      BY <1>2, <3>1 DEF Migrate
    <3> QED
      BY <3>1, <3>2 DEF SchemaInv, Exists
  <2>3. CASE next[p] = 5
    <3>1. schema' = [schema EXCEPT !["by_user"] = "absent"]
      BY <1>2, <2>3, MigrationList DEF Migrate
    <3> QED
      BY <3>1 DEF SchemaInv
  <2>4. CASE next[p] = 6
    <3>1. schema' = schema
      BY <1>2, <2>4, MigrationList DEF Migrate
    <3> QED
      BY <3>1 DEF SchemaInv
  <2> QED
    BY <2>1, <2>2, <2>3, <2>4
<1>3. CASE BuildIndex(p)
  <2>1. next[p] = 6
    BY <1>3, MigrationList DEF BuildIndex
  <2>2. schema' = [schema EXCEPT !["by_user_created"] = "building"]
    BY <1>3, <2>1, MigrationList DEF BuildIndex
  <2> QED
    BY <2>2 DEF SchemaInv
<1>4. CASE EndBuild(p)
  <2>1. next[p] = 6
    BY <1>4 DEF EndBuild, SchemaInv
  <2>2. schema' = [schema EXCEPT !["by_user_created"] = "valid"]
    BY <1>4, <2>1, MigrationList DEF EndBuild
  <2> QED
    BY <2>2 DEF SchemaInv
<1>5. CASE Crash(p)
  <2>1. boot[p] = "building" => Migrations[next[p]].object = "by_user_created"
    BY MigrationList DEF SchemaInv
  <2>2. schema' = [o \in SchemaObject |->
                     IF boot[p] = "building" /\ o = Migrations[next[p]].object
                       THEN "invalid" ELSE schema[o]]
    BY <1>5 DEF Crash
  <2> QED
    BY <2>1, <2>2 DEF SchemaInv
<1> QED
  BY <1>1, <1>2, <1>3, <1>4, <1>5

\* How far a process may come in a step, and with what before it.
LEMMA BootMoves ==
  ASSUME StartType, SchemaInv, NEW p \in Api,
         Start(p) \/ Migrate(p) \/ BuildIndex(p) \/ EndBuild(p) \/ Listen(p) \/ Crash(p)
  PROVE  /\ env' = env
         /\ boot' \in [Api -> {"down", "exited", "migrating", "building", "up"}]
         /\ next' \in [Api -> 1 .. 7]
         /\ \A q \in Api \ {p} : boot'[q] = boot[q] /\ next'[q] = next[q]
         /\ \/ boot'[p] \in {"down", "exited"}
            \/ boot'[p] = "migrating" /\ next'[p] = 1 /\ Valid
            \/ boot'[p] = "up" /\ ~ env.migrate /\ Valid
            \/ /\ boot[p] = "migrating" /\ boot'[p] = "migrating"
               /\ next'[p] = next[p] + 1
               /\ \A o \in Needed : MadeBy[o] = next[p] => schema'[o] = "valid"
            \/ /\ boot[p] = "migrating" /\ boot'[p] = "building"
               /\ next'[p] = 6 /\ next[p] = 6
            \/ /\ boot[p] = "building" /\ boot'[p] = "migrating"
               /\ next'[p] = 7
            \/ boot[p] = "migrating" /\ boot'[p] = "up" /\ next[p] = 7
<1> USE DEF StartType
<1>1. CASE Start(p)
  <2>1. next' = [next EXCEPT ![p] = 1] /\ env' = env
    BY <1>1 DEF Start
  <2>2. CASE ~ Valid
    <3>1. boot' = [boot EXCEPT ![p] = "exited"]
      BY <1>1, <2>2 DEF Start
    <3> QED
      BY <2>1, <3>1
  <2>3. CASE Valid /\ env.migrate
    <3>1. boot' = [boot EXCEPT ![p] = "migrating"]
      BY <1>1, <2>3 DEF Start
    <3> QED
      BY <2>1, <2>3, <3>1
  <2>4. CASE Valid /\ ~ env.migrate
    <3>1. boot' = [boot EXCEPT ![p] = "up"]
      BY <1>1, <2>4 DEF Start
    <3> QED
      BY <2>1, <2>4, <3>1
  <2> QED
    BY <2>2, <2>3, <2>4
<1>2. CASE Migrate(p)
  <2>1. next[p] \in 1 .. 6
    BY <1>2, MigrationList DEF Migrate
  <2>2. boot' = boot /\ env' = env /\ boot[p] = "migrating"
    BY <1>2 DEF Migrate
  <2>3. next' = [next EXCEPT ![p] = next[p] + 1]
    BY <1>2 DEF Migrate
  <2>4. ASSUME NEW o \in Needed, MadeBy[o] = next[p]
        PROVE  schema'[o] = "valid"
    <3>1. Migrations[next[p]].does = "create" /\ Migrations[next[p]].object = o
      BY <2>4, MigrationList DEF MadeBy, Needed
    <3>2. schema' = [schema EXCEPT ![o] = IF Exists(o) THEN schema[o] ELSE "valid"]
      BY <1>2, <3>1 DEF Migrate
    <3> QED
      BY <3>2 DEF Exists, SchemaInv, Needed, SchemaObject
  <2> QED
    BY <2>1, <2>2, <2>3, <2>4
<1>3. CASE BuildIndex(p)
  <2>1. next[p] = 6
    BY <1>3, MigrationList DEF BuildIndex
  <2>2. boot' = [boot EXCEPT ![p] = "building"] /\ next' = next /\ env' = env
    BY <1>3 DEF BuildIndex
  <2>3. boot[p] = "migrating"
    BY <1>3 DEF BuildIndex
  <2> QED
    BY <2>1, <2>2, <2>3
<1>4. CASE EndBuild(p)
  <2>1. next[p] = 6 /\ boot[p] = "building"
    BY <1>4 DEF EndBuild, SchemaInv
  <2>2. boot' = [boot EXCEPT ![p] = "migrating"] /\ env' = env
    BY <1>4 DEF EndBuild
  <2>3. next' = [next EXCEPT ![p] = next[p] + 1]
    BY <1>4 DEF EndBuild
  <2> QED
    BY <2>1, <2>2, <2>3
<1>5. CASE Listen(p)
  <2>1. next[p] = 7 /\ boot[p] = "migrating"
    BY <1>5, MigrationList DEF Listen
  <2>2. boot' = [boot EXCEPT ![p] = "up"] /\ next' = next /\ env' = env
    BY <1>5 DEF Listen
  <2> QED
    BY <2>1, <2>2
<1>6. CASE Crash(p)
  <2>1. boot' = [boot EXCEPT ![p] = "down"] /\ next' = next /\ env' = env
    BY <1>6 DEF Crash
  <2> QED
    BY <2>1
<1> QED
  BY <1>1, <1>2, <1>3, <1>4, <1>5, <1>6
\* A step of a start keeps both.
LEMMA StartsKeepSchema ==
  ASSUME StartType, SchemaInv, NEW p \in Api,
         Start(p) \/ Migrate(p) \/ BuildIndex(p) \/ EndBuild(p) \/ Listen(p) \/ Crash(p)
  PROVE  StartType' /\ SchemaInv'
<1>1. /\ schema' \in [SchemaObject -> ObjectState]
      /\ \A o \in Needed : schema'[o] \in {"absent", "valid"}
      /\ \A o \in Needed : schema[o] = "valid" => schema'[o] = "valid"
  BY SchemaGrows
<1>2. /\ env' = env
      /\ boot' \in [Api -> {"down", "exited", "migrating", "building", "up"}]
      /\ next' \in [Api -> 1 .. 7]
      /\ \A q \in Api \ {p} : boot'[q] = boot[q] /\ next'[q] = next[q]
  BY BootMoves
<1>3. \/ boot'[p] \in {"down", "exited"}
      \/ boot'[p] = "migrating" /\ next'[p] = 1 /\ Valid
      \/ boot'[p] = "up" /\ ~ env.migrate /\ Valid
      \/ /\ boot[p] = "migrating" /\ boot'[p] = "migrating"
         /\ next'[p] = next[p] + 1
         /\ \A o \in Needed : MadeBy[o] = next[p] => schema'[o] = "valid"
      \/ /\ boot[p] = "migrating" /\ boot'[p] = "building"
         /\ next'[p] = 6 /\ next[p] = 6
      \/ /\ boot[p] = "building" /\ boot'[p] = "migrating"
         /\ next'[p] = 7
      \/ boot[p] = "migrating" /\ boot'[p] = "up" /\ next[p] = 7
  BY BootMoves
<1>4. StartType'
  BY <1>1, <1>2 DEF StartType
<1>5. \A o \in Needed : MadeBy[o] \in 1 .. 3
  BY DEF MadeBy, Needed
<1>6. ASSUME NEW q \in Api, NEW o \in Needed,
             boot'[q] \in {"migrating", "building"}, next'[q] > MadeBy[o]
      PROVE  schema'[o] = "valid"
  <2>1. CASE q # p
    BY <1>1, <1>2, <1>6, <2>1 DEF SchemaInv
  <2>2. CASE q = p
    BY <1>1, <1>3, <1>5, <1>6, <2>2 DEF SchemaInv, StartType
  <2> QED
    BY <2>1, <2>2
<1>7. ASSUME NEW q \in Api, boot'[q] = "building"
      PROVE  next'[q] = 6
  BY <1>2, <1>3, <1>7 DEF SchemaInv
<1>8. ASSUME NEW q \in Api, boot'[q] = "up", env'.migrate, NEW o \in Needed
      PROVE  schema'[o] = "valid"
  <2>1. CASE q # p
    <3>1. boot[q] = "up" /\ env.migrate
      BY <1>2, <1>8, <2>1
    <3> QED
      BY <1>1, <3>1 DEF SchemaInv
  <2>2. CASE q = p
    <3>1. boot[p] = "migrating" /\ next[p] = 7
      BY <1>2, <1>3, <1>8, <2>2
    <3> QED
      BY <1>1, <1>5, <3>1 DEF SchemaInv
  <2> QED
    BY <2>1, <2>2
<1> QED
  BY <1>1, <1>4, <1>6, <1>7, <1>8 DEF SchemaInv

-----------------------------------------------------------------------------
(* The invariant of a step.                                                *)

\* Who may have an answer at a time that is no refusal by the throttler or a guard.
Entitled(m, at) ==
    IF m.format = "query" THEN env.internalKey = "unset" \/ m.cred = "right"
    ELSE \/ env.mode = "none"
         \/ /\ env.secret[VendorOf[m.format]] # "unset"
            /\ m.cred = "right"
            /\ env.mode = "hmac" => Abs(at - m.stamp) <= ReplayWindow

\* The environment and the messages are what a scenario has.
MessagesInv ==
    /\ env \in Environment
    /\ clock \in 0 .. MaxClock
    /\ \A m \in traffic : IsMessage(m)
    /\ \A m \in wire : IsMessage(m)

\* A process that neither waits nor has given up has a valid environment.
ValidInv == \A p \in Api : boot[p] \in {"migrating", "building", "up"} => Valid

\* Whoever got another answer than a refusal was entitled to it when it was given.
AnswersInv ==
    \A a \in answers :
        /\ a.to \in wire /\ a.at \in Int /\ a.status \in Status
        /\ a.status \notin {401, 429} => Valid /\ Entitled(a.to, a.at)

\* The invariant behind the types, the guards and the schema.
GateInv == MessagesInv /\ StartType /\ SchemaInv /\ ValidInv /\ AnswersInv

\* It holds at first.
LEMMA GateInvInit == Init => GateInv
<1> SUFFICES ASSUME Init PROVE GateInv
  OBVIOUS
<1>1. PICK sc \in Scenario :
         /\ env = sc.env /\ traffic = sc.traffic /\ clock = sc.clock
         /\ boot = [p \in Api |-> IF p \in sc.starts THEN "down" ELSE "exited"]
         /\ schema = [o \in SchemaObject |->
                         IF sc.deployed /\ o # "by_user" THEN "valid" ELSE "absent"]
  BY Zenon DEF Init
<1>2. wire = {} /\ answers = {} /\ next = [p \in Api |-> 1]
  BY DEF Init
<1>3. MessagesInv
  BY <1>1, <1>2, ScenariosAreStarts, Zenon DEF MessagesInv, IsMessage
<1>4. \A p \in Api : boot[p] \in {"down", "exited"}
  BY <1>1
<1>5. \A o \in SchemaObject : schema[o] \in {"absent", "valid"}
  BY <1>1
<1>6. StartType
  <2>1. boot \in [Api -> {"down", "exited", "migrating", "building", "up"}]
    BY <1>1
  <2>2. schema \in [SchemaObject -> ObjectState]
    BY <1>1 DEF ObjectState
  <2> QED
    BY <1>2, <2>1, <2>2 DEF StartType
<1>7. SchemaInv
  BY <1>4, <1>5 DEF SchemaInv, Needed, SchemaObject
<1>8. ValidInv
  BY <1>4 DEF ValidInv
<1>9. AnswersInv
  BY <1>2 DEF AnswersInv
<1> QED
  BY <1>3, <1>6, <1>7, <1>8, <1>9 DEF GateInv

\* Who is let in is entitled.
LEMMA LetInIsEntitled ==
  ASSUME NEW m, LetIn(m)
  PROVE  \/ env.mode \notin {"none", "api_key", "hmac"}
         \/ Entitled(m, clock)
BY Zenon DEF LetIn, Entitled, GuardAdmits, InternalAdmits

\* A request is handled by a process that is up.
LEMMA HandledByUp ==
  ASSUME NEW p \in Api, NEW m \in wire, Handle(p, m)
  PROVE  boot[p] = "up"
BY DEF Handle, Throttled, Unauthorised, Malformed, Unparsable, Skewed, Accept, QueueIsFull,
   IdIsRefused, QueueBreaks, Query, InWindow, Parsed, Admitted, Webhook, Arrives

\* Entitlement and validity depend on the environment alone.
LEMMA SameEnvironment ==
  ASSUME env' = env
  PROVE  (Valid => Valid') /\ \A x, at : Entitled(x, at) => Entitled(x, at)'
<1>1. Valid => Valid'
  BY Zenon DEF Valid, SecretsSuffice
<1>2. \A x, at : Entitled(x, at) => Entitled(x, at)'
  BY Zenon DEF Entitled
<1> QED
  BY <1>1, <1>2

\* A step keeps it.
LEMMA GateInvStep == GateInv /\ [Next]_vars => GateInv'
<1> SUFFICES ASSUME GateInv, [Next]_vars PROVE GateInv'
  OBVIOUS
<1> USE DEF GateInv
<1>1. ASSUME NEW p \in Api, NEW m \in wire, Handle(p, m)
      PROVE  GateInv'
  <2>1. PICK status \in Status : Outcome(m, status)
    BY <1>1, HandlersAnswer
  <2>2. /\ wire' = wire /\ traffic' = traffic /\ clock' = clock /\ env' = env
        /\ boot' = boot /\ next' = next /\ schema' = schema
    BY <2>1 DEF Outcome, Quiet
  <2>3. MessagesInv' /\ StartType' /\ SchemaInv' /\ ValidInv'
    BY <2>2 DEF MessagesInv, StartType, SchemaInv, ValidInv, Valid, SecretsSuffice
  <2>4. PICK a : answers' = answers \cup {a} /\ a.to = m /\ a.at = clock /\ a.status = status
    BY <2>1 DEF Outcome, Gives
  <2>5. Valid
    BY <1>1, HandledByUp DEF ValidInv
  <2>6. env.mode \in {"none", "api_key", "hmac"}
    BY DEF MessagesInv, Environment
  <2>7. status \notin {401, 429} => Entitled(m, clock)
    BY <2>1, <2>6, LetInIsEntitled DEF Outcome
  <2>8. (Valid => Valid') /\ \A x, at : Entitled(x, at) => Entitled(x, at)'
    BY <2>2, SameEnvironment
  <2>9. AnswersInv'
    BY <2>2, <2>4, <2>5, <2>7, <2>8 DEF AnswersInv, MessagesInv
  <2> QED
    BY <2>3, <2>9
<1>2. ASSUME NEW p \in Api, Boot(p)
      PROVE  GateInv'
  <2>1. Start(p) \/ Migrate(p) \/ BuildIndex(p) \/ EndBuild(p) \/ Listen(p) \/ Crash(p)
    BY <1>2 DEF Boot
  <2>2. StartType' /\ SchemaInv'
    BY <2>1, StartsKeepSchema
  <2>3. env' = env /\ wire' = wire /\ traffic' = traffic /\ clock' = clock /\ answers' = answers
    BY <1>2, <2>1, BootMoves DEF Boot, apiVars
  <2>4. (Valid => Valid') /\ \A x, at : Entitled(x, at) => Entitled(x, at)'
    BY <2>3, SameEnvironment
  <2>6. MessagesInv' /\ AnswersInv'
    BY <2>3, <2>4 DEF MessagesInv, AnswersInv
  <2>7. ASSUME NEW q \in Api, boot'[q] \in {"migrating", "building", "up"}
        PROVE  Valid
    <3>1. CASE q = p
      <4>1. boot[p] \in {"migrating", "building"} \/ Valid
        BY <2>1, <2>7, <3>1, BootMoves
      <4> QED
        BY <4>1 DEF ValidInv
    <3>2. CASE q # p
      <4>1. boot'[q] = boot[q]
        BY <2>1, <3>2, BootMoves
      <4> QED
        BY <2>7, <4>1 DEF ValidInv
    <3> QED
      BY <3>1, <3>2
  <2>8. ValidInv'
    BY <2>4, <2>7 DEF ValidInv
  <2> QED
    BY <2>2, <2>6, <2>8
<1>3. ASSUME NEW m \in traffic, Send(m)
      PROVE  GateInv'
  <2> DEFINE sent == [m EXCEPT !.stamp = IF env.mode = "hmac" THEN clock ELSE @]
  <2>1. /\ wire' = wire \cup {sent}
        /\ traffic' = traffic /\ clock' = clock /\ answers' = answers /\ env' = env
        /\ boot' = boot /\ next' = next /\ schema' = schema
    BY <1>3 DEF Send, startVars
  <2>2. IsMessage(m)
    BY DEF MessagesInv
  <2>3. IsMessage(sent)
    <3>1. /\ DOMAIN sent = DOMAIN m
          /\ sent = [field \in DOMAIN sent |-> sent[field]]
          /\ sent.format = m.format
      BY <2>2, Zenon DEF IsMessage
    <3>2. sent.stamp = IF env.mode = "hmac" THEN clock ELSE m.stamp
      BY <2>2, Zenon DEF IsMessage
    <3>3. clock \in Int /\ m.stamp \in Int
      BY <2>2 DEF MessagesInv, IsMessage
    <3> HIDE DEF sent
    <3>4. sent.stamp \in Int
      BY <3>2, <3>3
    <3> QED
      BY <2>2, <3>1, <3>4, Zenon DEF IsMessage
  <2> HIDE DEF sent
  <2>4. MessagesInv'
    BY <2>1, <2>3, Zenon DEF MessagesInv
  <2>5. StartType' /\ SchemaInv'
    BY <2>1 DEF StartType, SchemaInv
  <2>6. (Valid => Valid') /\ \A x, at : Entitled(x, at) => Entitled(x, at)'
    BY <2>1, SameEnvironment
  <2>7. ValidInv' /\ AnswersInv'
    BY <2>1, <2>6 DEF ValidInv, AnswersInv
  <2> QED
    BY <2>4, <2>5, <2>7
<1>4. ASSUME env' = env, boot' = boot, next' = next, schema' = schema,
             wire' = wire, traffic' = traffic, answers' = answers,
             clock' \in 0 .. MaxClock
      PROVE  GateInv'
  <2>2. MessagesInv'
    BY <1>4, Zenon DEF MessagesInv
  <2>3. StartType' /\ SchemaInv'
    BY <1>4 DEF StartType, SchemaInv
  <2>4. (Valid => Valid') /\ \A x, at : Entitled(x, at) => Entitled(x, at)'
    BY <1>4, SameEnvironment
  <2>5. ValidInv' /\ AnswersInv'
    BY <1>4, <2>4 DEF ValidInv, AnswersInv
  <2> QED
    BY <2>2, <2>3, <2>5
<1>5. CASE Tick
  <2>1. /\ env' = env /\ boot' = boot /\ next' = next /\ schema' = schema
        /\ wire' = wire /\ traffic' = traffic /\ answers' = answers
    BY <1>5 DEF Tick, startVars
  <2>2. clock' \in 0 .. MaxClock
    BY <1>5, BoundsAreNumbers DEF Tick, MessagesInv
  <2> QED
    BY <1>4, <2>1, <2>2
<1>6. CASE \E j \in jobs : Process(j)
  <2>1. /\ env' = env /\ boot' = boot /\ next' = next /\ schema' = schema
        /\ wire' = wire /\ traffic' = traffic /\ answers' = answers
        /\ clock' = clock
    BY <1>6 DEF Process, startVars
  <2>2. clock' \in 0 .. MaxClock
    BY <2>1 DEF MessagesInv
  <2> QED
    BY <1>4, <2>1, <2>2
<1>7. CASE \E k \in kept : Expire(k)
  <2>1. /\ env' = env /\ boot' = boot /\ next' = next /\ schema' = schema
        /\ wire' = wire /\ traffic' = traffic /\ answers' = answers
        /\ clock' = clock
    BY <1>7 DEF Expire, startVars
  <2>2. clock' \in 0 .. MaxClock
    BY <2>1 DEF MessagesInv
  <2> QED
    BY <1>4, <2>1, <2>2
<1>8. CASE UNCHANGED vars
  <2>1. /\ env' = env /\ boot' = boot /\ next' = next /\ schema' = schema
        /\ wire' = wire /\ traffic' = traffic /\ answers' = answers
        /\ clock' = clock
    BY <1>8 DEF vars, apiVars, startVars
  <2>2. clock' \in 0 .. MaxClock
    BY <2>1 DEF MessagesInv
  <2> QED
    BY <1>4, <2>1, <2>2
<1> QED
  BY <1>1, <1>2, <1>3, <1>5, <1>6, <1>7, <1>8 DEF Next

\* It is an invariant.
THEOREM GateIsKept == Spec => []GateInv
BY GateInvInit, GateInvStep, PTL DEF Spec

\* The types: statuses the documented API has, answers to what was sent, and a
\* place in the list of migrations.
THEOREM TypesAreKept == Spec => []TypeOK
<1>1. GateInv => TypeOK
  BY MigrationList DEF GateInv, TypeOK, MessagesInv, StartType, AnswersInv, Status
<1> QED
  BY <1>1, GateIsKept, PTL

\* A process that was to migrate answers only with the tables and the unique index.
THEOREM SchemaIsThere == Spec => []ServedSchemaIsComplete
<1>1. GateInv => ServedSchemaIsComplete
  BY DEF GateInv, ServedSchemaIsComplete, SchemaInv, Needed
<1> QED
  BY <1>1, GateIsKept, PTL

\* In production nobody gets an answer but the holder of the long secret of the
\* vendor, or of the internal key, within the replay window of a signature.
THEOREM NobodyGetsIn == Spec => []ProductionIsClosed
<1>1. ASSUME GateInv, env.production, NEW a \in answers, a.status \notin {401, 429}
      PROVE  /\ a.to.cred = "right"
             /\ IF a.to.format = "query" THEN env.internalKey = "long"
                ELSE /\ env.secret[VendorOf[a.to.format]] = "long"
                     /\ env.mode = "hmac" => a.at - a.to.stamp <= ReplayWindow
  <2>1. Valid /\ Entitled(a.to, a.at) /\ a.to \in wire /\ a.at \in Int
    BY <1>1 DEF GateInv, AnswersInv
  <2>2. /\ env.internalKey \notin {"short", "unset"} /\ env.mode # "none"
        /\ \A v \in Vendor : env.secret[v] # "short"
    BY <1>1, <2>1, Zenon DEF Valid, SecretsSuffice
  <2>3. /\ env.internalKey \in Secret
        /\ \A v \in Vendor : env.secret[v] \in Secret
    BY <1>1 DEF GateInv, MessagesInv, Environment
  <2>4. a.to.format \in DOMAIN VendorOf \cup {"query"} /\ a.to.stamp \in Int
    BY <1>1, <2>1 DEF GateInv, MessagesInv, IsMessage
  <2>5. a.to.cred = "right"
    BY <2>1, <2>2, Zenon DEF Entitled
  <2>6. CASE a.to.format = "query"
    BY <2>2, <2>3, <2>5, <2>6 DEF Secret
  <2>7. CASE a.to.format # "query"
    <3>1. VendorOf[a.to.format] \in Vendor
      BY <2>4, <2>7 DEF VendorOf, Vendor
    <3>2. env.secret[VendorOf[a.to.format]] = "long"
      <4>1. env.secret[VendorOf[a.to.format]] # "unset"
        BY <2>1, <2>2, <2>7, Zenon DEF Entitled
      <4> QED
        BY <2>2, <2>3, <3>1, <4>1 DEF Secret
    <3>3. ASSUME env.mode = "hmac"
          PROVE  a.at - a.to.stamp <= ReplayWindow
      <4>1. Abs(a.at - a.to.stamp) <= ReplayWindow
        BY <2>1, <2>2, <2>7, <3>3, Zenon DEF Entitled
      <4> QED
        BY <2>1, <2>4, <4>1, WindowsAreNumbers DEF Abs
    <3> QED
      BY <2>5, <2>7, <3>2, <3>3
  <2> QED
    BY <2>6, <2>7
<1>2. GateInv => ProductionIsClosed
  BY <1>1, Zenon DEF ProductionIsClosed
<1> QED
  BY <1>2, GateIsKept, PTL
=============================================================================
