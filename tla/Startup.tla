-------------------------------- MODULE Startup --------------------------------
(***************************************************************************)
(* The start of the API processes: the environment is validated, and the   *)
(* migrations run before a process listens. Every process runs every       *)
(* migration at every start; two may run them together, and a process may  *)
(* die between two statements, or while it builds an index.                *)
(***************************************************************************)
EXTENDS VendorParsers

CONSTANT Api    \* API processes

VARIABLES
    env,        \* the environment the processes are started in
    boot,       \* boot[p]: how far the start of process p is
    next,       \* next[p]: the migration it runs next
    schema      \* schema[o]: what has become of an object of the database

startVars == <<env, boot, next, schema>>

-----------------------------------------------------------------------------
(* The environment. A secret is "unset", "short" or "long" (32 characters  *)
(* or more); only the secrets of the mode in force are looked at.          *)

Secret == {"unset", "short", "long"}

Environment ==
    [production : BOOLEAN, mode : {"none", "api_key", "hmac"},
     secret : [Vendor -> Secret], internalKey : Secret, throttle : BOOLEAN,
     cors : {"*", "origin"}, migrate : BOOLEAN]

\* The secrets the mode needs: at least one is set, and none is short.
SecretsSuffice ==
    /\ \E v \in Vendor : env.secret[v] # "unset"
    /\ \A v \in Vendor : env.secret[v] # "short"

\* Mutant: a production without an internal key starts.
ValidWithoutInternalKey ==
    /\ env.internalKey # "short"
    /\ env.production =>
          env.mode # "none" /\ SecretsSuffice /\ env.throttle /\ env.cors # "*"

\* validate: what envSchema lets through.
Valid ==
    /\ env.internalKey # "short"
    /\ env.production =>
          /\ env.mode # "none"
          /\ SecretsSuffice
          /\ env.throttle
          /\ env.internalKey # "unset"
          /\ env.cors # "*"

-----------------------------------------------------------------------------
(* The migrations, by the objects that something depends on: two tables,   *)
(* the unique index behind ON CONFLICT, and the two indexes on             *)
(* user_identities of which 003 replaces one by the other.                 *)

SchemaObject == {"shots", "shots_key", "user_identities", "by_user",
                 "by_user_created"}
ObjectState == {"absent", "building", "invalid", "valid"}

\* 001_init.sql and 003_identity_perf.sql.
Migrations ==
    <<[does |-> "create", object |-> "shots"],
      [does |-> "create", object |-> "shots_key"],
      [does |-> "create", object |-> "user_identities"],
      [does |-> "create", object |-> "by_user"],
      [does |-> "drop", object |-> "by_user"],
      [does |-> "build", object |-> "by_user_created"]>>

Exists(o) == schema[o] # "absent"

\* Mutant: the process listens, and its migrations are still to run.
ListenFirst(p) ==
    /\ boot[p] = "down"
    /\ boot' = [boot EXCEPT ![p] = IF Valid THEN "up" ELSE "exited"]
    /\ next' = [next EXCEPT ![p] = 1]
    /\ UNCHANGED <<env, schema>>

\* Mutant: the list of migrations is counted from zero.
StartAtZero(p) ==
    /\ boot[p] = "down"
    /\ boot' = [boot EXCEPT ![p] = IF ~ Valid THEN "exited"
                                   ELSE IF env.migrate THEN "migrating" ELSE "up"]
    /\ next' = [next EXCEPT ![p] = 0]
    /\ UNCHANGED <<env, schema>>

\* bootstrap, up to the migrations, or to listen.
Start(p) ==
    /\ boot[p] = "down"
    /\ boot' = [boot EXCEPT ![p] = IF ~ Valid THEN "exited"
                                   ELSE IF env.migrate THEN "migrating" ELSE "up"]
    /\ next' = [next EXCEPT ![p] = 1]
    /\ UNCHANGED <<env, schema>>

\* executeSqlFile: one statement, and then the next. CREATE ... IF NOT EXISTS
\* takes an object that is there, and be it an invalid index; DROP ... IF EXISTS.
Migrate(p) ==
    /\ boot[p] = "migrating"
    /\ next[p] \in DOMAIN Migrations
    /\ LET step == Migrations[next[p]]
           o == step.object
       IN  /\ \/ /\ step.does = "create"
                 /\ schema' = [schema EXCEPT ![o] = IF Exists(o) THEN @ ELSE "valid"]
              \/ /\ step.does = "drop"
                 /\ schema' = [schema EXCEPT ![o] = "absent"]
              \/ /\ step.does = "build"
                 /\ Exists(o)
                 /\ UNCHANGED schema
           /\ next' = [next EXCEPT ![p] = @ + 1]
           /\ UNCHANGED <<env, boot>>

\* CREATE INDEX CONCURRENTLY, of an index that is not there, takes its time.
BuildIndex(p) ==
    /\ boot[p] = "migrating"
    /\ next[p] \in DOMAIN Migrations
    /\ LET step == Migrations[next[p]]
       IN  /\ step.does = "build"
           /\ ~ Exists(step.object)
           /\ schema' = [schema EXCEPT ![step.object] = "building"]
    /\ boot' = [boot EXCEPT ![p] = "building"]
    /\ UNCHANGED <<env, next>>

\* The index is built, and the statement returns.
EndBuild(p) ==
    /\ boot[p] = "building"
    /\ schema' = [schema EXCEPT ![Migrations[next[p]].object] = "valid"]
    /\ boot' = [boot EXCEPT ![p] = "migrating"]
    /\ next' = [next EXCEPT ![p] = @ + 1]
    /\ UNCHANGED env

\* runMigrations is through, and the process listens.
Listen(p) ==
    /\ boot[p] = "migrating"
    /\ next[p] > Len(Migrations)
    /\ boot' = [boot EXCEPT ![p] = "up"]
    /\ UNCHANGED <<env, next, schema>>

\* A process dies, or a statement fails and the rejected bootstrap ends it. An
\* index it was building stays behind, invalid.
Crash(p) ==
    /\ boot[p] \in {"migrating", "building", "up"}
    /\ boot' = [boot EXCEPT ![p] = "down"]
    /\ schema' = [o \in SchemaObject |->
                     IF boot[p] = "building" /\ o = Migrations[next[p]].object
                       THEN "invalid" ELSE schema[o]]
    /\ UNCHANGED <<env, next>>

=============================================================================
