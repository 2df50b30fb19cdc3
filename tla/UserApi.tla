-------------------------------- MODULE UserApi --------------------------------
(***************************************************************************)
(* The portal's side of the API, while shots keep coming in: a client that *)
(* walks through the pages of a player's shots, statistics over the same   *)
(* shots, and requests that link the player to a canonical user, behind    *)
(* the idempotency cache. Between two pages shots are stored, flagged as   *)
(* near-duplicates and given an owner, and the window moves with the clock.*)
(***************************************************************************)
EXTENDS ShotQueries, Idempotency

CONSTANTS
    Scenario,   \* what a behaviour starts with
    Nobody,     \* no canonical user
    AskOf,      \* [Request -> the body: the vendor and user to link]
    MaxNow      \* bound: the clock stops there

\* What a behaviour starts with: rows that are told apart by their ids, and a first
\* request with a cursor that no page has given, or none.
ASSUME ScenariosAreTables ==
    \A sc \in Scenario :
        /\ IsFiniteSet(sc.rows) /\ IsFiniteSet(sc.coming)
        /\ \A r \in sc.rows \cup sc.coming : IsRow(r)
        /\ \A r, s \in sc.rows \cup sc.coming : r.id = s.id => r = s
        /\ sc.rows \cap sc.coming = {}
        /\ sc.cursor \in {Absent, Garbled, Undated}
        /\ IsQuery(sc.query)

VARIABLES
    rows,       \* the shots table
    coming,     \* shots to be stored
    now,
    mapping,    \* links: [vendor, user, canon]
    backfills,  \* links whose shots are still to be updated
    query,      \* what the client asks for
    walk,       \* its cursor, and what it has been shown
    report      \* the last answer of the statistics

dbVars == <<rows, coming, mapping, backfills>>
vars == <<dbVars, now, query, walk, report, idemVars>>

Ids(S) == {r.id : r \in S}

-----------------------------------------------------------------------------
(* What goes on in the table.                                              *)

OwnerOf(s) ==
    {m.canon : m \in {l \in mapping : l.vendor = s.vendor /\ l.user = s.user}}

\* upsertIfNew, with the owner the processor has resolved: now, or too early.
StoreShot(s) ==
    /\ s \in coming
    /\ coming' = coming \ {s}
    /\ \E owner \in OwnerOf(s) \cup {Nobody} :
          rows' = rows \cup {[s EXCEPT !.owner = owner]}
    /\ UNCHANGED <<mapping, backfills, now, query, walk, report, idemVars>>

\* checkAndFlagNearDuplicates finds a twin of r, captured before it or after it.
FlagShot(r) ==
    /\ r \in rows /\ ~ r.duplicate
    /\ \E t \in rows : t.club = r.club /\ t.user = r.user /\ t # r
    /\ rows' = (rows \ {r}) \cup {[r EXCEPT !.duplicate = TRUE]}
    /\ UNCHANGED <<coming, mapping, backfills, now, query, walk, report, idemVars>>

\* The backfill of a link, some time after its answer.
Backfill(l) ==
    /\ l \in backfills
    /\ backfills' = backfills \ {l}
    /\ rows' = {IF r.vendor = l.vendor /\ r.user = l.user /\ r.owner = Nobody
                  THEN [r EXCEPT !.owner = l.canon] ELSE r : r \in rows}
    /\ UNCHANGED <<coming, mapping, now, query, walk, report, idemVars>>

Tick ==
    /\ now < MaxNow
    /\ now' = now + 1
    /\ UNCHANGED <<dbVars, query, walk, report, idemVars>>

-----------------------------------------------------------------------------
(* Reading.                                                                *)

\* The client asks for the next page, with the cursor of the last.
GetPage ==
    /\ walk.at = "on"
    /\ \/ /\ QueryFails(query, walk.cursor)
          /\ walk' = [walk EXCEPT !.at = "refused",
                          !.status = Catch(QueryError(query, walk.cursor)).status]
       \/ /\ ~ QueryFails(query, walk.cursor)
          /\ LET page == Page(rows, query, walk.cursor, now)
                 listed == Ids(Listed(rows, query, now))
             IN  walk' = [at |-> IF page.next_cursor = Absent THEN "ended" ELSE "on",
                          status |-> 200,
                          cursor |-> page.next_cursor,
                          size |-> Cardinality(page.data),
                          seen |-> walk.seen \cup Ids(page.data),
                          twice |-> walk.twice \cup (walk.seen \cap Ids(page.data)),
                          steady |-> IF walk.status = 0 THEN listed
                                                        ELSE walk.steady \cap listed]
    /\ UNCHANGED <<dbVars, now, query, report, idemVars>>

\* Statistics of the same user, window and club.
GetStats ==
    /\ \/ /\ StatsFail(query, now)
          /\ report' = [status |-> Catch(StatsError(query, now)).status, body |-> Absent]
       \/ /\ ~ StatsFail(query, now)
          /\ \E kept \in Cuts(Counted(rows, query, now)) :
                report' = [status |-> 200, body |-> Stats(kept)]
    /\ UNCHANGED <<dbVars, now, query, walk, idemVars>>

-----------------------------------------------------------------------------
(* Linking.                                                                *)

LinkOf(r) == [vendor |-> AskOf[r].vendor, user |-> AskOf[r].user, canon |-> PathOf[r]]

\* The cache, before the handler and after it.
AroundHandler(r) ==
    /\ \/ PassThrough(r) \/ RefuseKey(r) \/ Replay(r) \/ LookupMiss(r)
       \/ LookupFails(r) \/ Store(r) \/ StoreFails(r)
    /\ UNCHANGED <<dbVars, now, query, walk, report>>

\* linkIdentity: the row is written, and the backfill is started.
LinkIdentity(r) ==
    /\ AskOf[r].vendor \in Vendors
    /\ End(r, 201)
    /\ mapping' = {l \in mapping : ~ (l.vendor = AskOf[r].vendor /\ l.user = AskOf[r].user)}
                  \cup {LinkOf(r)}
    /\ backfills' = backfills \cup {LinkOf(r)}
    /\ UNCHANGED <<rows, coming, now, query, walk, report>>

\* The body is refused by the pipe, inside the interceptor.
LinkRefused(r) ==
    /\ AskOf[r].vendor \notin Vendors
    /\ End(r, Catch(PayloadValidationFailed).status)
    /\ UNCHANGED <<dbVars, now, query, walk, report>>

\* The transaction fails.
LinkFails(r) ==
    /\ AskOf[r].vendor \in Vendors
    /\ End(r, Catch(Unhandled).status)
    /\ UNCHANGED <<dbVars, now, query, walk, report>>

\* The cache loses an entry; the process dies, and the backfills with it.
Lose ==
    \/ /\ \E k \in CacheKeys : Forget(k)
       /\ UNCHANGED <<dbVars, now, query, walk, report>>
    \/ /\ Die
       /\ backfills' = {}
       /\ UNCHANGED <<rows, coming, mapping, now, query, walk, report>>

-----------------------------------------------------------------------------

Init ==
    /\ \E sc \in Scenario :
          /\ IdemInit(sc.requests)
          /\ rows = sc.rows
          /\ coming = sc.coming
          /\ now = sc.now
          /\ query = sc.query
          /\ walk = [at |-> "on", status |-> 0, cursor |-> sc.cursor, size |-> 0,
                     seen |-> {}, twice |-> {}, steady |-> {}]
    /\ mapping = {} /\ backfills = {}
    /\ report = [status |-> 0, body |-> Absent]

Next ==
    \/ \E s \in coming : StoreShot(s)
    \/ \E r \in rows : FlagShot(r)
    \/ \E l \in backfills : Backfill(l)
    \/ Tick
    \/ GetPage
    \/ GetStats
    \/ \E r \in Request : AroundHandler(r) \/ LinkIdentity(r) \/ LinkRefused(r) \/ LinkFails(r)
    \/ Lose

\* A client that walks asks for the next page.
Spec == Init /\ [][Next]_vars /\ WF_vars(GetPage)

-----------------------------------------------------------------------------
(* Properties.                                                             *)

\* Types; and no page has more than 100 shots.
TypeOK ==
    /\ IdemTypeOK
    /\ \A r \in rows : r.duplicate \in BOOLEAN /\ r.club \in Clubs /\ r.vendor \in Vendors
    /\ mapping \cup backfills \subseteq {LinkOf(r) : r \in Request}
    /\ walk.at \in {"on", "ended", "refused"}
    /\ walk.size \in 0 .. MaxLimit
    /\ report.status \in {0, 200, 400, 500}

\* No shot is on two pages of a walk, whatever is stored, flagged, given an owner
\* or passed by the window between them.
NoShotListedTwice == walk.twice = {}

\* A shot that was in the listing whenever a page was asked for is on one of them
\* when the walk is at its end: none falls between two pages. A limit below one
\* ends the walk at once.
WalkIsComplete ==
    walk.at = "ended" /\ Limit(query) >= 1 => walk.steady \subseteq walk.seen

\* A walk with a limit of one or more comes to its end.
WalksEnd == walk.at = "on" ~> walk.at # "on"

\* The statistics that a step answers are about the shots of the listing.
AnswerAgrees ==
    LET shown == {r \in Listed(rows, [query EXCEPT !.duplicates = FALSE], now) :
                    r.club # Putter}
        body == report'.body
    IN  report' # report /\ report'.status = 200 =>
          /\ \/ body.shot_count = Cardinality(shown)
             \/ body.capped /\ body.shot_count < Cardinality(shown)
          /\ \A c \in {r.club : r \in shown} :
                body.capped
                \/ body.by_club[c].sample_size = Cardinality({r \in shown : r.club = c})

\* What the statistics count is what the listing shows without near-duplicates and
\* putts: all of it, unless "capped" says that there may be more.
StatsAgreeWithListing == [][AnswerAgrees]_vars

\* While the database answers, the parameters that end in 500 are these: a bound of
\* the window in a year that PostgreSQL does not read, a user id with a NUL, a limit
\* below -1, a cursor of no timestamp or id, and, for the statistics, an empty club.
\* All others that mean nothing are answered 400.
QueryErrorsAreKnown ==
    /\ walk.status = 500 =>
          walk.cursor = Undated \/ Limit(query) < -1 \/ Unreadable(query)
    /\ report.status = 500 => query.club = Empty \/ Unreadable(query)

=============================================================================
