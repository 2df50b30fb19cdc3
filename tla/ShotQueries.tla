------------------------------ MODULE ShotQueries ------------------------------
(***************************************************************************)
(* What the portal reads: ShotsService, one page of shots behind a cursor, *)
(* and StatsService, the counts behind the aggregates of a player's clubs. *)
(* A row has the columns the queries look at. A parameter is Absent, or a  *)
(* text that means something: a time, a club, a vendor, a number; Garbled  *)
(* is one that means nothing, and Empty is "?name=". What is sent to       *)
(* PostgreSQL may still mean nothing there: Undated is a cursor that is    *)
(* not of a timestamp and an id, Unstorable a user id with a NUL in it.    *)
(***************************************************************************)
EXTENDS Integers, FiniteSets, ErrorMapping

CONSTANTS
    Absent, Garbled, Empty, Undated, Unstorable,
    Vendors, Clubs, Putter,     \* the enumerations; Putter \in Clubs
    DefaultLimit, MaxLimit,     \* 50, 100
    DefaultWindow,              \* 30 days
    MaxStatsRows,               \* 10000
    LowSampleSize               \* 10

ASSUME PutterIsAClub == Putter \in Clubs
ASSUME LimitsAreNumbers ==
    /\ {DefaultLimit, MaxLimit, MaxStatsRows, LowSampleSize} \subseteq Nat \ {0}
    /\ DefaultLimit <= MaxLimit
ASSUME AbsentIsNoCursor == Absent \notin [at : Nat, id : Nat]
ASSUME WindowIsANumber == DefaultWindow \in Nat

-----------------------------------------------------------------------------
(* Parameters.                                                             *)

\* The parameters of a request for a page.
IsQuery(q) ==
    /\ q = [name \in DOMAIN q |-> q[name]]
    /\ {"by", "vendor", "user", "since", "until", "club", "limit", "duplicates"}
          \subseteq DOMAIN q
    /\ q.limit \in Int \cup {Absent}

Since(q, now) == IF q.since = Absent THEN now - DefaultWindow ELSE q.since
Until(q, now) == IF q.until = Absent THEN now ELSE q.until

\* Mutant: the limit of the request, as it is.
UnclampedLimit(q) == IF q.limit = Absent THEN DefaultLimit ELSE q.limit

\* The number in ?limit=, or none: there is no lower bound.
Limit(q) ==
    IF q.limit = Absent THEN DefaultLimit
    ELSE IF q.limit < MaxLimit THEN q.limit ELSE MaxLimit

UnknownVendor(q) == q.by = "vendor" /\ q.vendor \notin Vendors
BadDate(q) == Garbled \in {q.since, q.until}

\* The bounds of a window are ISO texts, and as numbers they have the order of these.
\* Below 0 are the years that have a sign or are 0000: parseWindowDate lets them pass,
\* they come before all other texts, and to PostgreSQL they are no timestamps.
NoTimestamp(q) == \E t \in {q.since, q.until} : t \in Int /\ t < 0

\* What both queries ask of the database, and it cannot read.
Unreadable(q) == q.user = Unstorable \/ NoTimestamp(q)

EmptyWindow(q, now) == ~ BadDate(q) /\ Since(q, now) >= Until(q, now)
UnknownClub(q) == q.club \notin Clubs \cup {Absent, Empty}

\* The rows of the user in the window: both services ask for these.
OfUser(r, q) ==
    IF q.by = "vendor" THEN r.vendor = q.vendor /\ r.user = q.user
                       ELSE r.owner = q.user

InTime(r, q, now) == Since(q, now) <= r.at /\ r.at <= Until(q, now)

-----------------------------------------------------------------------------
(* ShotsService.executeQuery                                               *)

\* (captured_at_utc, canonical_shot_id) < cursor
Before(r, cursor) == r.at < cursor.at \/ (r.at = cursor.at /\ r.id < cursor.id)

\* A row has the columns of the order and of the conditions, of their types.
IsRow(r) ==
    /\ r = [column \in DOMAIN r |-> r[column]]
    /\ {"id", "at", "vendor", "user", "owner", "club", "duplicate"} \subseteq DOMAIN r
    /\ r.id \in Nat /\ r.at \in Nat
    /\ r.vendor \in Vendors /\ r.club \in Clubs /\ r.duplicate \in BOOLEAN

\* Mutant: the row of the cursor comes again.
NotAfter(r, cursor) == r.at < cursor.at \/ (r.at = cursor.at /\ r.id <= cursor.id)

\* Mutant: a cursor of the time alone.
BeforeTime(r, cursor) == r.at < cursor.at

PastCursor(r, cursor) == Before(r, cursor)

Listed(rows, q, now) ==
    {r \in rows :
        /\ OfUser(r, q)
        /\ InTime(r, q, now)
        /\ q.club \in Clubs => r.club = q.club
        /\ q.duplicates \/ ~ r.duplicate}

\* The n newest rows of S, in the order of the index.
Newest(S, n) ==
    {r \in S : Cardinality({s \in S : Before(r, s)}) < n}

\* Mutant: what decodeCursor throws is not caught.
UncaughtCursorError(q, cursor) ==
    CASE UnknownVendor(q) -> UnknownVendorError
      [] ~ UnknownVendor(q) /\ BadDate(q) -> InvalidDateError
      [] ~ UnknownVendor(q) /\ ~ BadDate(q) /\ UnknownClub(q) -> UnknownClubCodeError
      [] OTHER -> Unhandled

\* decodeCursor lets every pair of texts through; the database does not.
QueryError(q, cursor) ==
    CASE UnknownVendor(q) -> UnknownVendorError
      [] ~ UnknownVendor(q) /\ BadDate(q) -> InvalidDateError
      [] ~ UnknownVendor(q) /\ ~ BadDate(q) /\ UnknownClub(q) -> UnknownClubCodeError
      [] OTHER -> IF cursor = Garbled THEN InvalidCursorError ELSE Unhandled

QueryFails(q, cursor) ==
    \/ UnknownVendor(q) \/ BadDate(q) \/ UnknownClub(q)
    \/ cursor \in {Garbled, Undated}
    \/ Limit(q) + 1 < 0
    \/ Unreadable(q)

\* LIMIT limit + 1: what is over says that there is more.
Fetched(rows, q, cursor, now) ==
    Newest({r \in Listed(rows, q, now) : cursor # Absent => PastCursor(r, cursor)},
           Limit(q) + 1)

Oldest(S) == CHOOSE r \in S : \A s \in S : s = r \/ Before(r, s)

\* Of a page that was to have less than nothing, nothing is left.
Page(rows, q, cursor, now) ==
    LET fetched == Fetched(rows, q, cursor, now)
        data == Newest(fetched, Limit(q))
        more == Cardinality(fetched) > Limit(q)
    IN  [data |-> data, has_more |-> more,
         next_cursor |-> IF more /\ data # {}
                           THEN [at |-> Oldest(data).at, id |-> Oldest(data).id]
                           ELSE Absent]

-----------------------------------------------------------------------------
(* StatsService.executeStatsQuery                                          *)

StatsError(q, now) ==
    CASE UnknownVendor(q) -> UnknownVendorError
      [] ~ UnknownVendor(q) /\ BadDate(q) -> InvalidDateError
      [] ~ UnknownVendor(q) /\ EmptyWindow(q, now) -> InvalidDateError
      [] OTHER -> IF UnknownClub(q) THEN UnknownClubCodeError ELSE Unhandled

\* The empty club passes the check and is compared with an enumeration.
StatsFail(q, now) ==
    \/ UnknownVendor(q) \/ BadDate(q) \/ EmptyWindow(q, now) \/ UnknownClub(q)
    \/ q.club = Empty \/ Unreadable(q)

\* Mutant: near-duplicates count.
CountedTwice(rows, q, now) ==
    {r \in rows :
        /\ OfUser(r, q)
        /\ InTime(r, q, now)
        /\ r.club # Putter
        /\ q.club \in Clubs => r.club = q.club}

Counted(rows, q, now) ==
    {r \in rows :
        /\ OfUser(r, q)
        /\ InTime(r, q, now)
        /\ ~ r.duplicate
        /\ r.club # Putter
        /\ q.club \in Clubs => r.club = q.club}

\* ORDER BY captured_at_utc DESC LIMIT: of rows captured together, any.
Cuts(S) ==
    {K \in SUBSET S :
        /\ Cardinality(K) = IF Cardinality(S) < MaxStatsRows THEN Cardinality(S)
                                                             ELSE MaxStatsRows
        /\ \A k \in K, r \in S \ K : r.at <= k.at}

\* The aggregate of a club, up to the arithmetic.
ClubAggregate(K, club) ==
    LET shots == {r \in K : r.club = club}
        spin == {r \in shots : r.spin}
    IN  [sample_size |-> Cardinality(shots),
         low_sample_size |-> Cardinality(shots) < LowSampleSize,
         spin_sample_size |-> Cardinality(spin),
         vendors_excluded |-> {r.vendor : r \in shots \ spin}]

Stats(K) ==
    [shot_count |-> Cardinality(K), capped |-> Cardinality(K) = MaxStatsRows,
     by_club |-> [club \in {r.club : r \in K} |-> ClubAggregate(K, club)]]

=============================================================================
