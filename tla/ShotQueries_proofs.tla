--------------------------- MODULE ShotQueries_proofs ---------------------------
(***************************************************************************)
(* Theorems about what UserApi answers to a query, for any table and any   *)
(* parameters: how large a page is, which parameters end in an error of    *)
(* the server, and that the statistics count what the listing shows.       *)
(***************************************************************************)
EXTENDS UserApi_proofs

-----------------------------------------------------------------------------
(* The size of a page.                                                     *)

\* No more than n rows are the n newest.
LEMMA NewestAtMost ==
  ASSUME NEW S, IsFiniteSet(S), Table(S), NEW n \in Nat
  PROVE  Cardinality(Newest(S, n)) \in 0 .. n
<1> DEFINE N == Newest(S, n)
           rank == [r \in N |-> Cardinality(Newer(S, r))]
<1>1. /\ N \subseteq S
      /\ \A r \in N : Cardinality(Newer(S, r)) \in Nat /\ Cardinality(Newer(S, r)) < n
  BY NewestMembers, NewerCount
<1>2. \A r, s \in N : r # s => Cardinality(Newer(S, r)) # Cardinality(Newer(S, s))
  BY <1>1, TotalOrder, NewerShrinks
<1>3. rank \in [N -> 0 .. n - 1]
  BY <1>1
<1>4. \A r, s \in N : rank[r] = rank[s] => r = s
  BY <1>2
<1> HIDE DEF N, rank
<1>5. rank \in Injection(N, 0 .. n - 1)
  BY <1>3, <1>4 DEF Injection, IsInjective
<1>6. IsFiniteSet(0 .. n - 1) /\ Cardinality(0 .. n - 1) = n
  BY FS_Interval
<1>7. Cardinality(N) <= n /\ IsFiniteSet(N)
  BY <1>5, <1>6, FS_Injection
<1>8. Cardinality(N) \in Nat
  BY <1>7, FS_CardinalityType
<1> QED
  BY <1>7, <1>8 DEF N

\* No limit, however large or small, makes a page larger than the maximum.
LEMMA PageSize ==
  ASSUME TableInv, IsQuery(query)
  PROVE  Cardinality(PageRows) \in 0 .. MaxLimit
<1> DEFINE F == Fetched(rows, query, walk.cursor, now)
           L == Limit(query)
<1>1. L \in Int /\ L <= MaxLimit /\ MaxLimit \in Nat
  BY LimitsAreNumbers DEF IsQuery, Limit
<1>2. IsFiniteSet(F) /\ Table(F)
  <2>1. F \subseteq rows
    BY NewestMembers DEF Fetched, Listed
  <2> QED
    BY <2>1, TableParts DEF TableInv, Table
<1>3. PageRows = Newest(F, L)
  BY DEF PageRows
<1> HIDE DEF F, L
<1>4. CASE L \in Nat
  BY <1>1, <1>2, <1>3, <1>4, NewestAtMost
<1>5. CASE L \notin Nat
  <2>1. Newest(F, L) = {}
    BY <1>1, <1>2, <1>5, NewestMembers, NewerCount
  <2> QED
    BY <1>1, <1>3, <2>1, FS_EmptySet
<1> QED
  BY <1>4, <1>5

-----------------------------------------------------------------------------
(* Errors.                                                                 *)

\* What the filter makes of the errors of the queries.
LEMMA ErrorStatuses ==
  /\ Catch(UnknownVendorError).status = 400
  /\ Catch(InvalidDateError).status = 400
  /\ Catch(UnknownClubCodeError).status = 400
  /\ Catch(InvalidCursorError).status = 400
  /\ Catch(Unhandled).status = 500
BY DEF Catch, UnknownVendorError, InvalidDateError, UnknownClubCodeError,
   InvalidCursorError, Unhandled, Domain, DomainErrorToHttp, Problem

\* A page that fails without an undated cursor, a limit below -1 or what the database
\* cannot read is a bad request.
LEMMA PageErrors ==
  ASSUME NEW q, IsQuery(q), NEW cursor, QueryFails(q, cursor)
  PROVE  /\ Catch(QueryError(q, cursor)).status \in {400, 500}
         /\ Catch(QueryError(q, cursor)).status = 500 =>
                cursor = Undated \/ Limit(q) < -1 \/ Unreadable(q)
<1>1. CASE UnknownVendor(q)
  <2>1. QueryError(q, cursor) = UnknownVendorError
    BY <1>1, Zenon DEF QueryError
  <2> QED
    BY <2>1, ErrorStatuses
<1>2. CASE ~ UnknownVendor(q) /\ BadDate(q)
  <2>1. QueryError(q, cursor) = InvalidDateError
    BY <1>2, Zenon DEF QueryError
  <2> QED
    BY <2>1, ErrorStatuses
<1>3. CASE ~ UnknownVendor(q) /\ ~ BadDate(q) /\ UnknownClub(q)
  <2>1. QueryError(q, cursor) = UnknownClubCodeError
    BY <1>3, Zenon DEF QueryError
  <2> QED
    BY <2>1, ErrorStatuses
<1>4. CASE ~ UnknownVendor(q) /\ ~ BadDate(q) /\ ~ UnknownClub(q)
  <2>1. QueryError(q, cursor) = IF cursor = Garbled THEN InvalidCursorError ELSE Unhandled
    BY <1>4, Zenon DEF QueryError
  <2>2. cursor \in {Garbled, Undated} \/ Limit(q) + 1 < 0 \/ Unreadable(q)
    BY <1>4 DEF QueryFails
  <2>3. Limit(q) \in Int
    BY LimitIsInt DEF IsQuery
  <2>4. CASE cursor = Garbled
    BY <2>1, <2>4, ErrorStatuses
  <2>5. CASE cursor # Garbled
    BY <2>1, <2>2, <2>3, <2>5, ErrorStatuses
  <2> QED
    BY <2>4, <2>5
<1> QED
  BY <1>1, <1>2, <1>3, <1>4

\* Statistics that fail for another reason than an empty club, or what the database
\* cannot read, are a bad request.
LEMMA StatsErrors ==
  ASSUME NEW q, NEW time, StatsFail(q, time)
  PROVE  /\ Catch(StatsError(q, time)).status \in {400, 500}
         /\ Catch(StatsError(q, time)).status = 500 => q.club = Empty \/ Unreadable(q)
<1>1. CASE UnknownVendor(q)
  <2>1. StatsError(q, time) = UnknownVendorError
    BY <1>1, Zenon DEF StatsError
  <2> QED
    BY <2>1, ErrorStatuses
<1>2. CASE ~ UnknownVendor(q) /\ (BadDate(q) \/ EmptyWindow(q, time))
  <2>1. StatsError(q, time) = InvalidDateError
    BY <1>2, Zenon DEF StatsError, EmptyWindow
  <2> QED
    BY <2>1, ErrorStatuses
<1>3. CASE ~ UnknownVendor(q) /\ ~ BadDate(q) /\ ~ EmptyWindow(q, time)
  <2>1. StatsError(q, time) = IF UnknownClub(q) THEN UnknownClubCodeError ELSE Unhandled
    BY <1>3, Zenon DEF StatsError
  <2>2. UnknownClub(q) \/ q.club = Empty \/ Unreadable(q)
    BY <1>3 DEF StatsFail
  <2> QED
    BY <2>1, <2>2, ErrorStatuses
<1> QED
  BY <1>1, <1>2, <1>3

-----------------------------------------------------------------------------
(* The invariant of what is answered.                                      *)

\* What the client has been answered, and the links there are.
QueryInv ==
    /\ IsQuery(query)
    /\ mapping \cup backfills \subseteq {LinkOf(r) : r \in Request}
    /\ walk.at \in {"on", "ended", "refused"}
    /\ walk.size \in 0 .. MaxLimit
    /\ report.status \in {0, 200, 400, 500}
    /\ QueryErrorsAreKnown

\* Nothing has been answered at first.
LEMMA InitQuery == Init => QueryInv
<1> SUFFICES ASSUME Init PROVE QueryInv
  OBVIOUS
<1>1. PICK sc \in Scenario :
         /\ query = sc.query
         /\ walk = [at |-> "on", status |-> 0, cursor |-> sc.cursor, size |-> 0,
                    seen |-> {}, twice |-> {}, steady |-> {}]
  BY Zenon DEF Init
<1>2. walk.at = "on" /\ walk.status = 0 /\ walk.size = 0
  BY <1>1
<1>3. mapping = {} /\ backfills = {} /\ report.status = 0
  BY DEF Init
<1>4. IsQuery(query) /\ 0 \in 0 .. MaxLimit
  BY <1>1, ScenariosAreTables, LimitsAreNumbers
<1> QED
  BY <1>2, <1>3, <1>4 DEF QueryInv, QueryErrorsAreKnown

\* A page answers as it should.
LEMMA PageAnswers ==
  ASSUME QueryInv, TableInv, IsWalk(walk), GetPage
  PROVE  QueryInv'
<1>1. UNCHANGED <<mapping, backfills, query, report>>
  BY Zenon DEF GetPage, dbVars
<1>2. CASE QueryFails(query, walk.cursor)
  <2> DEFINE status == Catch(QueryError(query, walk.cursor)).status
  <2>1. walk' = [walk EXCEPT !.at = "refused", !.status = status]
    BY <1>2, Zenon DEF GetPage
  <2>2. /\ status \in {400, 500}
        /\ status = 500 =>
              walk.cursor = Undated \/ Limit(query) < -1 \/ Unreadable(query)
    BY <1>2, PageErrors DEF QueryInv
  <2> HIDE DEF status
  <2>3. /\ walk'.at = "refused" /\ walk'.status = status
        /\ walk'.cursor = walk.cursor /\ walk'.size = walk.size
    BY <2>1, Zenon DEF IsWalk
  <2> QED
    BY <1>1, <2>2, <2>3 DEF QueryInv, QueryErrorsAreKnown, Limit, Unreadable, NoTimestamp
<1>3. CASE ~ QueryFails(query, walk.cursor)
  <2> DEFINE page == Page(rows, query, walk.cursor, now)
             listed == Ids(Listed(rows, query, now))
  <2>1. walk' = [at |-> IF page.next_cursor = Absent THEN "ended" ELSE "on",
                 status |-> 200,
                 cursor |-> page.next_cursor,
                 size |-> Cardinality(page.data),
                 seen |-> walk.seen \cup Ids(page.data),
                 twice |-> walk.twice \cup (walk.seen \cap Ids(page.data)),
                 steady |-> IF walk.status = 0 THEN listed ELSE walk.steady \cap listed]
    BY <1>3, Zenon DEF GetPage
  <2>2. page.data = PageRows
    BY DEF Page, PageRows
  <2> HIDE DEF page, listed
  <2>3. walk'.at \in {"on", "ended"} /\ walk'.status = 200 /\ walk'.size = Cardinality(PageRows)
    BY <2>1, <2>2
  <2>4. walk'.size \in 0 .. MaxLimit
    BY <2>3, PageSize DEF QueryInv
  <2> QED
    BY <1>1, <2>3, <2>4 DEF QueryInv, QueryErrorsAreKnown
<1> QED
  BY <1>2, <1>3

\* So do the statistics.
LEMMA StatsAnswer ==
  ASSUME QueryInv, GetStats
  PROVE  QueryInv'
<1>1. UNCHANGED <<mapping, backfills, query, walk>>
  BY Zenon DEF GetStats, dbVars
<1>2. \/ report'.status = 200
      \/ /\ report'.status \in {400, 500}
         /\ report'.status = 500 => query.club = Empty \/ Unreadable(query)
  <2>1. CASE StatsFail(query, now)
    <3> DEFINE status == Catch(StatsError(query, now)).status
    <3>1. report' = [status |-> status, body |-> Absent]
      BY <2>1, Zenon DEF GetStats
    <3>2. status \in {400, 500} /\ (status = 500 => query.club = Empty \/ Unreadable(query))
      BY <2>1, StatsErrors
    <3> HIDE DEF status
    <3> QED
      BY <3>1, <3>2
  <2>2. CASE ~ StatsFail(query, now)
    <3>1. PICK kept \in Cuts(Counted(rows, query, now)) :
             report' = [status |-> 200, body |-> Stats(kept)]
      BY <2>2, Zenon DEF GetStats
    <3> QED
      BY <3>1
  <2> QED
    BY <2>1, <2>2
<1> QED
  BY <1>1, <1>2 DEF QueryInv, QueryErrorsAreKnown, Limit, Unreadable, NoTimestamp

\* Links are what requests ask for.
LEMMA LinksAreAsked ==
  ASSUME QueryInv, [Next]_vars, UNCHANGED <<query, walk, report>>
  PROVE  QueryInv'
<1>1. mapping' \cup backfills' \subseteq {LinkOf(r) : r \in Request}
  <2>1. ASSUME mapping' \subseteq mapping, backfills' \subseteq backfills
        PROVE  mapping' \cup backfills' \subseteq {LinkOf(r) : r \in Request}
    BY <2>1 DEF QueryInv
  <2>2. ASSUME NEW r \in Request, LinkIdentity(r)
        PROVE  mapping' \cup backfills' \subseteq {LinkOf(s) : s \in Request}
    <3>1. mapping' \subseteq mapping \cup {LinkOf(r)}
      BY <2>2, Zenon DEF LinkIdentity
    <3>2. backfills' = backfills \cup {LinkOf(r)}
      BY <2>2, Zenon DEF LinkIdentity
    <3> QED
      BY <3>1, <3>2 DEF QueryInv
  <2>3. \/ mapping' \subseteq mapping /\ backfills' \subseteq backfills
        \/ \E r \in Request : LinkIdentity(r)
    BY Zenon DEF Next, vars, dbVars, GetPage, GetStats, StoreShot, FlagShot, Backfill, Tick,
       AroundHandler, LinkRefused, LinkFails, Lose
  <2> QED
    BY <2>1, <2>2, <2>3
<1> QED
  BY <1>1 DEF QueryInv, QueryErrorsAreKnown, Limit, Unreadable, NoTimestamp

\* Only the two queries answer.
LEMMA OnlyQueriesAnswer ==
  [Next]_vars => GetPage \/ GetStats \/ UNCHANGED <<query, walk, report>>
BY Zenon DEF Next, vars, StoreShot, FlagShot, Backfill, Tick, AroundHandler, LinkIdentity,
   LinkRefused, LinkFails, Lose

\* The invariant holds always.
LEMMA QueryInvariant == Spec => []QueryInv
<1>1. ASSUME ListInv, QueryInv, [Next]_vars PROVE QueryInv'
  BY <1>1, OnlyQueriesAnswer, PageAnswers, StatsAnswer, LinksAreAsked
     DEF ListInv, WalkInv
<1> QED
  BY <1>1, InitQuery, ListInvariant, PTL DEF Spec

\* Every variable keeps its type, and no page has more shots than the maximum.
THEOREM PortalIsTyped == Spec => []TypeOK
<1>1. IdemInv /\ ListInv /\ QueryInv => TypeOK
  BY DEF IdemInv, EarnInv, ListInv, TableInv, Table, IsRow, QueryInv, TypeOK
<1> QED
  BY <1>1, IdemInvariant, ListInvariant, QueryInvariant, PTL

\* While the database answers, a query ends in 500 only for a bound of the window in a
\* year that PostgreSQL does not read, a user id with a NUL, a cursor of no timestamp
\* or id, a limit below -1 or, with the statistics, an empty club.
THEOREM QueryErrorsKnown == Spec => []QueryErrorsAreKnown
<1>1. QueryInv => QueryErrorsAreKnown
  BY DEF QueryInv
<1> QED
  BY <1>1, QueryInvariant, PTL

-----------------------------------------------------------------------------
(* The statistics and the listing.                                         *)

\* The rows the statistics are about are those of the listing without near-duplicates,
\* but for the putts.
LEMMA CountedIsListed ==
  ASSUME NEW S, NEW q, IsQuery(q), NEW time
  PROVE  Counted(S, q, time)
            = {r \in Listed(S, [q EXCEPT !.duplicates = FALSE], time) : r.club # Putter}
<1> DEFINE p == [q EXCEPT !.duplicates = FALSE]
<1>1. /\ p.duplicates = FALSE
      /\ p.by = q.by /\ p.vendor = q.vendor /\ p.user = q.user
      /\ p.since = q.since /\ p.until = q.until /\ p.club = q.club
  BY Zenon DEF IsQuery
<1> HIDE DEF p
<1>2. \A r : OfUser(r, p) <=> OfUser(r, q)
  BY <1>1 DEF OfUser
<1>3. \A r : InTime(r, p, time) <=> InTime(r, q, time)
  BY <1>1, Zenon DEF InTime, Since, Until
<1>4. Counted(S, q, time) = {r \in Listed(S, p, time) : r.club # Putter}
  BY <1>1, <1>2, <1>3, Zenon DEF Counted, Listed
<1> QED
  BY <1>4 DEF p

\* A cut of a finite set is all of it, or as many as the statistics take at most.
LEMMA CutSize ==
  ASSUME NEW S, IsFiniteSet(S), NEW K \in Cuts(S)
  PROVE  /\ Cardinality(K) \in Nat /\ Cardinality(S) \in Nat
         /\ K = S \/ (Cardinality(K) = MaxStatsRows /\ Cardinality(K) < Cardinality(S))
<1>1. K \subseteq S
      /\ Cardinality(K) = IF Cardinality(S) < MaxStatsRows THEN Cardinality(S)
                                                           ELSE MaxStatsRows
  BY DEF Cuts
<1>2. /\ IsFiniteSet(K) /\ Cardinality(K) <= Cardinality(S)
      /\ Cardinality(K) = Cardinality(S) => K = S
  BY <1>1, FS_Subset
<1>3. Cardinality(K) \in Nat /\ Cardinality(S) \in Nat
  BY <1>2, FS_CardinalityType
<1> QED
  BY <1>1, <1>2, <1>3, LimitsAreNumbers

\* What the statistics count is what the listing shows without near-duplicates and
\* putts, or they are capped.
THEOREM StatisticsAgree == Spec => StatsAgreeWithListing
<1> DEFINE shown == {r \in Listed(rows, [query EXCEPT !.duplicates = FALSE], now) :
                        r.club # Putter}
<1>1. ASSUME TableInv, QueryInv, GetStats, report'.status = 200
      PROVE  AnswerAgrees
  <2>1. PICK kept \in Cuts(Counted(rows, query, now)) :
           report' = [status |-> 200, body |-> Stats(kept)]
    <3>1. CASE StatsFail(query, now)
      <4>1. report'.status = Catch(StatsError(query, now)).status
        <5>1. report' = [status |-> Catch(StatsError(query, now)).status, body |-> Absent]
          BY <1>1, <3>1, Zenon DEF GetStats
        <5> QED
          BY <5>1
      <4> QED
        BY <1>1, <3>1, <4>1, StatsErrors
    <3>2. CASE ~ StatsFail(query, now)
      BY <1>1, <3>2, Zenon DEF GetStats
    <3> QED
      BY <3>1, <3>2
  <2>2. Counted(rows, query, now) = shown
    BY <1>1, CountedIsListed DEF QueryInv
  <2>3. IsFiniteSet(shown)
    <3>1. shown \subseteq rows /\ IsFiniteSet(rows)
      BY <1>1 DEF Listed, TableInv, Table
    <3> QED
      BY <3>1, FS_Subset
  <2> HIDE DEF shown
  <2>4. /\ Cardinality(kept) \in Nat /\ Cardinality(shown) \in Nat
        /\ \/ kept = shown
           \/ Cardinality(kept) = MaxStatsRows /\ Cardinality(kept) < Cardinality(shown)
    BY <2>1, <2>2, <2>3, CutSize
  <2>5. /\ report'.body.shot_count = Cardinality(kept)
        /\ report'.body.capped <=> Cardinality(kept) = MaxStatsRows
        /\ report'.body.by_club = [club \in {r.club : r \in kept} |-> ClubAggregate(kept, club)]
    BY <2>1 DEF Stats
  <2>6. ASSUME kept = shown, NEW c \in {r.club : r \in shown}
        PROVE  report'.body.by_club[c].sample_size = Cardinality({r \in shown : r.club = c})
    <3>1. report'.body.by_club[c] = ClubAggregate(kept, c)
      BY <2>5, <2>6
    <3>2. ClubAggregate(kept, c).sample_size = Cardinality({r \in kept : r.club = c})
      BY DEF ClubAggregate
    <3> QED
      BY <2>6, <3>1, <3>2
  <2>7. /\ \/ report'.body.shot_count = Cardinality(shown)
           \/ report'.body.capped /\ report'.body.shot_count < Cardinality(shown)
        /\ \A c \in {r.club : r \in shown} :
              report'.body.capped
              \/ report'.body.by_club[c].sample_size
                    = Cardinality({r \in shown : r.club = c})
    BY <2>4, <2>5, <2>6
  <2> QED
    BY <2>7 DEF AnswerAgrees, shown
<1>2. ASSUME ListInv, QueryInv, [Next]_vars
      PROVE  [AnswerAgrees]_vars
  <2>1. CASE report' = report
    BY <2>1, Zenon DEF AnswerAgrees
  <2>2. CASE report' # report
    <3>1. GetStats
      BY <1>2, <2>2, Zenon DEF Next, vars, GetPage, StoreShot, FlagShot, Backfill, Tick,
         AroundHandler, LinkIdentity, LinkRefused, LinkFails, Lose
    <3>2. CASE report'.status = 200
      BY <1>1, <1>2, <3>1, <3>2 DEF ListInv
    <3>3. CASE report'.status # 200
      BY <3>3, Zenon DEF AnswerAgrees
    <3> QED
      BY <3>2, <3>3
  <2> QED
    BY <2>1, <2>2
<1> QED
  BY <1>2, ListInvariant, QueryInvariant, PTL DEF Spec, StatsAgreeWithListing
=============================================================================
