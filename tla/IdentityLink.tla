------------------------------ MODULE IdentityLink ------------------------------
(***************************************************************************)
(* canonical_user_id: the user_identities table, the two caches before it, *)
(* the requests that link, unlink and list identities (IdentityService),   *)
(* and the processor's use of it, from the lookup of a shot's user to the  *)
(* shot's INSERT. A step is what happens between two awaits. The audit_log *)
(* entry of a link or unlink is part of its transaction and not shown; a   *)
(* transaction that fails does nothing.                                    *)
(***************************************************************************)
CONSTANTS
    User,       \* (vendor, vendor_user_id) pairs
    Canon,      \* canonical_user_ids
    Nobody,     \* NULL, and '' in the cache: no mapping
    Miss,       \* no entry in the resolve cache
    Shot,       \* shots to be processed
    UserOf,     \* [Shot -> User]
    Request,    \* link and unlink requests
    NoRequest,
    Lister,     \* requests that list the identities of a canonical user
    Listed      \* [Lister -> Canon]

ASSUME NobodyIsNobody == Nobody \notin Canon
ASSUME MissIsNoUser == Miss \notin Canon \cup {Nobody}
ASSUME NoRequestIsNoRequest == NoRequest \notin Request
ASSUME ShotsHaveUsers == UserOf \in [Shot -> User]
ASSUME ListersHaveLists == Listed \in [Lister -> Canon]

VARIABLES
    mapping,    \* mapping[u]: canonical_user_id in u's row of user_identities
    cached,     \* cached[u]: entry identity:<vendor>:<vendor_user_id>
    listCache,  \* listCache[c]: entry identity-list:<canonical_user_id>
    exec,       \* exec[s]: the processor's next step with s, the user it resolved
    owner,      \* owner[s]: canonical_user_id of s's row in shots
    ask,        \* ask[r]: what request r asks for
    op,         \* op[r]: what r does next
    reader,     \* reader[l]: what l does next, the rows it has read
    latest,     \* history: latest[u]: the request that wrote u's row last
    missed,     \* history: users a shot of whom was resolved too early
    overtaken,  \* history: lists that were filled, or not evicted, too late
    movedFrom   \* history: canonical users with a user linked to another since

history == <<latest, missed, overtaken, movedFrom>>
vars == <<mapping, cached, listCache, exec, owner, ask, op, reader, history>>

Resolution == Canon \cup {Nobody}

Ask == [link : BOOLEAN, user : User, canon : Canon]

ShotStage == {"lookup", "query", "fill", "insert", "stored"}
OpStage == {"new", "evict", "backfill", "done", "failed"}
ReadStage == {"lookup", "query", "fill"}

TypeOK ==
    /\ mapping \in [User -> Resolution]
    /\ cached \in [User -> Resolution \cup {Miss}]
    /\ listCache \in [Canon -> [hit : BOOLEAN, rows : SUBSET User]]
    /\ exec \in [Shot -> [at : ShotStage, user : Resolution, linked : BOOLEAN]]
    /\ owner \in [Shot -> Resolution]
    /\ ask \in [Request -> Ask]
    /\ op \in [Request -> OpStage]
    /\ reader \in [Lister -> [at : ReadStage, rows : SUBSET User]]
    /\ latest \in [User -> Request \cup {NoRequest}]
    /\ missed \subseteq User
    /\ overtaken \subseteq Canon
    /\ movedFrom \subseteq Canon

NewExec == [at |-> "lookup", user |-> Nobody, linked |-> FALSE]
NoList == [hit |-> FALSE, rows |-> {}]
NewRead == [at |-> "lookup", rows |-> {}]

Init ==
    /\ mapping = [u \in User |-> Nobody]
    /\ cached = [u \in User |-> Miss]
    /\ listCache = [c \in Canon |-> NoList]
    /\ exec = [s \in Shot |-> NewExec]
    /\ owner = [s \in Shot |-> Nobody]
    /\ ask \in [Request -> Ask]
    /\ op = [r \in Request |-> "new"]
    /\ reader = [l \in Lister |-> NewRead]
    /\ latest = [u \in User |-> NoRequest]
    /\ missed = {} /\ overtaken = {} /\ movedFrom = {}

-----------------------------------------------------------------------------

\* user_identities, the rows of one canonical user under mapping m.
RowsOf(c, m) == {u \in User : m[u] = c}

\* Shots of u in the table, and those the backfill is for.
StoredOf(u) == {s \in Shot : UserOf[s] = u /\ exec[s].at = "stored"}
Unowned(u) == {s \in StoredOf(u) : owner[s] = Nobody}

\* A shot of u goes on with another user than m has for u.
Outdated(u, m) ==
    \E s \in Shot : /\ UserOf[s] = u /\ exec[s].at \in {"fill", "insert"}
                    /\ exec[s].user # m[u]

NoteMissed(u, m) ==
    missed' = IF Outdated(u, m) THEN missed \cup {u} ELSE missed

\* Lists about to be cached with other rows than m has for them.
OutdatedLists(m) ==
    {c \in Canon :
        \E l \in Lister : /\ Listed[l] = c /\ reader[l].at = "fill"
                          /\ reader[l].rows # RowsOf(c, m)}

\* The last request that wrote u's row has yet to evict it from the cache, or
\* to backfill.
Evicting(u) == \E r \in Request : latest[u] = r /\ op[r] = "evict"
Backfilling(u) == \E r \in Request : latest[u] = r /\ op[r] = "backfill"

-----------------------------------------------------------------------------
(* The processor: resolveCanonicalUserId, then the INSERT.                 *)

Step(s, at, user) == [exec EXCEPT ![s] = [@ EXCEPT !.at = at, !.user = user]]

\* The cache is asked first; linked notes that the user's mapping was already
\* there, its link request answered.
LookupUser(s) ==
    LET u == UserOf[s]
        hit == cached[u] # Miss
    IN  /\ exec[s].at = "lookup"
        /\ exec' = [exec EXCEPT ![s] =
                      [at |-> IF hit THEN "insert" ELSE "query",
                       user |-> IF hit THEN cached[u] ELSE Nobody,
                       linked |-> mapping[u] # Nobody /\ ~ Evicting(u)]]
        /\ UNCHANGED <<mapping, cached, listCache, owner, ask, op, reader, history>>

\* Mutant: no row is undefined, not null.
QueryRow(s) ==
    /\ exec[s].at = "query"
    /\ exec' = Step(s, "fill", IF mapping[UserOf[s]] = Nobody THEN Miss
                               ELSE mapping[UserOf[s]])
    /\ UNCHANGED <<mapping, cached, listCache, owner, ask, op, reader, history>>

\* A miss: the table is asked.
QueryUser(s) ==
    /\ exec[s].at = "query"
    /\ exec' = Step(s, "fill", mapping[UserOf[s]])
    /\ UNCHANGED <<mapping, cached, listCache, owner, ask, op, reader, history>>

\* ... and its answer cached, no mapping included.
FillUser(s) ==
    /\ exec[s].at = "fill"
    /\ cached' = [cached EXCEPT ![UserOf[s]] = exec[s].user]
    /\ exec' = Step(s, "insert", exec[s].user)
    /\ UNCHANGED <<mapping, listCache, owner, ask, op, reader, history>>

\* upsertIfNew stores the shot with the user resolved.
InsertShot(s) ==
    /\ exec[s].at = "insert"
    /\ owner' = [owner EXCEPT ![s] = exec[s].user]
    /\ exec' = Step(s, "stored", exec[s].user)
    /\ UNCHANGED <<mapping, cached, listCache, ask, op, reader, history>>

\* An await failed: the attempt is over, and the next one begins anew.
FailShot(s) ==
    /\ exec[s].at \in {"query", "fill", "insert"}
    /\ exec' = [exec EXCEPT ![s] = NewExec]
    /\ UNCHANGED <<mapping, cached, listCache, owner, ask, op, reader, history>>

-----------------------------------------------------------------------------
(* linkIdentity and unlinkIdentity.                                        *)

Goto(r, at) == op' = [op EXCEPT ![r] = at]

\* Lists that lose u to c and are cached, or about to be, with u in it.
LosersOf(u, c) == {mapping[u]} \cap (Canon \ {c})

\* The transaction of linkIdentity: the mapping is upserted.
CommitLink(r) ==
    LET u == ask[r].user
        c == ask[r].canon
        m == [mapping EXCEPT ![u] = c]
    IN  /\ op[r] = "new" /\ ask[r].link
        /\ mapping' = m
        /\ Goto(r, "evict")
        /\ latest' = [latest EXCEPT ![u] = r]
        /\ NoteMissed(u, m)
        /\ overtaken' = overtaken \cup OutdatedLists(m)
        /\ movedFrom' = movedFrom \cup LosersOf(u, c)
        /\ UNCHANGED <<cached, listCache, exec, owner, ask, reader>>

\* The transaction of unlinkIdentity: the row goes, if it is the one asked for;
\* IdentityNotFoundError otherwise.
CommitUnlink(r) ==
    LET u == ask[r].user
        m == [mapping EXCEPT ![u] = Nobody]
    IN  /\ op[r] = "new" /\ ~ ask[r].link
        /\ IF mapping[u] = ask[r].canon
             THEN /\ mapping' = m
                  /\ Goto(r, "evict")
                  /\ latest' = [latest EXCEPT ![u] = r]
                  /\ NoteMissed(u, m)
                  /\ overtaken' = overtaken \cup OutdatedLists(m)
             ELSE /\ Goto(r, "failed")
                  /\ UNCHANGED <<mapping, latest, missed, overtaken>>
        /\ UNCHANGED <<cached, listCache, exec, owner, ask, reader, movedFrom>>

\* Mutant: only the list is evicted.
EvictList(r) == cached

\* The DEL of the resolve cache's key ...
EvictUser(r) == [cached EXCEPT ![ask[r].user] = Miss]

\* Mutant: the list's key is forgotten.
KeepLists(r) == listCache

\* ... and of the list cache's.
EvictLists(r) == [listCache EXCEPT ![ask[r].canon] = NoList]

\* redis.del of both keys; a link goes on to its backfill.
Evict(r) ==
    /\ op[r] = "evict"
    /\ cached' = EvictUser(r)
    /\ listCache' = EvictLists(r)
    /\ Goto(r, IF ask[r].link THEN "backfill" ELSE "done")
    /\ NoteMissed(ask[r].user, mapping)
    /\ UNCHANGED <<mapping, exec, owner, ask, reader, latest, overtaken, movedFrom>>

\* Redis is not there: the request fails, its transaction committed, with the
\* cache entries as they were and no backfill.
FailEvict(r) ==
    /\ op[r] = "evict"
    /\ Goto(r, "failed")
    /\ missed' = missed \cup {ask[r].user}
    /\ overtaken' = overtaken \cup {ask[r].canon}
    /\ UNCHANGED <<mapping, cached, listCache, exec, owner, ask, reader, latest,
                   movedFrom>>

\* Mutant: the backfill forgets canonical_user_id IS NULL.
WholeHistory(u) == StoredOf(u)

\* The rows the backfill updates.
Backfillable(u) == Unowned(u)

\* The backfill, after the answer: an UPDATE of the shots without a user.
Backfill(r) ==
    /\ op[r] = "backfill"
    /\ owner' = [s \in Shot |-> IF s \in Backfillable(ask[r].user)
                                  THEN ask[r].canon ELSE owner[s]]
    /\ Goto(r, "done")
    /\ UNCHANGED <<mapping, cached, listCache, exec, ask, reader, history>>

\* The backfill fails, which is logged, or dies with the process.
LoseBackfill(r) ==
    /\ op[r] = "backfill"
    /\ Goto(r, "failed")
    /\ missed' = missed \cup {ask[r].user}
    /\ UNCHANGED <<mapping, cached, listCache, exec, owner, ask, reader, latest,
                   overtaken, movedFrom>>

-----------------------------------------------------------------------------
(* listByCanonicalUser, and the TTLs.                                      *)

\* A miss; a hit is answered from the cache.
LookupList(l) ==
    /\ reader[l].at = "lookup" /\ ~ listCache[Listed[l]].hit
    /\ reader' = [reader EXCEPT ![l] = [at |-> "query", rows |-> {}]]
    /\ UNCHANGED <<mapping, cached, listCache, exec, owner, ask, op, history>>

QueryList(l) ==
    /\ reader[l].at = "query"
    /\ reader' = [reader EXCEPT ![l] = [at |-> "fill",
                                        rows |-> RowsOf(Listed[l], mapping)]]
    /\ UNCHANGED <<mapping, cached, listCache, exec, owner, ask, op, history>>

\* The cache write, not awaited; it may fail, as may the SELECT before it.
FillList(l) ==
    /\ reader[l].at = "fill"
    /\ listCache' = [listCache EXCEPT ![Listed[l]] = [hit |-> TRUE,
                                                      rows |-> reader[l].rows]]
    /\ reader' = [reader EXCEPT ![l] = NewRead]
    /\ UNCHANGED <<mapping, cached, exec, owner, ask, op, history>>

FailRead(l) ==
    /\ reader[l].at \in {"query", "fill"}
    /\ reader' = [reader EXCEPT ![l] = NewRead]
    /\ UNCHANGED <<mapping, cached, listCache, exec, owner, ask, op, history>>

\* Mutant: SET without EX.
NeverExpires(u) == FALSE /\ UNCHANGED vars

\* IDENTITY_CACHE_TTL_S.
ExpireUser(u) ==
    /\ cached[u] # Miss
    /\ cached' = [cached EXCEPT ![u] = Miss]
    /\ UNCHANGED <<mapping, listCache, exec, owner, ask, op, reader, history>>

\* IDENTITY_LIST_CACHE_TTL_S.
ExpireList(c) ==
    /\ listCache[c].hit
    /\ listCache' = [listCache EXCEPT ![c] = NoList]
    /\ UNCHANGED <<mapping, cached, exec, owner, ask, op, reader, history>>

-----------------------------------------------------------------------------

ProcessStep(s) == LookupUser(s) \/ QueryUser(s) \/ FillUser(s) \/ InsertShot(s)
RequestStep(r) == Evict(r) \/ FailEvict(r) \/ Backfill(r) \/ LoseBackfill(r)
ReadStep(l) == LookupList(l) \/ QueryList(l) \/ FillList(l)

Next ==
    \/ \E s \in Shot : ProcessStep(s) \/ FailShot(s)
    \/ \E r \in Request : CommitLink(r) \/ CommitUnlink(r) \/ RequestStep(r)
    \/ \E l \in Lister : ReadStep(l) \/ FailRead(l)
    \/ \E u \in User : ExpireUser(u)
    \/ \E c \in Canon : ExpireList(c)

Spec == Init /\ [][Next]_vars

\* What has begun goes on, and entries expire in the end: a filled entry is
\* written once, so its TTL runs out unless it is evicted before.
Fairness ==
    /\ \A s \in Shot : WF_vars(ProcessStep(s))
    /\ \A r \in Request : WF_vars(RequestStep(r))
    /\ \A l \in Lister : WF_vars(ReadStep(l))
    /\ \A u \in User : WF_vars(ExpireUser(u))
    /\ \A c \in Canon : WF_vars(ExpireList(c))

FairSpec == Spec /\ Fairness

-----------------------------------------------------------------------------

\* The resolve cache answers as the table would, except between a link's
\* commit and its DEL, and unless a shot in the middle of its lookup wrote back
\* what it had read before, or the DEL failed (resolveCanonicalUserId against
\* linkIdentity and unlinkIdentity).
UserCacheIsFresh ==
    \A u \in User \ missed :
        ~ Evicting(u) => cached[u] \in {Miss, mapping[u]}

EvictingList(c) == \E r \in Request : ask[r].canon = c /\ op[r] = "evict"

FreshList(c) == listCache[c].hit => listCache[c].rows = RowsOf(c, mapping)

\* The same of a list, which is stale too after a user of it was linked to
\* another canonical user: linkIdentity evicts the new one's list only.
ListCacheIsFresh ==
    \A c \in Canon \ (overtaken \cup movedFrom) : ~ EvictingList(c) => FreshList(c)

\* Once link and backfill are through, every stored shot of a mapped user has
\* an owner, unless the shot was resolved before the link and stored after it,
\* or the DEL or the backfill was lost (linkIdentity's backfill).
OrphansWereMissed ==
    \A u \in User \ missed :
        ~ Evicting(u) /\ ~ Backfilling(u) /\ mapping[u] # Nobody => Unowned(u) = {}

\* A shot that has an owner keeps it, through links, unlinks and backfills
\* (unlinkIdentity: existing shots retain their canonical_user_id).
OwnerIsKept ==
    [][\A s \in Shot : owner[s] # Nobody => owner'[s] = owner[s]]_vars

\* When links come to an end, stale entries do: from some time on both caches
\* answer as the table would (the TTLs).
CachesConverge ==
    <>[](/\ \A u \in User : cached[u] \in {Miss, mapping[u]}
         /\ \A c \in Canon : FreshList(c))

-----------------------------------------------------------------------------
(* The invariants behind them.                                             *)

\* The request that wrote a row last was about that user; an unlink took the
\* mapping away; only a link backfills.
LatestWrote ==
    /\ \A u \in User : \A r \in Request :
          latest[u] = r => /\ ask[r].user = u /\ op[r] # "new"
                           /\ ~ ask[r].link => mapping[u] = Nobody
    /\ \A r \in Request : op[r] = "backfill" => ask[r].link

\* A row not yet there has no owner.
OwnersAreStored == \A s \in Shot : exec[s].at # "stored" => owner[s] = Nobody

\* What a shot of u carries from the table is what the table has, and so is
\* what it carries from the cache once the cache is evicted.
CarriedIsFresh(u) ==
    \A s \in Shot :
        /\ UserOf[s] = u
        /\ \/ exec[s].at = "fill"
           \/ exec[s].at = "insert" /\ ~ Evicting(u)
        => exec[s].user = mapping[u]

ShotsCarryTheMapping == \A u \in User \ missed : CarriedIsFresh(u)

\* Rows about to be cached are those of the table.
ReadsAreFresh ==
    \A l \in Lister :
        reader[l].at = "fill" /\ Listed[l] \notin overtaken \cup movedFrom
            => reader[l].rows = RowsOf(Listed[l], mapping)

UserInv == LatestWrote /\ ShotsCarryTheMapping /\ UserCacheIsFresh
ListInv == ReadsAreFresh /\ ListCacheIsFresh
OwnerInv == OwnersAreStored /\ OrphansWereMissed

-----------------------------------------------------------------------------
(* What the comments say and the code does not keep.                       *)

\* "Any shot processed AFTER the commit will have its canonical_user_id
\* resolved at processing time" (linkIdentity): a shot whose processing began
\* after the link was answered has an owner, nothing having failed.
LinkedShotsAreOwned ==
    (\A r \in Request : op[r] \in {"new", "done"}) =>
        \A s \in Shot :
            exec[s].at = "stored" /\ exec[s].linked /\ mapping[UserOf[s]] # Nobody
              => owner[s] # Nobody

\* "Stale reads are bounded ... only if a DEL races with this write"
\* (listByCanonicalUser): a list is stale only if its fill was overtaken.
StaleListsWereOvertaken ==
    (\A r \in Request : op[r] # "evict") =>
        \A c \in Canon \ overtaken : FreshList(c)

=============================================================================
