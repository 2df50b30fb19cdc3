------------------------------ MODULE Idempotency ------------------------------
(***************************************************************************)
(* IdempotencyInterceptor, around the handler of POST .../identities: the  *)
(* answer to a request with an Idempotency-Key is cached, and replayed to  *)
(* the next with the same path and key. The lookup, the handler and the    *)
(* write are steps of their own; the write is not awaited and may land     *)
(* after the answer, or never. Redis may fail at either end, an entry      *)
(* expires, and the process may die.                                       *)
(***************************************************************************)
EXTENDS ErrorMapping

CONSTANTS
    Request,
    PathOf,     \* [Request -> paths]
    KeyOf,      \* [Request -> keys, NoKey or LongKey]
    NoKey,      \* no header
    LongKey     \* more than 128 characters

ASSUME EntriesAreNoRequests == {"nothing", "garbage"} \cap Request = {}

VARIABLES
    cache,      \* cache[k]: "nothing", "garbage", or the request it answers
    call,       \* call[r]: what r does, and what it was answered
    overlap,    \* history: overlap[r]: requests r's lookup came before the end of
    faulty      \* history: cache keys Redis has failed or forgotten

idemVars == <<cache, call, overlap, faulty>>

\* Mutant: the key alone.
KeyAlone(r) == KeyOf[r]

\* buildCacheKey: the path, without the query, and the key.
CacheKey(r) == <<PathOf[r], KeyOf[r]>>

CacheKeys == {CacheKey(r) : r \in Request}

\* A request: where it is, its answer, the request that this is the answer of,
\* and the write to the cache ("wanted": if the handler succeeds).
Call(at, status, by, write) ==
    [at |-> at, status |-> status, by |-> by, write |-> write]

\* The requests that will be sent.
IdemInit(sent) ==
    /\ cache = [k \in CacheKeys |-> "nothing"]
    /\ call = [r \in Request |->
                  Call(IF r \in sent THEN "new" ELSE "gone", 0, r, "none")]
    /\ overlap = [r \in Request |-> {}]
    /\ faulty = {}

\* Requests with the same header that are under way.
UnderWay(r) ==
    {s \in Request \ {r} : CacheKey(s) = CacheKey(r)
                           /\ (call[s].at = "run" \/ call[s].write = "pending")}

ToHandler(r, write) ==
    call' = [call EXCEPT ![r] = Call("run", 0, r, write)]

\* No header: no caching. A long key is refused.
PassThrough(r) ==
    /\ call[r].at = "new"
    /\ KeyOf[r] = NoKey
    /\ ToHandler(r, "none")
    /\ UNCHANGED <<cache, overlap, faulty>>

RefuseKey(r) ==
    /\ call[r].at = "new"
    /\ KeyOf[r] = LongKey
    /\ call' = [call EXCEPT ![r] =
                  Call("answered", Catch(BadRequestException).status, r, "none")]
    /\ UNCHANGED <<cache, overlap, faulty>>

Looks(r) == call[r].at = "new" /\ KeyOf[r] \notin {NoKey, LongKey}

\* A hit is replayed.
Replay(r) ==
    /\ Looks(r)
    /\ cache[CacheKey(r)] \in Request
    /\ LET by == cache[CacheKey(r)]
       IN  call' = [call EXCEPT ![r] =
                      Call("answered", call[by].status, by, "none")]
    /\ UNCHANGED <<cache, overlap, faulty>>

\* A miss, or an entry that is no JSON: executeAndCache.
LookupMiss(r) ==
    /\ Looks(r)
    /\ cache[CacheKey(r)] \notin Request
    /\ ToHandler(r, "wanted")
    /\ overlap' = [overlap EXCEPT ![r] = UnderWay(r)]
    /\ UNCHANGED <<cache, faulty>>

\* Redis does not answer: the handler runs, uncached.
LookupFails(r) ==
    /\ Looks(r)
    /\ ToHandler(r, "none")
    /\ overlap' = [overlap EXCEPT ![r] = UnderWay(r)]
    /\ faulty' = faulty \cup {CacheKey(r)}
    /\ UNCHANGED cache

\* Mutant: only 200 counts as success.
EndWith200Cached(r, status) ==
    /\ call[r].at = "run"
    /\ call' = [call EXCEPT ![r] =
                  Call("answered", status, r,
                       IF @.write = "wanted" /\ status = 200 THEN "pending" ELSE "none")]
    /\ UNCHANGED <<cache, overlap, faulty>>

\* The handler ends: a 2xx answer is on its way to the cache when it is given.
End(r, status) ==
    /\ call[r].at = "run"
    /\ call' = [call EXCEPT ![r] =
                  Call("answered", status, r,
                       IF @.write = "wanted" /\ status \in 200 .. 299 THEN "pending" ELSE "none")]
    /\ UNCHANGED <<cache, overlap, faulty>>

Written(r, how) ==
    call' = [call EXCEPT ![r] = Call(@.at, @.status, @.by, how)]

\* SET ... EX.
Store(r) ==
    /\ call[r].write = "pending"
    /\ Written(r, "stored")
    /\ cache' = [cache EXCEPT ![CacheKey(r)] = r]
    /\ UNCHANGED <<overlap, faulty>>

StoreFails(r) ==
    /\ call[r].write = "pending"
    /\ Written(r, "lost")
    /\ faulty' = faulty \cup {CacheKey(r)}
    /\ UNCHANGED <<cache, overlap>>

\* EX runs out after 24 hours; or what is read is no JSON.
Forget(k) ==
    /\ cache[k] # "nothing"
    /\ \E left \in {"nothing", "garbage"} : cache' = [cache EXCEPT ![k] = left]
    /\ faulty' = faulty \cup {k}
    /\ UNCHANGED <<call, overlap>>

\* The process dies: requests get no answer, writes are lost.
Die ==
    /\ \E r \in Request : call[r].at = "run" \/ call[r].write = "pending"
    /\ call' = [r \in Request |->
                   LET c == call[r]
                   IN  Call(IF c.at = "run" THEN "gone" ELSE c.at, c.status, c.by,
                            IF c.write \in {"wanted", "pending"} THEN "lost" ELSE c.write)]
    /\ faulty' = faulty \cup {CacheKey(r) : r \in {s \in Request : call[s].write = "pending"}}
    /\ UNCHANGED <<cache, overlap>>

-----------------------------------------------------------------------------
(* Properties.                                                             *)

SameHeader(r, s) == PathOf[r] = PathOf[s] /\ KeyOf[r] = KeyOf[s]

IdemTypeOK ==
    /\ cache \in [CacheKeys -> Request \cup {"nothing", "garbage"}]
    /\ call \in [Request -> [at : {"new", "run", "answered", "gone"},
                             status : Nat, by : Request,
                             write : {"none", "wanted", "pending", "stored", "lost"}]]
    /\ overlap \in [Request -> SUBSET Request]
    /\ faulty \in SUBSET CacheKeys

\* The handler ran to the end for r, and did what r asks.
Executed(r) == call[r].at = "answered" /\ call[r].by = r /\ call[r].status \in 200 .. 299

\* What a request is answered out of the cache is a success of the handler, for a
\* request with its path and its key.
ReplaysWereEarned ==
    \A r \in Request : call[r].at = "answered" /\ call[r].by # r =>
        /\ SameHeader(r, call[r].by)
        /\ Executed(call[r].by)
        /\ call[r].status = call[call[r].by].status

\* The handler is executed twice for one path and key only when the second request
\* came before the first was cached, or Redis failed or forgot.
SecondRunIsExplained ==
    \A r, s \in Request :
        /\ r # s /\ SameHeader(r, s) /\ KeyOf[r] # NoKey
        /\ Executed(r) /\ Executed(s)
        => r \in overlap[s] \/ s \in overlap[r] \/ CacheKey(r) \in faulty

=============================================================================
