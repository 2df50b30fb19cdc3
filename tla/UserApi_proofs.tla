----------------------------- MODULE UserApi_proofs -----------------------------
(***************************************************************************)
(* Theorems about UserApi, for any number of shots, requests, paths and    *)
(* keys, any page size and any schedule. IdemInv is the invariant of the   *)
(* idempotency cache: what is cached or to be cached was executed          *)
(* (EarnInv), and an execution can be found again unless the cache is at   *)
(* fault (FateInv). ListInv is that of the listing: every shot on an       *)
(* earlier page is at the cursor or newer, every other is older.           *)
(***************************************************************************)
EXTENDS UserApi, FiniteSetTheorems, WellFoundedInduction, TLAPS

-----------------------------------------------------------------------------
(* The idempotency cache.                                                  *)

\* What a step of the system is to the cache.
IdemStep ==
    \/ \E r \in Request :
          \/ PassThrough(r) \/ RefuseKey(r) \/ Replay(r) \/ LookupMiss(r)
          \/ LookupFails(r) \/ Store(r) \/ StoreFails(r)
          \/ \E status \in Nat : End(r, status)
    \/ \E k \in CacheKeys : Forget(k)
    \/ Die
    \/ UNCHANGED idemVars

\* An entry is a request that was executed, under its own key.
CacheEarned ==
    \A k \in CacheKeys : cache[k] \in Request =>
        CacheKey(cache[k]) = k /\ Executed(cache[k])

\* Only a request that has an answer can have another's, or a write.
OwnInv ==
    \A r \in Request :
        /\ call[r].at # "answered" =>
              call[r].by = r /\ call[r].write \in {"none", "wanted", "lost"}
        /\ call[r].write = "wanted" => call[r].at = "run"

\* What is written, or is to be, was executed.
WritesEarned ==
    \A r \in Request : call[r].write \in {"pending", "stored"} => Executed(r)

EarnInv == IdemTypeOK /\ CacheEarned /\ OwnInv /\ WritesEarned /\ ReplaysWereEarned

\* Every step is a step of the cache, or leaves it alone.
LEMMA NextIsIdemStep == [Next]_vars => IdemStep
<1> SUFFICES ASSUME [Next]_vars PROVE IdemStep
  OBVIOUS
<1>1. CASE UNCHANGED vars
  BY <1>1 DEF vars, IdemStep
<1>2. ASSUME NEW r \in Request, AroundHandler(r) PROVE IdemStep
  BY <1>2 DEF AroundHandler, IdemStep
<1>3. ASSUME NEW r \in Request, LinkIdentity(r) \/ LinkRefused(r) \/ LinkFails(r)
      PROVE  IdemStep
  <2>1. Catch(PayloadValidationFailed).status \in Nat /\ Catch(Unhandled).status \in Nat
    BY DEF Catch, PayloadValidationFailed, Unhandled, HttpCoded, Problem
  <2>2. \E status \in Nat : End(r, status)
    BY <1>3, <2>1 DEF LinkIdentity, LinkRefused, LinkFails
  <2> QED
    BY <2>2 DEF IdemStep
<1>4. CASE Lose
  BY <1>4 DEF Lose, IdemStep
<1>5. CASE GetPage \/ GetStats \/ Tick
  BY <1>5 DEF GetPage, GetStats, Tick, IdemStep
<1>6. ASSUME NEW s \in coming, StoreShot(s) PROVE IdemStep
  BY <1>6 DEF StoreShot, IdemStep
<1>7. ASSUME NEW r \in rows, FlagShot(r) PROVE IdemStep
  BY <1>7 DEF FlagShot, IdemStep
<1>8. ASSUME NEW l \in backfills, Backfill(l) PROVE IdemStep
  BY <1>8 DEF Backfill, IdemStep
<1> QED
  BY <1>1, <1>2, <1>3, <1>4, <1>5, <1>6, <1>7, <1>8 DEF Next

\* A key that is too long is answered 400.
LEMMA StatusOfBadKey == Catch(BadRequestException).status = 400
BY DEF Catch, BadRequestException, Http, Problem

\* A cache key is a path and a key.
LEMMA KeysOfRequests ==
    /\ \A r \in Request : CacheKey(r) \in CacheKeys
    /\ \A r, s \in Request : CacheKey(r) = CacheKey(s) <=> SameHeader(r, s)
BY DEF CacheKeys, CacheKey, SameHeader

\* The cache is empty at first.
LEMMA InitEarned == Init => EarnInv
BY EntriesAreNoRequests
   DEF Init, IdemInit, Call, EarnInv, IdemTypeOK, CacheEarned, OwnInv, WritesEarned,
       ReplaysWereEarned, Executed

\* Every step keeps the types.
LEMMA TypesStep == IdemTypeOK /\ IdemStep => IdemTypeOK'
<1> SUFFICES ASSUME IdemTypeOK, IdemStep PROVE IdemTypeOK'
  OBVIOUS
<1> USE DEF IdemTypeOK
<1>0. ASSUME NEW r \in Request PROVE UnderWay(r) \in SUBSET Request
  BY DEF UnderWay
<1>1. ASSUME NEW r \in Request, PassThrough(r) PROVE IdemTypeOK'
  BY <1>1 DEF PassThrough, ToHandler, Call
<1>2. ASSUME NEW r \in Request, RefuseKey(r) PROVE IdemTypeOK'
  BY <1>2, StatusOfBadKey DEF RefuseKey, Call
<1>3. ASSUME NEW r \in Request, Replay(r) PROVE IdemTypeOK'
  BY <1>3 DEF Replay, Call
<1>4. ASSUME NEW r \in Request, LookupMiss(r) PROVE IdemTypeOK'
  BY <1>0, <1>4 DEF LookupMiss, ToHandler, Call
<1>10. ASSUME NEW r \in Request, LookupFails(r) PROVE IdemTypeOK'
  BY <1>0, <1>10, KeysOfRequests DEF LookupFails, ToHandler, Call
<1>5. ASSUME NEW r \in Request, NEW status \in Nat, End(r, status) PROVE IdemTypeOK'
  BY <1>5 DEF End, Call
<1>6. ASSUME NEW r \in Request, Store(r) \/ StoreFails(r) PROVE IdemTypeOK'
  BY <1>6, KeysOfRequests DEF Store, StoreFails, Written, Call
<1>7. ASSUME NEW k \in CacheKeys, Forget(k) PROVE IdemTypeOK'
  BY <1>7 DEF Forget
<1>8. CASE Die
  <2>1. call' \in [Request -> [at : {"new", "run", "answered", "gone"},
                               status : Nat, by : Request,
                               write : {"none", "wanted", "pending", "stored", "lost"}]]
    BY <1>8 DEF Die, Call
  <2>2. faulty' \in SUBSET CacheKeys
    BY <1>8, KeysOfRequests DEF Die
  <2> QED
    BY <1>8, <2>1, <2>2 DEF Die
<1>9. CASE UNCHANGED idemVars
  BY <1>9 DEF idemVars
<1> QED
  BY <1>1, <1>2, <1>3, <1>4, <1>5, <1>6, <1>7, <1>8, <1>9, <1>10 DEF IdemStep

\* The answer to r stays.
Same(r) ==
    /\ call'[r].at = "answered"
    /\ call'[r].by = call[r].by
    /\ call'[r].status = call[r].status

\* An answer that was given is not changed.
LEMMA AnswersLast ==
  ASSUME IdemTypeOK, IdemStep, NEW r \in Request, call[r].at = "answered"
  PROVE  Same(r)
<1> USE DEF IdemTypeOK, Same
<1>1. ASSUME NEW s \in Request,
             \/ PassThrough(s) \/ RefuseKey(s) \/ Replay(s) \/ LookupMiss(s)
             \/ LookupFails(s) \/ \E status \in Nat : End(s, status)
      PROVE  Same(r)
  <2>1. call[s].at # "answered"
    BY <1>1 DEF PassThrough, RefuseKey, Replay, LookupMiss, LookupFails, Looks, End
  <2>2. call'[r] = call[r]
    BY <1>1, <2>1 DEF PassThrough, RefuseKey, Replay, LookupMiss, LookupFails, ToHandler, End
  <2> QED
    BY <2>2
<1>2. ASSUME NEW s \in Request, Store(s) \/ StoreFails(s)
      PROVE  Same(r)
  BY <1>2 DEF Store, StoreFails, Written, Call
<1>3. CASE Die
  <2>1. call'[r] = LET c == call[r]
                   IN  Call(IF c.at = "run" THEN "gone" ELSE c.at, c.status, c.by,
                            IF c.write \in {"wanted", "pending"} THEN "lost" ELSE c.write)
    BY <1>3 DEF Die
  <2> QED
    BY <2>1 DEF Call
<1>4. ASSUME NEW k \in CacheKeys, Forget(k) PROVE Same(r)
  BY <1>4 DEF Forget
<1>5. CASE UNCHANGED idemVars
  BY <1>5 DEF idemVars
<1> HIDE DEF Same
<1> QED
  BY <1>1, <1>2, <1>3, <1>4, <1>5 DEF IdemStep

\* The fields of r after a step.
Becomes(r, at, status, by, write) ==
    call'[r].at = at /\ call'[r].status = status /\ call'[r].by = by /\ call'[r].write = write

\* The ways a step moves a request.
Moves(r) ==
    \/ call'[r] = call[r]
    \/ /\ call[r].at = "new"
       /\ \E write \in {"none", "wanted"} : Becomes(r, "run", 0, r, write)
    \/ call[r].at = "new" /\ Becomes(r, "answered", 400, r, "none")
    \/ /\ call[r].at = "new" /\ cache[CacheKey(r)] \in Request
       /\ Becomes(r, "answered", call[cache[CacheKey(r)]].status, cache[CacheKey(r)], "none")
    \/ /\ call[r].at = "run"
       /\ \E status \in Nat :
             \/ Becomes(r, "answered", status, r, "none")
                  /\ ~ (call[r].write = "wanted" /\ status \in 200 .. 299)
             \/ Becomes(r, "answered", status, r, "pending")
                  /\ call[r].write = "wanted" /\ status \in 200 .. 299
    \/ /\ call[r].write = "pending"
       /\ \E how \in {"stored", "lost"} :
             Becomes(r, call[r].at, call[r].status, call[r].by, how)
    \/ /\ call[r].at = "run"
       /\ \E write \in {"none", "lost"} : Becomes(r, "gone", call[r].status, r, write)

\* There are no others.
LEMMA CallMoves ==
  ASSUME EarnInv, IdemStep, NEW r \in Request
  PROVE  Moves(r)
<1> USE DEF EarnInv, IdemTypeOK
<1>1. ASSUME NEW s \in Request, PassThrough(s) \/ LookupMiss(s) \/ LookupFails(s)
      PROVE  Moves(r)
  <2>1. call[s].at = "new"
    BY <1>1 DEF PassThrough, LookupMiss, LookupFails, Looks
  <2>2. \E write \in {"none", "wanted"} :
           call' = [call EXCEPT ![s] = Call("run", 0, s, write)]
    BY <1>1 DEF PassThrough, LookupMiss, LookupFails, ToHandler
  <2> QED
    BY <2>1, <2>2 DEF Moves, Becomes, Call
<1>2. ASSUME NEW s \in Request, RefuseKey(s) PROVE Moves(r)
  BY <1>2, StatusOfBadKey DEF RefuseKey, Moves, Becomes, Call
<1>3. ASSUME NEW s \in Request, Replay(s) PROVE Moves(r)
  BY <1>3 DEF Replay, Looks, Moves, Becomes, Call
<1>4. ASSUME NEW s \in Request, NEW status \in Nat, End(s, status) PROVE Moves(r)
  BY <1>4 DEF End, Moves, Becomes, Call
<1>5. ASSUME NEW s \in Request, Store(s) \/ StoreFails(s) PROVE Moves(r)
  BY <1>5 DEF Store, StoreFails, Written, Moves, Becomes, Call
<1>6. CASE Die
  <2>1. call'[r] = LET c == call[r]
                   IN  Call(IF c.at = "run" THEN "gone" ELSE c.at, c.status, c.by,
                            IF c.write \in {"wanted", "pending"} THEN "lost" ELSE c.write)
    BY <1>6 DEF Die
  <2>2. call[r] = Call(call[r].at, call[r].status, call[r].by, call[r].write)
    BY DEF Call
  <2>3. CASE call[r].at = "run"
    BY <2>1, <2>3 DEF OwnInv, Moves, Becomes, Call
  <2>4. CASE call[r].at # "run" /\ call[r].write = "pending"
    BY <2>1, <2>4 DEF Moves, Becomes, Call
  <2>5. CASE call[r].at # "run" /\ call[r].write # "pending"
    BY <2>1, <2>2, <2>5 DEF OwnInv, Moves, Becomes, Call
  <2> QED
    BY <2>3, <2>4, <2>5
<1>7. ASSUME NEW k \in CacheKeys, Forget(k) PROVE Moves(r)
  BY <1>7 DEF Forget, Moves, Becomes, Call
<1>8. CASE UNCHANGED idemVars
  BY <1>8 DEF idemVars, Moves, Becomes, Call
<1> QED
  BY <1>1, <1>2, <1>3, <1>4, <1>5, <1>6, <1>7, <1>8 DEF IdemStep

\* An entry that is new is a write that was under way.
LEMMA CacheMoves ==
  ASSUME IdemTypeOK, IdemStep, NEW k \in CacheKeys, cache'[k] \in Request
  PROVE  \/ cache'[k] = cache[k]
         \/ /\ call[cache'[k]].write = "pending"
            /\ k = CacheKey(cache'[k])
<1> USE DEF IdemTypeOK
<1>1. ASSUME NEW s \in Request,
             PassThrough(s) \/ LookupMiss(s) \/ LookupFails(s) \/ RefuseKey(s)
                \/ Replay(s) \/ StoreFails(s) \/ \E status \in Nat : End(s, status)
      PROVE  cache' = cache
  BY <1>1 DEF PassThrough, LookupMiss, LookupFails, RefuseKey, Replay, StoreFails, End
<1>2. ASSUME NEW s \in Request, Store(s)
      PROVE  cache'[k] = cache[k] \/ (cache'[k] = s /\ k = CacheKey(s) /\ call[s].write = "pending")
  BY <1>2, KeysOfRequests DEF Store
<1>3. ASSUME NEW h \in CacheKeys, Forget(h) PROVE cache'[k] = cache[k]
  BY <1>3, EntriesAreNoRequests DEF Forget
<1>4. CASE Die \/ UNCHANGED idemVars
  BY <1>4 DEF Die, idemVars
<1> QED
  BY <1>1, <1>2, <1>3, <1>4 DEF IdemStep

\* Every step keeps what the cache holds earned.
LEMMA EarnedStep == EarnInv /\ IdemStep => EarnInv'
<1> SUFFICES ASSUME EarnInv, IdemStep PROVE EarnInv'
  OBVIOUS
<1>1. IdemTypeOK /\ IdemTypeOK'
  BY TypesStep DEF EarnInv
<1>2. ASSUME NEW r \in Request, Executed(r)
      PROVE  Executed(r)' /\ call'[r].status = call[r].status
  BY <1>1, <1>2, AnswersLast DEF Executed, Same
<1>3. ASSUME NEW k \in CacheKeys, NEW s \in Request, cache'[k] = s
      PROVE  CacheKey(s) = k /\ Executed(s)'
  <2>1. CASE s = cache[k]
    BY <1>2, <2>1 DEF EarnInv, CacheEarned
  <2>2. CASE call[s].write = "pending" /\ k = CacheKey(s)
    BY <1>2, <2>2 DEF EarnInv, WritesEarned
  <2> QED
    BY <1>1, <1>3, <2>1, <2>2, CacheMoves
<1>4. CacheEarned'
  <2> SUFFICES ASSUME NEW k \in CacheKeys', NEW s \in Request, cache'[k] = s
               PROVE  CacheKey(s) = k /\ Executed(s)'
    BY DEF CacheEarned, CacheKey, Executed
  <2> QED
    BY <1>3 DEF CacheKeys, CacheKey
<1>5. OwnInv'
  <2> SUFFICES ASSUME NEW r \in Request
               PROVE  /\ call'[r].at # "answered" =>
                           /\ call'[r].by = r
                           /\ call'[r].write \in {"none", "wanted", "lost"}
                      /\ call'[r].write = "wanted" => call'[r].at = "run"
    BY DEF OwnInv
  <2>1. Moves(r)
    BY CallMoves
  <2>2. /\ call[r].at # "answered" =>
              call[r].by = r /\ call[r].write \in {"none", "wanted", "lost"}
        /\ call[r].write = "wanted" => call[r].at = "run"
        /\ call[r].write = "pending" => call[r].at = "answered"
    BY DEF EarnInv, OwnInv, WritesEarned, Executed
  <2> QED
    BY <1>1, <2>1, <2>2 DEF Moves, Becomes
<1>6. WritesEarned'
  <2> SUFFICES ASSUME NEW r \in Request, call'[r].write \in {"pending", "stored"}
               PROVE  Executed(r)'
    BY DEF WritesEarned, Executed
  <2>1. Moves(r)
    BY CallMoves
  <2>2. CASE call[r].write \in {"pending", "stored"}
    BY <1>2, <2>2 DEF EarnInv, WritesEarned
  <2>3. CASE call[r].write \notin {"pending", "stored"}
    BY <2>1, <2>3 DEF Moves, Becomes, Executed
  <2> QED
    BY <2>2, <2>3
<1>7. ReplaysWereEarned'
  <2> SUFFICES ASSUME NEW r \in Request, NEW by \in Request,
                      call'[r].at = "answered", call'[r].by = by, by # r
               PROVE  /\ SameHeader(r, by)
                      /\ Executed(by)'
                      /\ call'[r].status = call'[by].status
    BY <1>1 DEF IdemTypeOK, ReplaysWereEarned, SameHeader, Executed
  <2>1. CASE call[r].at = "answered"
    <3>1. call[r].by = by /\ call'[r].status = call[r].status
      BY <1>1, <2>1, AnswersLast DEF Same
    <3>2. SameHeader(r, by) /\ Executed(by) /\ call[r].status = call[by].status
      BY <2>1, <3>1 DEF EarnInv, ReplaysWereEarned
    <3> QED
      BY <1>2, <3>1, <3>2
  <2>2. CASE call[r].at # "answered"
    <3>1. Moves(r) /\ IdemTypeOK
      BY <1>1, CallMoves
    <3>2. /\ by = cache[CacheKey(r)]
          /\ call'[r].status = call[by].status
      BY <2>2, <3>1 DEF Moves, Becomes, EarnInv, OwnInv
    <3>3. CacheKey(by) = CacheKey(r) /\ Executed(by)
      BY <3>2, KeysOfRequests DEF EarnInv, CacheEarned
    <3> QED
      BY <1>2, <3>2, <3>3, KeysOfRequests
  <2> QED
    BY <2>1, <2>2
<1> QED
  BY <1>1, <1>4, <1>5, <1>6, <1>7 DEF EarnInv

\* The handler runs for r, or has been executed for it.
Started(r) == call[r].at = "run" \/ Executed(r)

\* What is running will be cached, what was executed is on its way to the cache or
\* there: or the cache is at fault.
FateInv ==
    \A r \in Request : KeyOf[r] # NoKey =>
        /\ call[r].at = "run" => call[r].write = "wanted" \/ CacheKey(r) \in faulty
        /\ Executed(r) => \/ call[r].write = "pending"
                          \/ cache[CacheKey(r)] \in Request
                          \/ CacheKey(r) \in faulty

\* SecondRunIsExplained, from the start of the handler on.
SecondInv ==
    \A r, s \in Request :
        /\ r # s /\ SameHeader(r, s) /\ KeyOf[r] # NoKey
        /\ Started(r) /\ Started(s)
        => r \in overlap[s] \/ s \in overlap[r] \/ CacheKey(r) \in faulty

\* Faults are not forgotten.
LEMMA FaultyGrows == IdemTypeOK /\ IdemStep => faulty \subseteq faulty'
BY DEF IdemStep, PassThrough, RefuseKey, Replay, LookupMiss, LookupFails, End, Store,
   StoreFails, Forget, Die, idemVars

\* A step of one request moves no other.
LEMMA NotTouched ==
  ASSUME IdemTypeOK, NEW s \in Request,
         \/ PassThrough(s) \/ RefuseKey(s) \/ Replay(s) \/ LookupMiss(s)
         \/ LookupFails(s) \/ Store(s) \/ StoreFails(s)
         \/ \E status \in Nat : End(s, status)
  PROVE  \A r \in Request \ {s} : call'[r] = call[r]
BY DEF IdemTypeOK, PassThrough, RefuseKey, Replay, LookupMiss, LookupFails, Store,
   StoreFails, End, ToHandler, Written

\* The handler starts in a lookup, and nowhere else.
LEMMA StartedBefore ==
  ASSUME EarnInv, IdemStep, NEW r \in Request, Started(r)', ~ Started(r)
  PROVE  /\ call[r].at = "new" /\ call'[r].at = "run"
         /\ PassThrough(r) \/ LookupMiss(r) \/ LookupFails(r)
<1>1. Moves(r) /\ IdemTypeOK
  BY CallMoves DEF EarnInv
<1>2. ~ Executed(r) /\ call[r].at # "run"
  BY DEF Started
<1>3. call[r].at = "new" /\ call'[r].at = "run"
  <2>1. CASE call'[r] = call[r]
    BY <1>2, <2>1 DEF Started, Executed
  <2>2. CASE /\ call[r].at = "new" /\ cache[CacheKey(r)] \in Request
             /\ Becomes(r, "answered", call[cache[CacheKey(r)]].status,
                        cache[CacheKey(r)], "none")
    <3>1. cache[CacheKey(r)] # r
      BY <2>2, KeysOfRequests DEF EarnInv, CacheEarned, Executed
    <3> QED
      BY <2>2, <3>1 DEF Becomes, Started, Executed
  <2>3. CASE /\ call[r].write = "pending"
             /\ \E how \in {"stored", "lost"} :
                   Becomes(r, call[r].at, call[r].status, call[r].by, how)
    BY <1>2, <2>3 DEF Becomes, Started, Executed
  <2> QED
    BY <1>1, <1>2, <2>1, <2>2, <2>3 DEF Moves, Becomes, Started, Executed
<1>4. ASSUME NEW s \in Request,
             RefuseKey(s) \/ Replay(s) \/ \E status \in Nat : End(s, status)
      PROVE  FALSE
  <2>1. call'[s].at = "answered"
    BY <1>1, <1>4 DEF IdemTypeOK, RefuseKey, Replay, End, Call
  <2>2. r # s
    BY <1>3, <2>1
  <2> QED
    BY <1>1, <1>3, <1>4, <2>2, NotTouched
<1>5. ASSUME NEW s \in Request, Store(s) \/ StoreFails(s) PROVE FALSE
  BY <1>1, <1>3, <1>5 DEF IdemTypeOK, Store, StoreFails, Written, Call
<1>6. ASSUME NEW k \in CacheKeys, Forget(k) PROVE FALSE
  BY <1>3, <1>6 DEF Forget
<1>7. CASE Die
  <2>1. call'[r] = LET c == call[r]
                   IN  Call(IF c.at = "run" THEN "gone" ELSE c.at, c.status, c.by,
                            IF c.write \in {"wanted", "pending"} THEN "lost" ELSE c.write)
    BY <1>7 DEF Die
  <2> QED
    BY <1>3, <2>1 DEF Call
<1>8. CASE UNCHANGED idemVars
  BY <1>3, <1>8 DEF idemVars
<1>9. ASSUME NEW s \in Request, PassThrough(s) \/ LookupMiss(s) \/ LookupFails(s)
      PROVE  s = r
  <2>1. CASE s # r
    BY <1>1, <1>3, <1>9, <2>1, NotTouched
  <2> QED
    BY <2>1
<1> QED
  BY <1>3, <1>4, <1>5, <1>6, <1>7, <1>8, <1>9 DEF IdemStep

\* An entry of the cache stays, or the cache is at fault.
LEMMA EntryStays ==
  ASSUME IdemTypeOK, IdemStep, NEW k \in CacheKeys, cache[k] \in Request
  PROVE  cache'[k] \in Request \/ k \in faulty'
<1> USE DEF IdemTypeOK
<1>1. ASSUME NEW s \in Request,
             PassThrough(s) \/ LookupMiss(s) \/ LookupFails(s) \/ RefuseKey(s)
                \/ Replay(s) \/ StoreFails(s) \/ \E status \in Nat : End(s, status)
      PROVE  cache' = cache
  BY <1>1 DEF PassThrough, LookupMiss, LookupFails, RefuseKey, Replay, StoreFails, End
<1>2. ASSUME NEW s \in Request, Store(s) PROVE cache'[k] \in Request
  BY <1>2 DEF Store
<1>3. ASSUME NEW h \in CacheKeys, Forget(h) PROVE cache'[k] \in Request \/ k \in faulty'
  BY <1>3 DEF Forget
<1>4. CASE Die \/ UNCHANGED idemVars
  BY <1>4 DEF Die, idemVars
<1> QED
  BY <1>1, <1>2, <1>3, <1>4 DEF IdemStep

\* A write that is under way arrives, or the cache is at fault.
LEMMA WriteArrives ==
  ASSUME EarnInv, IdemStep, NEW r \in Request, call[r].write = "pending"
  PROVE  \/ call'[r].write = "pending"
         \/ cache'[CacheKey(r)] \in Request
         \/ CacheKey(r) \in faulty'
<1> USE DEF EarnInv, IdemTypeOK
<1>1. ASSUME NEW s \in Request,
             PassThrough(s) \/ LookupMiss(s) \/ LookupFails(s) \/ RefuseKey(s)
                \/ Replay(s) \/ \E status \in Nat : End(s, status)
      PROVE  call'[r] = call[r]
  <2>1. call[s].at \in {"new", "run"}
    BY <1>1 DEF PassThrough, LookupMiss, LookupFails, RefuseKey, Replay, Looks, End
  <2>2. s # r
    BY <2>1 DEF WritesEarned, Executed
  <2> QED
    BY <1>1, <2>2, NotTouched
<1>2. ASSUME NEW s \in Request, Store(s)
      PROVE  call'[r].write = "pending" \/ cache'[CacheKey(r)] \in Request
  BY <1>2, KeysOfRequests DEF Store, Written, Call
<1>3. ASSUME NEW s \in Request, StoreFails(s)
      PROVE  call'[r].write = "pending" \/ CacheKey(r) \in faulty'
  BY <1>3, KeysOfRequests DEF StoreFails, Written, Call
<1>4. ASSUME NEW k \in CacheKeys, Forget(k) PROVE call'[r].write = "pending"
  BY <1>4 DEF Forget
<1>5. CASE Die
  BY <1>5 DEF Die
<1>6. CASE UNCHANGED idemVars
  BY <1>6 DEF idemVars
<1> QED
  BY <1>1, <1>2, <1>3, <1>4, <1>5, <1>6 DEF IdemStep

\* Every step keeps FateInv.
LEMMA FateStep == EarnInv /\ FateInv /\ IdemStep => FateInv'
<1> SUFFICES ASSUME EarnInv, FateInv, IdemStep,
                    NEW r \in Request, KeyOf[r] # NoKey
             PROVE  /\ call'[r].at = "run" =>
                          call'[r].write = "wanted" \/ CacheKey(r) \in faulty'
                    /\ Executed(r)' => \/ call'[r].write = "pending"
                                       \/ cache'[CacheKey(r)] \in Request
                                       \/ CacheKey(r) \in faulty'
  BY DEF FateInv, Executed, CacheKey
<1>1. Moves(r) /\ IdemTypeOK /\ CacheKey(r) \in CacheKeys /\ faulty \subseteq faulty'
  BY CallMoves, KeysOfRequests, FaultyGrows DEF EarnInv
<1>2. ASSUME ~ Started(r), Started(r)'
      PROVE  /\ call'[r].at = "run"
             /\ call'[r].write = "wanted" \/ CacheKey(r) \in faulty'
  <2>1. call'[r].at = "run" /\ (LookupMiss(r) \/ LookupFails(r))
    BY <1>2, StartedBefore DEF PassThrough
  <2>2. CASE LookupMiss(r)
    BY <1>1, <2>1, <2>2 DEF IdemTypeOK, LookupMiss, ToHandler, Call
  <2>3. CASE LookupFails(r)
    BY <2>1, <2>3 DEF LookupFails
  <2> QED
    BY <2>1, <2>2, <2>3
<1>3. ASSUME call[r].at = "run", call'[r].at = "run" PROVE call'[r].write = call[r].write
  BY <1>1, <1>3 DEF Moves, Becomes, EarnInv, WritesEarned, Executed
<1>4. ASSUME Executed(r)
      PROVE  \/ call'[r].write = "pending"
             \/ cache'[CacheKey(r)] \in Request
             \/ CacheKey(r) \in faulty'
  BY <1>1, <1>4, EntryStays, WriteArrives DEF FateInv
<1>5. ASSUME call[r].at = "run", Executed(r)'
      PROVE  call'[r].write = "pending" \/ CacheKey(r) \in faulty'
  <2>1. call[r].write = "wanted" \/ CacheKey(r) \in faulty
    BY <1>5 DEF FateInv
  <2>2. ASSUME call[r].write = "wanted" PROVE call'[r].write = "pending"
    BY <1>1, <1>5, <2>2 DEF Moves, Becomes, Executed
  <2> QED
    BY <1>1, <2>1, <2>2
<1>6. ASSUME Executed(r) PROVE call'[r].at # "run"
  BY <1>1, <1>6, AnswersLast DEF Executed, Same
<1> QED
  BY <1>2, <1>3, <1>4, <1>5, <1>6, <1>1 DEF FateInv, Started, Executed

\* The second of two requests with the same header starts after the first: it saw
\* it under way, or the cache is at fault.
LEMMA SecondStarts ==
  ASSUME EarnInv, FateInv, IdemStep,
         NEW r \in Request, NEW s \in Request, r # s, SameHeader(r, s), KeyOf[r] # NoKey,
         ~ Started(r), Started(r)', Started(s)'
  PROVE  s \in overlap'[r] \/ CacheKey(r) \in faulty'
<1>1. /\ CacheKey(r) = CacheKey(s) /\ CacheKey(r) \in CacheKeys
      /\ KeyOf[s] # NoKey /\ IdemTypeOK /\ faulty \subseteq faulty'
  BY KeysOfRequests, FaultyGrows DEF SameHeader, EarnInv
<1>2. LookupMiss(r) \/ LookupFails(r)
  BY StartedBefore DEF PassThrough
<1>3. CASE LookupFails(r)
  BY <1>3 DEF LookupFails
<1>4. CASE LookupMiss(r)
  <2>1. call'[s] = call[s]
    BY <1>1, <1>4, NotTouched
  <2>2. Started(s)
    BY <2>1 DEF Started, Executed
  <2>3. overlap'[r] = UnderWay(r) /\ cache[CacheKey(r)] \notin Request
    BY <1>1, <1>4 DEF LookupMiss, IdemTypeOK
  <2>4. call[s].at = "run" \/ call[s].write = "pending" \/ CacheKey(s) \in faulty
    BY <1>1, <2>2, <2>3 DEF FateInv, Started
  <2> QED
    BY <1>1, <2>3, <2>4 DEF UnderWay
<1> QED
  BY <1>2, <1>3, <1>4

\* What a request saw when it started stays what it saw.
LEMMA OverlapKept ==
  ASSUME IdemTypeOK, IdemStep, NEW r \in Request, Started(r)
  PROVE  overlap'[r] = overlap[r]
<1> USE DEF IdemTypeOK
<1>1. ASSUME NEW s \in Request, LookupMiss(s) \/ LookupFails(s)
      PROVE  overlap'[r] = overlap[r]
  <2>1. s # r
    BY <1>1 DEF LookupMiss, LookupFails, Looks, Started, Executed
  <2> QED
    BY <1>1, <2>1 DEF LookupMiss, LookupFails
<1>2. ASSUME NEW s \in Request,
             PassThrough(s) \/ RefuseKey(s) \/ Replay(s) \/ Store(s) \/ StoreFails(s)
                \/ \E status \in Nat : End(s, status)
      PROVE  overlap' = overlap
  BY <1>2 DEF PassThrough, RefuseKey, Replay, Store, StoreFails, End
<1>3. CASE Die \/ UNCHANGED idemVars \/ \E k \in CacheKeys : Forget(k)
  BY <1>3 DEF Die, idemVars, Forget
<1> QED
  BY <1>1, <1>2, <1>3 DEF IdemStep

\* Every step keeps SecondInv.
LEMMA SecondStep == EarnInv /\ FateInv /\ SecondInv /\ IdemStep => SecondInv'
<1> SUFFICES ASSUME EarnInv, FateInv, SecondInv, IdemStep,
                    NEW r \in Request, NEW s \in Request,
                    r # s, SameHeader(r, s), KeyOf[r] # NoKey, Started(r)', Started(s)'
             PROVE  \/ r \in overlap'[s] \/ s \in overlap'[r]
                    \/ CacheKey(r) \in faulty'
  BY DEF SecondInv, SameHeader, Started, Executed, CacheKey
<1>1. CASE ~ Started(r)
  BY <1>1, SecondStarts
<1>2. CASE ~ Started(s)
  <2>1. SameHeader(s, r) /\ KeyOf[s] # NoKey /\ CacheKey(s) = CacheKey(r)
    BY DEF SameHeader, CacheKey
  <2> QED
    BY <1>2, <2>1, SecondStarts
<1>3. CASE Started(r) /\ Started(s)
  BY <1>3, OverlapKept, FaultyGrows DEF SecondInv, EarnInv
<1> QED
  BY <1>1, <1>2, <1>3

\* Nothing has started at first.
LEMMA InitFate == Init => FateInv /\ SecondInv
BY DEF Init, IdemInit, Call, FateInv, SecondInv, Started, Executed

\* The invariant behind the replays.
IdemInv == EarnInv /\ FateInv /\ SecondInv

\* The invariant of the cache holds always.
LEMMA IdemInvariant == Spec => []IdemInv
<1>1. Init => IdemInv
  BY InitEarned, InitFate DEF IdemInv
<1>2. IdemInv /\ [Next]_vars => IdemInv'
  BY NextIsIdemStep, EarnedStep, FateStep, SecondStep DEF IdemInv
<1> QED
  BY <1>1, <1>2, PTL DEF Spec

\* An answer out of the cache of the interceptor is the success of a request with
\* the same path and key.
THEOREM ReplaysEarned == Spec => []ReplaysWereEarned
<1>1. IdemInv => ReplaysWereEarned
  BY DEF IdemInv, EarnInv
<1> QED
  BY <1>1, IdemInvariant, PTL

\* The handler is executed twice for one path and key only when the requests
\* overlap, or Redis failed or forgot.
THEOREM SecondRunsExplained == Spec => []SecondRunIsExplained
<1>1. IdemInv => SecondRunIsExplained
  BY DEF IdemInv, SecondInv, SecondRunIsExplained, Started
<1> QED
  BY <1>1, IdemInvariant, PTL

-----------------------------------------------------------------------------
(* The order of the listing, and its pages.                                *)

\* A set of natural numbers has a least one.
LEMMA LeastNatural ==
  ASSUME NEW T, T \subseteq Nat, T # {}
  PROVE  \E n \in T : \A m \in T : n <= m
<1>1. PICK n \in T : \A m \in T : <<m, n>> \notin OpToRel(<, Nat)
  BY NatLessThanWellFounded, WFMin, Zenon
<1>2. \A m \in T : ~ (m < n)
  BY <1>1, Zenon DEF OpToRel
<1> QED
  BY <1>2

\* Rows that are told apart by their ids.
Table(S) ==
    /\ \A r \in S : IsRow(r)
    /\ \A r, s \in S : r.id = s.id => r = s

\* The order of the listing is total on a table.
LEMMA TotalOrder ==
  ASSUME NEW S, Table(S), NEW r \in S, NEW s \in S, r # s
  PROVE  Before(r, s) \/ Before(s, r)
BY DEF Table, IsRow, Before

\* It is a strict order.
LEMMA StrictOrder ==
  ASSUME NEW r, NEW s, NEW t,
         r.at \in Nat, r.id \in Nat, s.at \in Nat, s.id \in Nat, t.at \in Nat, t.id \in Nat
  PROVE  /\ ~ Before(r, r)
         /\ Before(r, s) => ~ Before(s, r)
         /\ Before(r, s) /\ Before(s, t) => Before(r, t)
BY DEF Before

\* A table has an oldest row: the CHOOSE of the next cursor finds one.
LEMMA OldestExists ==
  ASSUME NEW S, Table(S), S # {}
  PROVE  /\ Oldest(S) \in S
         /\ \A s \in S : s = Oldest(S) \/ Before(Oldest(S), s)
<1> DEFINE times == {r.at : r \in S}
<1>1. PICK t \in times : \A u \in times : t <= u
  <2>1. times \subseteq Nat /\ times # {}
    BY DEF Table, IsRow
  <2> HIDE DEF times
  <2> QED
    BY <2>1, LeastNatural
<1> DEFINE ids == {r.id : r \in {s \in S : s.at = t}}
<1>2. PICK i \in ids : \A j \in ids : i <= j
  <2>1. ids \subseteq Nat /\ ids # {}
    BY <1>1 DEF Table, IsRow
  <2> HIDE DEF ids
  <2> QED
    BY <2>1, LeastNatural
<1>3. PICK r \in S : r.at = t /\ r.id = i
  BY <1>2
<1>4. ASSUME NEW s \in S PROVE s = r \/ Before(r, s)
  <2>1. t <= s.at
    BY <1>1
  <2>2. s.at = t => i <= s.id
    BY <1>2
  <2> QED
    BY <1>3, <2>1, <2>2 DEF Table, IsRow, Before
<1>5. \E q \in S : \A s \in S : s = q \/ Before(q, s)
  BY <1>4
<1> QED
  BY <1>5 DEF Oldest

\* The rows of S that are newer than r.
Newer(S, r) == {s \in S : Before(r, s)}

\* There are finitely many.
LEMMA NewerCount ==
  ASSUME NEW S, IsFiniteSet(S), NEW r
  PROVE  IsFiniteSet(Newer(S, r)) /\ Cardinality(Newer(S, r)) \in Nat
BY FS_Subset, FS_CardinalityType DEF Newer

\* A newer row has fewer newer than itself.
LEMMA NewerShrinks ==
  ASSUME NEW S, IsFiniteSet(S), Table(S), NEW r \in S, NEW s \in S, Before(r, s)
  PROVE  Cardinality(Newer(S, s)) < Cardinality(Newer(S, r))
<1>1. Newer(S, s) \subseteq Newer(S, r)
  BY StrictOrder DEF Table, IsRow, Newer
<1>2. s \in Newer(S, r) /\ s \notin Newer(S, s)
  BY StrictOrder DEF Table, IsRow, Newer
<1>3. /\ IsFiniteSet(Newer(S, r)) /\ Cardinality(Newer(S, r)) \in Nat
      /\ Cardinality(Newer(S, s)) \in Nat
  BY NewerCount
<1> QED
  BY <1>1, <1>2, <1>3, FS_Subset

\* Newest, by Newer.
LEMMA NewestMembers ==
  ASSUME NEW S, NEW n
  PROVE  Newest(S, n) = {r \in S : Cardinality(Newer(S, r)) < n}
BY DEF Newest, Newer

\* What is cut off is older than what is left.
LEMMA NewestCut ==
  ASSUME NEW S, IsFiniteSet(S), Table(S), NEW n \in Int,
         NEW d \in Newest(S, n), NEW r \in S \ Newest(S, n)
  PROVE  Before(r, d)
<1>1. /\ d \in S /\ Cardinality(Newer(S, d)) < n
      /\ r \in S /\ ~ (Cardinality(Newer(S, r)) < n)
  BY NewestMembers
<1>2. Cardinality(Newer(S, d)) \in Nat /\ Cardinality(Newer(S, r)) \in Nat
  BY NewerCount
<1>3. CASE Before(d, r)
  BY <1>1, <1>2, <1>3, NewerShrinks
<1> QED
  BY <1>1, <1>3, TotalOrder

\* Something is cut off only when there are n.
LEMMA NewestFull ==
  ASSUME NEW S, IsFiniteSet(S), Table(S), NEW n \in Int, S \ Newest(S, n) # {}
  PROVE  n <= Cardinality(Newest(S, n))
<1> DEFINE counts == {Cardinality(Newer(S, r)) : r \in S \ Newest(S, n)}
<1>1. PICK c \in counts : \A d \in counts : c <= d
  <2>1. counts \subseteq Nat /\ counts # {}
    BY NewerCount
  <2> HIDE DEF counts
  <2> QED
    BY <2>1, LeastNatural
<1>2. PICK r \in S \ Newest(S, n) : c = Cardinality(Newer(S, r))
  BY <1>1
<1>3. ASSUME NEW s \in Newer(S, r) PROVE s \in Newest(S, n)
  <2>1. s \in S /\ Before(r, s)
    BY <1>3 DEF Newer
  <2>2. Cardinality(Newer(S, s)) < c /\ Cardinality(Newer(S, s)) \in Nat /\ c \in Nat
    BY <1>2, <2>1, NewerShrinks, NewerCount
  <2>3. CASE s \notin Newest(S, n)
    BY <1>1, <2>1, <2>2, <2>3
  <2> QED
    BY <2>3
<1>4. IsFiniteSet(Newest(S, n)) /\ Newest(S, n) \subseteq S
  BY NewestMembers, FS_Subset
<1>5. c <= Cardinality(Newest(S, n))
  BY <1>2, <1>3, <1>4, FS_Subset
<1>6. c \in Nat /\ Cardinality(Newest(S, n)) \in Nat /\ ~ (c < n)
  BY <1>2, <1>4, NewerCount, NewestMembers, FS_CardinalityType
<1> QED
  BY <1>5, <1>6

-----------------------------------------------------------------------------
(* The table.                                                              *)

\* Rows, stored or to come, are told apart by their ids.
TableInv ==
    /\ IsFiniteSet(rows) /\ IsFiniteSet(coming)
    /\ Table(rows \cup coming)
    /\ rows \cap coming = {}

\* Of a row, a step changes anything but its place in the order.
LEMMA ColumnsKept ==
  ASSUME NEW r, IsRow(r), NEW x, NEW b \in BOOLEAN
  PROVE  /\ IsRow([r EXCEPT !.owner = x])
         /\ [r EXCEPT !.owner = x].id = r.id
         /\ [r EXCEPT !.owner = x].at = r.at
         /\ IsRow([r EXCEPT !.duplicate = b])
         /\ [r EXCEPT !.duplicate = b].id = r.id
         /\ [r EXCEPT !.duplicate = b].at = r.at
<1>1. /\ IsRow([r EXCEPT !.owner = x])
      /\ [r EXCEPT !.owner = x].id = r.id
      /\ [r EXCEPT !.owner = x].at = r.at
  BY Zenon DEF IsRow
<1>2. /\ IsRow([r EXCEPT !.duplicate = b])
      /\ [r EXCEPT !.duplicate = b].id = r.id
      /\ [r EXCEPT !.duplicate = b].at = r.at
  BY Zenon DEF IsRow
<1> QED
  BY <1>1, <1>2

\* The rows of the table stay, with their places; others come.
RowsKept ==
    /\ Ids(rows) \subseteq Ids(rows)'
    /\ \A r \in rows' : r.id \in Ids(rows) => \E s \in rows : s.id = r.id /\ s.at = r.at

\* One row is replaced by another in its place.
LEMMA OneRow ==
  ASSUME TableInv, NEW r \in rows \cup coming, NEW n, IsRow(n), n.id = r.id, n.at = r.at,
         rows' = (rows \ {r}) \cup {n}, coming' = coming \ {r}
  PROVE  TableInv' /\ RowsKept
<1>1. IsFiniteSet(rows') /\ IsFiniteSet(coming')
  <2>1. IsFiniteSet(rows \ {r}) /\ IsFiniteSet(coming \ {r})
    BY FS_Subset DEF TableInv
  <2> QED
    BY <2>1, FS_AddElement
<1>2. Table(rows' \cup coming')
  BY DEF TableInv, Table
<1>3. rows' \cap coming' = {}
  BY DEF TableInv, Table
<1>4. RowsKept
  <2>1. ASSUME NEW i \in Ids(rows) PROVE i \in Ids(rows)'
    <3>1. PICK s \in rows : s.id = i
      BY DEF Ids
    <3>2. CASE s = r
      BY <3>1, <3>2 DEF Ids
    <3>3. CASE s # r
      BY <3>1, <3>3 DEF Ids
    <3> QED
      BY <3>2, <3>3
  <2>2. ASSUME NEW s \in rows', s.id \in Ids(rows)
        PROVE  \E t \in rows : t.id = s.id /\ t.at = s.at
    <3>1. CASE s \in rows
      BY <3>1
    <3>2. CASE s = n
      <4>1. PICK t \in rows : t.id = n.id
        BY <2>2, <3>2 DEF Ids
      <4>2. t = r
        BY <4>1 DEF TableInv, Table
      <4> QED
        BY <3>2, <4>1, <4>2
    <3> QED
      BY <3>1, <3>2
  <2> QED
    BY <2>1, <2>2 DEF RowsKept
<1> QED
  BY <1>1, <1>2, <1>3, <1>4 DEF TableInv

\* The backfill of a link replaces rows in their places.
LEMMA BackfillKeeps ==
  ASSUME TableInv, NEW l \in backfills, Backfill(l)
  PROVE  TableInv' /\ RowsKept
<1> DEFINE filled(r) == IF r.vendor = l.vendor /\ r.user = l.user /\ r.owner = Nobody
                          THEN [r EXCEPT !.owner = l.canon] ELSE r
<1>1. rows' = {filled(r) : r \in rows} /\ coming' = coming
  BY DEF Backfill
<1>2. ASSUME NEW r \in rows
      PROVE  IsRow(filled(r)) /\ filled(r).id = r.id /\ filled(r).at = r.at
  <2>1. IsRow(r)
    BY DEF TableInv, Table
  <2> QED
    BY <2>1, ColumnsKept
<1> HIDE DEF filled
<1>3. IsFiniteSet(rows')
  <2> DEFINE f == [r \in rows |-> filled(r)]
  <2>1. f \in Surjection(rows, rows')
    BY <1>1 DEF Surjection
  <2> QED
    BY <2>1, FS_Surjection DEF TableInv
<1>4. Table(rows' \cup coming')
  BY <1>1, <1>2 DEF TableInv, Table
<1>5. rows' \cap coming' = {}
  <2> SUFFICES ASSUME NEW r \in rows, filled(r) \in coming PROVE FALSE
    BY <1>1
  <2>1. filled(r).id = r.id
    BY <1>2
  <2>2. filled(r) = r
    BY <2>1 DEF TableInv, Table
  <2> QED
    BY <2>2 DEF TableInv
<1>6. RowsKept
  BY <1>1, <1>2 DEF RowsKept, Ids
<1> QED
  BY <1>1, <1>3, <1>4, <1>5, <1>6 DEF TableInv

\* Every step keeps the table, and the rows in their places.
LEMMA RowsStep ==
  ASSUME TableInv, [Next]_vars
  PROVE  TableInv' /\ RowsKept
<1>1. ASSUME UNCHANGED <<rows, coming>> PROVE TableInv' /\ RowsKept
  BY <1>1 DEF TableInv, RowsKept, Ids
<1>2. ASSUME NEW s \in coming, StoreShot(s) PROVE TableInv' /\ RowsKept
  <2>1. PICK owner : rows' = rows \cup {[s EXCEPT !.owner = owner]}
    BY <1>2, Zenon DEF StoreShot
  <2>2. IsRow(s) /\ s \notin rows
    BY DEF TableInv, Table
  <2> DEFINE n == [s EXCEPT !.owner = owner]
  <2>3. IsRow(n) /\ n.id = s.id /\ n.at = s.at
    BY <2>2, ColumnsKept
  <2>4. rows' = (rows \ {s}) \cup {n} /\ coming' = coming \ {s}
    <3>1. coming' = coming \ {s}
      BY <1>2, Zenon DEF StoreShot
    <3> HIDE DEF n
    <3>2. rows' = rows \cup {n}
      BY <2>1, Zenon DEF n
    <3> QED
      BY <2>2, <3>1, <3>2
  <2> HIDE DEF n
  <2> QED
    BY <2>3, <2>4, OneRow
<1>3. ASSUME NEW r \in rows, FlagShot(r) PROVE TableInv' /\ RowsKept
  <2>1. IsRow(r) /\ r \notin coming
    BY DEF TableInv, Table
  <2> DEFINE n == [r EXCEPT !.duplicate = TRUE]
  <2>2. IsRow(n) /\ n.id = r.id /\ n.at = r.at
    BY <2>1, ColumnsKept
  <2>3. rows' = (rows \ {r}) \cup {n} /\ coming' = coming
    BY <1>3, Zenon DEF FlagShot
  <2>4. coming' = coming \ {r}
    BY <2>1, <2>3
  <2> HIDE DEF n
  <2> QED
    BY <2>2, <2>3, <2>4, OneRow
<1>4. ASSUME NEW l \in backfills, Backfill(l) PROVE TableInv' /\ RowsKept
  BY <1>4, BackfillKeeps
<1>5. CASE Tick \/ GetPage \/ GetStats \/ Lose
  BY <1>1, <1>5, Zenon DEF Tick, GetPage, GetStats, Lose, dbVars
<1>6. ASSUME NEW r \in Request,
             AroundHandler(r) \/ LinkIdentity(r) \/ LinkRefused(r) \/ LinkFails(r)
      PROVE  TableInv' /\ RowsKept
  BY <1>1, <1>6, Zenon DEF AroundHandler, LinkIdentity, LinkRefused, LinkFails, dbVars
<1>7. CASE UNCHANGED vars
  BY <1>1, <1>7, Zenon DEF vars, dbVars
<1> QED
  BY <1>2, <1>3, <1>4, <1>5, <1>6, <1>7 DEF Next

\* Only GetPage moves the walk.
LEMMA WalkStep == [Next]_vars => GetPage \/ UNCHANGED walk
BY Zenon DEF Next, vars, StoreShot, FlagShot, Backfill, Tick, GetStats, AroundHandler,
   LinkIdentity, LinkRefused, LinkFails, Lose

\* The query stays what it is.
LEMMA QueryStep == [Next]_vars => UNCHANGED query
BY Zenon DEF Next, vars, GetPage, StoreShot, FlagShot, Backfill, Tick, GetStats,
   AroundHandler, LinkIdentity, LinkRefused, LinkFails, Lose

-----------------------------------------------------------------------------
(* The walk.                                                               *)

\* A cursor that a page has given.
Cursor == [at : Nat, id : Nat]

\* The fields of a walk.
IsWalk(w) ==
    /\ w = [field \in DOMAIN w |-> w[field]]
    /\ {"at", "status", "cursor", "size", "seen", "twice", "steady"} \subseteq DOMAIN w

\* Every shot on an earlier page is at the cursor or newer; a shot that was always
\* in the listing is on an earlier page, or older than the cursor.
WalkInv ==
    /\ IsWalk(walk)
    /\ query.limit \in Int \cup {Absent}
    /\ walk.twice = {}
    /\ walk.seen \subseteq Ids(rows) /\ walk.steady \subseteq Ids(rows)
    /\ walk.at = "on" =>
          /\ walk.status = 0 =>
                walk.seen = {} /\ walk.cursor \in {Absent, Garbled, Undated}
          /\ walk.cursor \in {Absent, Garbled, Undated} \cup Cursor
          /\ walk.seen # {} => walk.cursor \in Cursor
          /\ walk.status # 0 => walk.cursor \in Cursor
          /\ \A r \in rows : r.id \in walk.seen => ~ Before(r, walk.cursor)
          /\ walk.status # 0 => \A r \in rows : r.id \in walk.steady =>
                r.id \in walk.seen \/ Before(r, walk.cursor)
    /\ WalkIsComplete

\* Both.
ListInv == TableInv /\ WalkInv

\* The limit is a number.
LEMMA LimitIsInt ==
  ASSUME NEW q, q.limit \in Int \cup {Absent}
  PROVE  Limit(q) \in Int
BY LimitsAreNumbers DEF Limit

\* The rows a page is taken from.
LeftOver == {r \in Listed(rows, query, now) :
                walk.cursor # Absent => PastCursor(r, walk.cursor)}

\* The rows of the next page, and whether there are more.
PageRows == Newest(Fetched(rows, query, walk.cursor, now), Limit(query))
MoreRows == Cardinality(Fetched(rows, query, walk.cursor, now)) > Limit(query)

\* A part of a finite table is one.
LEMMA TableParts ==
  ASSUME NEW S, IsFiniteSet(S), Table(S), NEW T, T \subseteq S
  PROVE  IsFiniteSet(T) /\ Table(T)
BY FS_Subset DEF Table

\* What is on a page, and what is not.
LEMMA PageParts ==
  ASSUME TableInv, query.limit \in Int \cup {Absent}
  PROVE  /\ PageRows \subseteq LeftOver /\ LeftOver \subseteq rows
         /\ Table(rows) /\ Table(PageRows)
         /\ \A r \in LeftOver \ PageRows, d \in PageRows : Before(r, d)
         /\ Limit(query) >= 1 /\ (~ MoreRows \/ PageRows = {}) => PageRows = LeftOver
<1> DEFINE L == Limit(query)
           F == Fetched(rows, query, walk.cursor, now)
<1>1. L \in Int
  BY LimitIsInt
<1>2. IsFiniteSet(rows) /\ Table(rows)
  BY DEF TableInv, Table
<1>3. LeftOver \subseteq rows
  BY DEF LeftOver, Listed
<1>4. F = Newest(LeftOver, L + 1)
  BY DEF Fetched, LeftOver
<1>5. PageRows = Newest(F, L) /\ (MoreRows <=> Cardinality(F) > L)
  BY DEF PageRows, MoreRows
<1> HIDE DEF L, F
<1>6. IsFiniteSet(LeftOver) /\ Table(LeftOver)
  BY <1>2, <1>3, TableParts
<1>7. F \subseteq LeftOver
  BY <1>4, NewestMembers
<1>8. IsFiniteSet(F) /\ Table(F)
  BY <1>6, <1>7, TableParts
<1>9. PageRows \subseteq F
  BY <1>5, NewestMembers
<1>10. IsFiniteSet(PageRows) /\ Table(PageRows)
  BY <1>8, <1>9, TableParts
<1>11. ASSUME NEW r \in LeftOver \ PageRows, NEW d \in PageRows PROVE Before(r, d)
  <2>1. CASE r \in F
    BY <1>1, <1>5, <1>8, <2>1, NewestCut
  <2>2. CASE r \notin F
    <3>1. L + 1 \in Int /\ d \in Newest(LeftOver, L + 1) /\ r \in LeftOver \ Newest(LeftOver, L + 1)
      BY <1>1, <1>4, <1>9, <2>2
    <3> QED
      BY <1>6, <3>1, NewestCut
  <2> QED
    BY <2>1, <2>2
<1>12. ASSUME L >= 1, ~ MoreRows \/ PageRows = {} PROVE PageRows = LeftOver
  <2>1. Cardinality(F) \in Nat /\ Cardinality(PageRows) \in Nat
    BY <1>8, <1>10, FS_CardinalityType
  <2>2. ASSUME PageRows # F
        PROVE  L <= Cardinality(PageRows) /\ Cardinality(PageRows) < Cardinality(F)
    <3>1. F \ Newest(F, L) # {}
      BY <1>5, <1>9, <2>2
    <3>2. L <= Cardinality(PageRows)
      BY <1>1, <1>5, <1>8, <3>1, NewestFull
    <3>3. Cardinality(PageRows) < Cardinality(F)
      BY <1>8, <1>9, <2>1, <2>2, FS_Subset
    <3> QED
      BY <3>2, <3>3
  <2>3. PageRows = F
    <3>1. CASE ~ MoreRows
      BY <1>1, <1>5, <2>1, <2>2, <3>1
    <3>2. CASE PageRows = {}
      <4>1. Cardinality(PageRows) = 0
        BY <3>2, FS_EmptySet
      <4> QED
        BY <1>1, <1>12, <2>2, <4>1
    <3> QED
      BY <1>12, <3>1, <3>2
  <2>4. ASSUME F # LeftOver PROVE FALSE
    <3>1. L + 1 \in Int /\ LeftOver \ Newest(LeftOver, L + 1) # {}
      <4>1. PICK r \in LeftOver : r \notin F
        BY <1>7, <2>4
      <4> QED
        BY <1>1, <1>4, <4>1
    <3>2. L + 1 <= Cardinality(F)
      BY <1>4, <1>6, <3>1, NewestFull
    <3>3. CASE ~ MoreRows
      BY <1>1, <1>5, <2>1, <3>2, <3>3
    <3>4. CASE PageRows = {}
      <4>1. Cardinality(F) = 0
        BY <2>3, <3>4, FS_EmptySet
      <4> QED
        BY <1>1, <1>12, <3>2, <4>1
    <3> QED
      BY <1>12, <3>3, <3>4
  <2> QED
    BY <2>3, <2>4
<1> QED
  BY <1>2, <1>3, <1>7, <1>9, <1>10, <1>11, <1>12 DEF L

\* A step that leaves the walk where it is.
LEMMA WalkStays ==
  ASSUME TableInv, TableInv', RowsKept, WalkInv, UNCHANGED <<walk, query>>
  PROVE  WalkInv'
<1>1. ASSUME NEW i, i \in walk.seen \cup walk.steady PROVE i \in Ids(rows) /\ i \in Ids(rows)'
  BY <1>1 DEF WalkInv, RowsKept
<1>2. ASSUME NEW r \in rows', r.id \in walk.seen \cup walk.steady
      PROVE  \E s \in rows : s.id = r.id /\ s.at = r.at
  BY <1>1, <1>2 DEF RowsKept
<1>3. ASSUME walk.at = "on"
      PROVE  /\ \A r \in rows' : r.id \in walk.seen => ~ Before(r, walk.cursor)
             /\ walk.status # 0 => \A r \in rows' : r.id \in walk.steady =>
                   r.id \in walk.seen \/ Before(r, walk.cursor)
  <2>1. ASSUME NEW r \in rows', r.id \in walk.seen PROVE ~ Before(r, walk.cursor)
    <3>1. PICK s \in rows : s.id = r.id /\ s.at = r.at
      BY <1>2, <2>1
    <3> QED
      BY <1>3, <2>1, <3>1 DEF WalkInv, Before
  <2>2. ASSUME NEW r \in rows', r.id \in walk.steady, walk.status # 0
        PROVE  r.id \in walk.seen \/ Before(r, walk.cursor)
    <3>1. PICK s \in rows : s.id = r.id /\ s.at = r.at
      BY <1>2, <2>2
    <3> QED
      BY <1>3, <2>2, <3>1 DEF WalkInv, Before
  <2> QED
    BY <2>1, <2>2
<1>4. walk.seen \subseteq Ids(rows)' /\ walk.steady \subseteq Ids(rows)'
  BY <1>1
<1> QED
  BY <1>3, <1>4 DEF WalkInv, WalkIsComplete, Limit

\* The next page goes on where the last one ended.
LEMMA PageStep ==
  ASSUME TableInv, WalkInv, GetPage, UNCHANGED <<rows, query>>
  PROVE  WalkInv'
<1>1. CASE QueryFails(query, walk.cursor)
  <2>1. walk' = [walk EXCEPT !.at = "refused",
                    !.status = Catch(QueryError(query, walk.cursor)).status]
    BY <1>1, Zenon DEF GetPage
  <2>2. /\ IsWalk(walk') /\ walk'.at = "refused" /\ walk'.seen = walk.seen
        /\ walk'.twice = walk.twice /\ walk'.steady = walk.steady
    <3>1. IsWalk(walk)
      BY DEF WalkInv
    <3> DEFINE status == Catch(QueryError(query, walk.cursor)).status
    <3>2. walk' = [walk EXCEPT !.at = "refused", !.status = status]
      BY <2>1
    <3> HIDE DEF status
    <3> QED
      BY <3>1, <3>2, Zenon DEF IsWalk
  <2> QED
    BY <2>2 DEF WalkInv, WalkIsComplete, Ids
<1>2. CASE ~ QueryFails(query, walk.cursor)
  <2> DEFINE listed == Ids(Listed(rows, query, now))
             page == Page(rows, query, walk.cursor, now)
  <2>1. walk' = [at |-> IF page.next_cursor = Absent THEN "ended" ELSE "on",
                 status |-> 200,
                 cursor |-> page.next_cursor,
                 size |-> Cardinality(page.data),
                 seen |-> walk.seen \cup Ids(page.data),
                 twice |-> walk.twice \cup (walk.seen \cap Ids(page.data)),
                 steady |-> IF walk.status = 0 THEN listed ELSE walk.steady \cap listed]
    BY <1>2, Zenon DEF GetPage
  <2>2. /\ page.data = PageRows
        /\ page.next_cursor = IF MoreRows /\ PageRows # {}
                                THEN [at |-> Oldest(PageRows).at, id |-> Oldest(PageRows).id]
                                ELSE Absent
    BY DEF Page, PageRows, MoreRows
  <2> HIDE DEF listed, page
  <2>3. walk.at = "on" /\ walk.cursor \notin {Garbled, Undated}
    BY <1>2 DEF GetPage, QueryFails
  <2>4. /\ walk.cursor # Absent => walk.cursor \in Cursor
        /\ walk.cursor = Absent => walk.seen = {} /\ walk.status = 0
    BY <2>3, AbsentIsNoCursor DEF WalkInv, Cursor
  <2>5. /\ PageRows \subseteq LeftOver /\ LeftOver \subseteq rows
        /\ Table(rows) /\ Table(PageRows)
        /\ \A r \in LeftOver \ PageRows, d \in PageRows : Before(r, d)
        /\ Limit(query) >= 1 /\ (~ MoreRows \/ PageRows = {}) => PageRows = LeftOver
    BY PageParts DEF WalkInv
  <2>6. \A r \in PageRows : r.id \notin walk.seen
    <3> SUFFICES ASSUME NEW r \in PageRows, r.id \in walk.seen PROVE FALSE
      OBVIOUS
    <3>1. walk.cursor # Absent
      BY <2>4
    <3>2. Before(r, walk.cursor)
      BY <2>5, <3>1 DEF LeftOver, PastCursor
    <3> QED
      BY <2>3, <2>5, <3>2 DEF WalkInv
  <2>7. walk'.twice = {}
    BY <2>1, <2>2, <2>6 DEF WalkInv, Ids
  <2>8. walk'.seen = walk.seen \cup Ids(PageRows)
    BY <2>1, <2>2
  <2>9. ASSUME NEW i \in walk'.steady PROVE \E r \in Listed(rows, query, now) : r.id = i
    BY <2>1, <2>9 DEF listed, Ids
  <2>10. Listed(rows, query, now) \subseteq rows
    BY DEF Listed
  <2>11. walk'.seen \subseteq Ids(rows) /\ walk'.steady \subseteq Ids(rows)
    BY <2>5, <2>8, <2>9, <2>10 DEF WalkInv, Ids
  <2>12. ASSUME NEW r \in rows, r.id \in walk'.steady, r.id \notin walk'.seen
         PROVE  r \in LeftOver \ PageRows
    <3>1. r \in Listed(rows, query, now)
      BY <2>5, <2>9, <2>10, <2>12 DEF Table
    <3>2. r.id \notin walk.seen /\ r \notin PageRows
      BY <2>8, <2>12 DEF Ids
    <3>3. walk.cursor # Absent => Before(r, walk.cursor)
      <4>1. CASE walk.status = 0
        <5>1. walk.cursor = Absent
          BY <2>3, <2>4, <4>1 DEF WalkInv
        <5> QED
          BY <5>1
      <4>2. CASE walk.status # 0
        BY <2>1, <2>3, <2>12, <3>2, <4>2 DEF WalkInv
      <4> QED
        BY <4>1, <4>2
    <3> QED
      BY <3>1, <3>2, <3>3 DEF LeftOver, PastCursor
  <2>13. ASSUME walk'.at = "ended", Limit(query) >= 1 PROVE walk'.steady \subseteq walk'.seen
    <3>1. page.next_cursor = Absent
      BY <2>1, <2>13
    <3>2. ASSUME MoreRows, PageRows # {} PROVE FALSE
      <4>1. Oldest(PageRows).at \in Nat /\ Oldest(PageRows).id \in Nat
        BY <2>5, <3>2, OldestExists DEF Table, IsRow
      <4> QED
        BY <2>2, <3>1, <3>2, <4>1, AbsentIsNoCursor
    <3>3. PageRows = LeftOver
      BY <2>5, <2>13, <3>2
    <3> QED
      BY <2>11, <2>12, <3>3 DEF Ids
  <2>14. ASSUME walk'.at = "on"
         PROVE  /\ walk'.cursor \in Cursor
                /\ \A r \in rows : r.id \in walk'.seen => ~ Before(r, walk'.cursor)
                /\ \A r \in rows : r.id \in walk'.steady =>
                       r.id \in walk'.seen \/ Before(r, walk'.cursor)
    <3> DEFINE o == Oldest(PageRows)
    <3>1. MoreRows /\ PageRows # {} /\ walk'.cursor = [at |-> o.at, id |-> o.id]
      BY <2>1, <2>2, <2>14
    <3>2. o \in PageRows /\ \A s \in PageRows : s = o \/ Before(o, s)
      BY <2>5, <3>1, OldestExists
    <3> HIDE DEF o
    <3>3. o \in rows /\ o.at \in Nat /\ o.id \in Nat
      BY <2>5, <3>2 DEF Table, IsRow
    <3>4. walk'.cursor \in Cursor
      BY <3>1, <3>3 DEF Cursor
    <3>5. ASSUME NEW r \in rows PROVE Before(r, walk'.cursor) <=> Before(r, o)
      BY <3>1 DEF Before
    <3>6. ASSUME NEW r \in rows, r.id \in walk'.seen PROVE ~ Before(r, o)
      <4>0. r.at \in Nat /\ r.id \in Nat
        BY <2>5 DEF Table, IsRow
      <4>1. CASE r.id \in Ids(PageRows)
        <5>1. r \in PageRows
          BY <2>5, <4>1 DEF Ids, Table
        <5> QED
          BY <3>2, <3>3, <4>0, <5>1, StrictOrder
      <4>2. CASE r.id \in walk.seen
        <5>1. walk.cursor \in Cursor /\ walk.cursor # Absent
          BY <2>3, <2>4, <4>2 DEF WalkInv
        <5>2. ~ Before(r, walk.cursor)
          BY <2>3, <4>2 DEF WalkInv
        <5>3. Before(o, walk.cursor)
          BY <2>5, <3>2, <5>1 DEF LeftOver, PastCursor
        <5> QED
          BY <3>3, <4>0, <5>1, <5>2, <5>3, StrictOrder DEF Cursor
      <4> QED
        BY <2>8, <3>6, <4>1, <4>2
    <3>7. ASSUME NEW r \in rows, r.id \in walk'.steady, r.id \notin walk'.seen
          PROVE  Before(r, o)
      BY <2>5, <2>12, <3>2, <3>7
    <3> QED
      BY <3>4, <3>5, <3>6, <3>7
  <2>15. walk'.at \in {"on", "ended"} /\ walk'.status = 200 /\ IsWalk(walk')
    <3>1. walk'.at \in {"on", "ended"} /\ walk'.status = 200
      BY <2>1
    <3>2. IsWalk(walk')
      BY <2>1, Zenon DEF IsWalk
    <3> QED
      BY <3>1, <3>2
  <2>16. WalkIsComplete'
    BY <2>13 DEF WalkIsComplete, Limit
  <2> QED
    BY <2>7, <2>11, <2>14, <2>15, <2>16 DEF WalkInv, Ids, IsWalk
<1> QED
  BY <1>1, <1>2

\* Nothing has been shown at first.
LEMMA InitListed == Init => ListInv
<1> SUFFICES ASSUME Init PROVE ListInv
  OBVIOUS
<1>1. PICK sc \in Scenario :
         /\ rows = sc.rows /\ coming = sc.coming /\ query = sc.query
         /\ walk = [at |-> "on", status |-> 0, cursor |-> sc.cursor, size |-> 0,
                    seen |-> {}, twice |-> {}, steady |-> {}]
  BY Zenon DEF Init
<1>2. TableInv
  BY <1>1, ScenariosAreTables DEF TableInv, Table
<1>3. sc.cursor \in {Absent, Garbled, Undated} /\ IsQuery(sc.query)
  BY ScenariosAreTables
<1>4. IsWalk(walk)
  BY <1>1, Zenon DEF IsWalk
<1>5. WalkInv
  BY <1>1, <1>3, <1>4 DEF WalkInv, WalkIsComplete, IsQuery
<1> QED
  BY <1>2, <1>5 DEF ListInv

\* The invariant of the listing holds always.
LEMMA ListInvariant == Spec => []ListInv
<1>1. ASSUME ListInv, [Next]_vars PROVE ListInv'
  <2>1. TableInv' /\ RowsKept /\ UNCHANGED query
    BY <1>1, RowsStep, QueryStep DEF ListInv
  <2>2. CASE GetPage
    <3>1. UNCHANGED rows
      BY <2>2, Zenon DEF GetPage, dbVars
    <3> QED
      BY <1>1, <2>1, <2>2, <3>1, PageStep DEF ListInv
  <2>3. CASE UNCHANGED walk
    BY <1>1, <2>1, <2>3, WalkStays DEF ListInv
  <2> QED
    BY <1>1, <2>2, <2>3, WalkStep
<1> QED
  BY <1>1, InitListed, PTL DEF Spec

\* No shot is on two pages of a walk, whatever happens to the table between them.
THEOREM NothingTwice == Spec => []NoShotListedTwice
<1>1. ListInv => NoShotListedTwice
  BY DEF ListInv, WalkInv, NoShotListedTwice
<1> QED
  BY <1>1, ListInvariant, PTL

\* A walk that is at its end has shown every shot that was in the listing whenever a
\* page was asked for.
THEOREM WalksAreComplete == Spec => []WalkIsComplete
<1>1. ListInv => WalkIsComplete
  BY DEF ListInv, WalkInv
<1> QED
  BY <1>1, ListInvariant, PTL
=============================================================================
