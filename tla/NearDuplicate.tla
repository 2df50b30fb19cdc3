---------------------------- MODULE NearDuplicate ----------------------------
(***************************************************************************)
(* The near-duplicate query of ShotRepository and the content hash it      *)
(* compares: which stored shots a newly stored shot takes for its origin.  *)
(* A shot is reduced to what the query reads: the instant it was captured  *)
(* and its swing, the class of (vendor, user, club, rounded measurements)  *)
(* that the hash and the vendor filter do not tell apart.                  *)
(***************************************************************************)
EXTENDS Deliveries, Integers

CONSTANTS
    Captured,   \* [Shot -> Nat], captured_at_utc
    Swing,      \* [Shot -> class]; a SHA-256 collision is taken not to happen
    Minute,     \* a minute, in the units of Captured
    Window      \* NEAR_DEDUPE_WINDOW_SECONDS, in the same units

ASSUME MinuteIsPositive == Minute \in Nat \ {0} /\ Window \in Nat
ASSUME WindowIsAtMostAMinute == Window <= Minute
ASSUME CapturedIsTime == Captured \in [Shot -> Nat]

-----------------------------------------------------------------------------

\* minuteBucket: the timestamp cut to its minute.
MinuteBucket(t) == t \div Minute

\* computeContentHash of the shot's swing at time t.
ContentHash(s, t) == <<Swing[s], MinuteBucket(t)>>

\* Mutant: the minute before is forgotten.
OwnHash(s) == {ContentHash(s, Captured[s])}

\* The shot's own hash, and the hash it would have one minute earlier.
HashesToMatch(s) ==
    {ContentHash(s, Captured[s]), ContentHash(s, Captured[s] - Minute)}

\* Mutant: the query forgets to leave the shot itself out.
TwinsAndSelf(s, stored) ==
    {t \in stored :
        /\ ContentHash(t, Captured[t]) \in HashesToMatch(s)
        /\ Captured[s] - Window <= Captured[t]
        /\ Captured[t] <= Captured[s] + Window}

\* The rows of the origin query: another stored shot with one of the two
\* hashes, captured within the window on either side.
Twins(s, stored) ==
    {t \in stored \ {s} :
        /\ ContentHash(t, Captured[t]) \in HashesToMatch(s)
        /\ Captured[s] - Window <= Captured[t]
        /\ Captured[t] <= Captured[s] + Window}

\* ORDER BY captured_at_utc ASC LIMIT 1; rows that tie come in any order.
Origins(s, stored) ==
    {t \in Twins(s, stored) :
        \A u \in Twins(s, stored) : Captured[t] <= Captured[u]}

=============================================================================
