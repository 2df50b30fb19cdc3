------------------------------ MODULE ShotLedger ------------------------------
(***************************************************************************)
(* What ingestion promises, without queue, workers, retries or outbox: a   *)
(* shot is entered at most once per idempotency key, may be marked once as *)
(* the duplicate of another entered shot, and is announced with the mark   *)
(* it carries or with none. Every entered shot is announced eventually.    *)
(***************************************************************************)
CONSTANTS JobId, Shot, NoShot, KeyOf, Faulty

VARIABLES
    entered,    \* shots in the ledger
    mark,       \* mark[s]: the shot s duplicates, or NoShot
    announced   \* announcements made: <<shot, mark it was announced with>>

lvars == <<entered, mark, announced>>

LInit ==
    /\ entered = {}
    /\ mark = [s \in Shot |-> NoShot]
    /\ announced = {}

Enter(s) ==
    /\ \A t \in entered : KeyOf[t] # KeyOf[s]
    /\ entered' = entered \cup {s}
    /\ UNCHANGED <<mark, announced>>

MarkDuplicate(s, o) ==
    /\ {s, o} \subseteq entered /\ s # o
    /\ mark[s] = NoShot
    /\ mark' = [mark EXCEPT ![s] = o]
    /\ UNCHANGED <<entered, announced>>

\* What may be said of the shots entered so far.
Sayable == {e \in entered \X (Shot \cup {NoShot}) : e[2] \in {NoShot, mark[e[1]]}}

Announce ==
    /\ announced' \in SUBSET (announced \cup Sayable)
    /\ announced \subseteq announced'
    /\ UNCHANGED <<entered, mark>>

LNext ==
    \/ \E s \in Shot : Enter(s)
    \/ \E s, o \in Shot : MarkDuplicate(s, o)
    \/ Announce

\* Announcing s for the first time, which may be delayed but not put off for
\* ever unless a listener keeps refusing s.
AnnounceShot(s) ==
    /\ Announce
    /\ ~ \E e \in announced : e[1] = s
    /\ \E e \in announced' : e[1] = s

LSafe == LInit /\ [][LNext]_lvars

LSpec == LSafe /\ \A s \in Shot \ Faulty : WF_lvars(AnnounceShot(s))

=============================================================================
