------------------------------ MODULE Deliveries ------------------------------
(***************************************************************************)
(* The shots the modules of ingestion talk about. A shot is one parsed     *)
(* delivery: a retransmission is another shot, with a canonical_shot_id of *)
(* its own and the idempotency key of the first.                           *)
(***************************************************************************)
CONSTANTS
    Shot,       \* parsed deliveries, named by their canonical_shot_id
    NoShot,
    JobId,      \* idempotency keys, with the vendor they belong to
    KeyOf       \* [Shot -> JobId]

ASSUME NoShotIsNoShot == NoShot \notin Shot
ASSUME KeysAreJobIds == KeyOf \in [Shot -> JobId]

=============================================================================
