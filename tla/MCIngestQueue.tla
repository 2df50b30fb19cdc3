----------------------------- MODULE MCIngestQueue -----------------------------
(***************************************************************************)
(* Small instances of IngestQueue: one request with shot s1, a batch of s2 *)
(* and s3, and a retransmission s4 of s1.                                  *)
(***************************************************************************)
EXTENDS IngestQueue, TLC

CONSTANTS s1, s2, s3, s4, k1, k2, k3, single, batch, again

MCKeyOf == [s \in Shot |-> CASE s \in {s1, s4} -> k1 [] s = s2 -> k2 [] OTHER -> k3]

MCRequestOf ==
    [s \in Shot |-> CASE s = s1 -> single [] s = s4 -> again [] OTHER -> batch]

=============================================================================
