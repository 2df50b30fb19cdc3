---------------------------- MODULE MCShotPipeline ----------------------------
(***************************************************************************)
(* Small instances of ShotPipeline. a1 and a2 are two deliveries of one    *)
(* shot (a retransmission); b, captured one minute later, and c, captured  *)
(* in the minute of a1, are near-duplicates of it under their own keys.    *)
(***************************************************************************)
EXTENDS ShotPipeline, TLC

CONSTANTS a1, a2, b, c, ka, kb, kc

MCKeyOf == [s \in Shot |-> CASE s \in {a1, a2} -> ka [] s = b -> kb [] OTHER -> kc]
MCCaptured == [s \in Shot |-> CASE s \in {a1, a2} -> 5 [] s = b -> 8 [] OTHER -> 4]
MCSwing == [s \in Shot |-> "swing"]

MCSymmetry == Permutations(Slot)

=============================================================================
