---------------------------- MODULE MCIdentityLink ----------------------------
(***************************************************************************)
(* Small instances of IdentityLink: shots of the vendor user u1, two       *)
(* canonical users, requests that may ask for anything.                    *)
(***************************************************************************)
EXTENDS IdentityLink, TLC

CONSTANTS u1, u2, c1, c2, l1

MCUserOf == [s \in Shot |-> u1]

MCListed == [l \in Lister |-> c1]

=============================================================================
