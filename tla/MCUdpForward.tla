---------------------------- MODULE MCUdpForward ----------------------------
(* Two workers of one UDP service, the first with two sessions: one it     *)
(* uses and an old one that the server has not noticed to be dead.         *)
EXTENDS UdpForward, TLC

CONSTANTS w1, w2, u1, u2, a1, a2, b1

AllOwners == a1 :> w1 @@ a2 :> w1 @@ b1 :> w2
MCOwner == [s \in Sessions |-> AllOwners[s]]
=============================================================================
