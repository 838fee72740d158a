------------------------------ MODULE MCTunnel ------------------------------
(* A tunnel with two services of the server, s1 with a token of its own    *)
(* and s2 with the default one, and a third name it does not know.         *)
EXTENDS TunnelPools, TLC

CONSTANTS s1, s2, s3, w1, w2, w3, w4, v1, v2,
          a1, a2, a3, b1, d1, e1, e2, i1, probe

MCServerToken == s1 :> "secret" @@ s2 :> ""
MCServerDefault == "default"

(* w1 and w2 have the right token for s1 and s2, w3 sends s2's default     *)
(* token for s1, w4 has no token at all.                                   *)
AllServices == w1 :> s1 @@ w2 :> s2 @@ w3 :> s1 @@ w4 :> s2
AllTokens == w1 :> "secret" @@ w2 :> "default" @@ w3 :> "default" @@ w4 :> ""
MCWorkerService == [w \in Workers |-> AllServices[w]]
MCWorkerToken == [w \in Workers |-> AllTokens[w]]
MCClientDefault == ""

MCVisitorService == [v \in Visitors |-> IF v = v1 THEN s1 ELSE s2]

(* Two connections at a time for a worker: the one it uses and an old one  *)
(* that the server has not noticed to be dead.  w4 never gets as far.      *)
AllOwners == a1 :> w1 @@ a2 :> w1 @@ a3 :> w1 @@ b1 :> w2 @@ d1 :> w3
             @@ e1 :> w4 @@ e2 :> w4 @@ i1 :> probe
MCOwner == [c \in Conns |-> AllOwners[c]]

Symmetry == Permutations({a1, a2}) \cup Permutations({e1, e2})
=============================================================================
