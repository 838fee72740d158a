---------------------------- MODULE TunnelPools ----------------------------
(***************************************************************************)
(* The pools of the tunnel, which several services, client handlers and    *)
(* visitor handlers work on, are each a SessionPool.                       *)
(***************************************************************************)
EXTENDS Tunnel

Held(s) ==
  [v \in Visitors |-> IF vpc[v] = "picked" /\ VisitorService[v] = s
                        THEN vconn[v] ELSE None]

P(s) == INSTANCE SessionPool WITH
          Sessions <- Conns,
          Handlers <- Visitors,
          pool     <- pool[s],
          closed   <- Closed,
          held     <- Held(s)

(* What SessionPool guarantees (no live session lost, none twice, fair     *)
(* turns) holds of every pool: nothing else that happens in the tunnel, in *)
(* another pool too, disturbs it.                                          *)
PoolsAreSessionPools ==
  /\ \A s \in Services : P(s)!Init
  /\ [][\A s \in Services : [P(s)!Next]_(P(s)!vars)]_vars
=============================================================================
