----------------------------- MODULE UdpForward -----------------------------
(***************************************************************************)
(* One UDP service.  On the server a single goroutine (server.go, Run; the *)
(* runner here) picks a session of the service's udpPool, opens one stream *)
(* on it and runs ServerUDP (udp.go) until that returns.  On the client    *)
(* each worker (client.go, runUDPSession) accepts one stream of its        *)
(* session and runs ClientUDP, whose two loops are a goroutine of their    *)
(* own from the stream to the local service and the worker itself from the *)
(* local service to the stream.                                            *)
(*                                                                         *)
(* Connecting and authenticating is one step here, module Tunnel has the   *)
(* details; session identifiers are used again as they are there.  A frame *)
(* is the address key and the visitor that the datagram comes from or      *)
(* goes to.                                                                *)
(***************************************************************************)
EXTENDS PoolOps, FiniteSets

CONSTANTS
  Workers,     \* the client goroutines of this service
  Visitors,    \* source addresses of UDP visitors
  Sessions,    \* yamux sessions
  Owner,       \* the worker that a session belongs to
  MaxDrops,    \* bound on broken links and server crashes
  MaxBindFails,\* bound on failures of net.ListenUDP
  MaxSent,     \* bound on datagrams of visitors
  NoAddr,      \* the empty address key
  None

ASSUME UdpAssumption ==
  /\ Owner \in [Sessions -> Workers]
  /\ None \notin Sessions
  /\ NoAddr \notin Visitors
  /\ MaxDrops \in Nat /\ MaxBindFails \in Nat /\ MaxSent \in Nat

VARIABLES
  runner,    \* where the runner is in its loop
  rsess,     \* the session it works on, or None
  pool,      \* udpPools[name].sessions
  link,      \* link[s]: the connection of session s
  session,   \* session[s]: as the server sees it
  opened,    \* opened[s]: streams the runner opened on s, up to 2
  table,     \* the keys of ServerUDP's map of visitors
  toClient,  \* toClient[s], toServer[s]: frames on the stream of s
  toServer,
  wpc,       \* where the worker is in runUDPSession
  wsess,     \* its session, or None
  receiving, \* receiving[w]: the goroutine of its ClientUDP is running
  pending,   \* requests that the local service has from w and not answered
  sent,      \* datagrams sent by visitors
  answered,  \* visitors that a datagram was written to
  drops, bindFails

linkVars == <<link, session, opened, toClient, toServer>>
runnerVars == <<runner, rsess, pool, table>>
workerVars == <<wpc, wsess, receiving, pending>>
countVars == <<sent, answered, drops, bindFails>>
vars == <<runner, rsess, pool, link, session, opened, table, toClient, toServer, wpc,
          wsess, receiving, pending, sent, answered, drops, bindFails>>

Frame(key, visitor) == [key |-> key, visitor |-> visitor]
Frames == [key : Visitors \cup {NoAddr}, visitor : Visitors]

-----------------------------------------------------------------------------
(* The runner.                                                             *)

Dead == {s \in Sessions : session[s] # "open"}

(* pool.pick()                                                             *)
PickSession(k) ==
  /\ runner = "pick"
  /\ FirstLive(pool, Dead, k)
  /\ pool' = Rotated(pool, k)
  /\ rsess' = pool[k]
  /\ runner' = "open"
  /\ UNCHANGED <<table, linkVars, workerVars, countVars>>

(* Mutant: only the head of the pool is looked at.                         *)
MutantPickNil ==
  /\ runner = "pick"
  /\ pool # <<>> => Head(pool) \in Dead
  /\ runner' = "blocked"
  /\ UNCHANGED <<rsess, pool, table, linkVars, workerVars, countVars>>

(* pick() returns nil: <-make(chan struct{}).                              *)
PickNil ==
  /\ runner = "pick"
  /\ NoneLive(pool, Dead)
  /\ pool' = <<>>
  /\ runner' = "blocked"
  /\ UNCHANGED <<rsess, table, linkVars, workerVars, countVars>>

OpenOneMore(s) == opened' = [opened EXCEPT ![s] = IF @ = 2 THEN 2 ELSE @ + 1]

(* sess.Open() and net.ListenUDP succeed.                                  *)
Serve ==
  /\ runner = "open"
  /\ session[rsess] = "open"
  /\ OpenOneMore(rsess)
  /\ runner' = "serve"
  /\ table' = {}
  /\ UNCHANGED <<rsess, pool, link, session, toClient, toServer, workerVars, countVars>>

(* net.ListenUDP fails.  ServerUDP returns and nobody closes the stream.   *)
BindFails ==
  /\ runner = "open"
  /\ session[rsess] = "open"
  /\ bindFails < MaxBindFails
  /\ bindFails' = bindFails + 1
  /\ OpenOneMore(rsess)
  /\ runner' = "pick"
  /\ rsess' = None
  /\ UNCHANGED <<pool, table, link, session, toClient, toServer, workerVars, sent, answered,
                 drops>>

(* sess.Open() fails: continue.                                            *)
OpenFails ==
  /\ runner = "open"
  /\ session[rsess] # "open" \/ link[rsess] = "down"
  /\ runner' = "pick"
  /\ rsess' = None
  /\ UNCHANGED <<pool, table, linkVars, workerVars, countVars>>

(* ServerUDP's read of the stream fails: it returns, its socket is closed  *)
(* and the goroutine that reads the socket ends.                           *)
ServeEnds ==
  /\ runner = "serve"
  /\ session[rsess] # "open"
  /\ runner' = "pick"
  /\ rsess' = None
  /\ table' = {}
  /\ UNCHANGED <<pool, linkVars, workerVars, countVars>>

-----------------------------------------------------------------------------
(* ServerUDP.                                                              *)

(* A datagram of u is read from the socket and written to the stream.      *)
Datagram(u) ==
  /\ runner = "serve"
  /\ session[rsess] = "open"
  /\ sent < MaxSent
  /\ sent' = sent + 1
  /\ table' = table \cup {u}
  /\ toClient' = IF link[rsess] = "up"
                   THEN [toClient EXCEPT ![rsess] = Append(@, Frame(u, u))]
                   ELSE toClient
  /\ UNCHANGED <<runner, rsess, pool, link, session, opened, toServer, workerVars,
                 answered, drops, bindFails>>

(* The cleanup goroutine: u was not heard of for sessionTimeout.           *)
Expire(u) ==
  /\ runner = "serve"
  /\ u \in table
  /\ table' = table \ {u}
  /\ UNCHANGED <<runner, rsess, pool, linkVars, workerVars, countVars>>

(* A frame is read from the stream and its payload written to the visitor  *)
(* whose key it has, if there is one.                                      *)
ServerReceives ==
  LET frame == Head(toServer[rsess]) IN
  /\ runner = "serve"
  /\ toServer[rsess] # <<>>
  /\ toServer' = [toServer EXCEPT ![rsess] = Tail(@)]
  /\ answered' = IF frame.key \in table THEN answered \cup {frame.visitor} ELSE answered
  /\ UNCHANGED <<runnerVars, link, session, opened, toClient, workerVars, sent, drops,
                 bindFails>>

-----------------------------------------------------------------------------
(* The workers.                                                            *)

Free(s) ==
  /\ link[s] = "down"
  /\ session[s] # "open"
  /\ rsess # s
  /\ s \notin Members(pool)
  /\ \A w \in Workers : wsess[w] # s

(* dialWithTransport, authenticate, yamux.Client and, on the server,       *)
(* handleClientConn up to pool.add(session).                               *)
Connects(w, s) ==
  /\ wpc[w] = "connect"
  /\ Owner[s] = w
  /\ Free(s)
  /\ link' = [link EXCEPT ![s] = "up"]
  /\ session' = [session EXCEPT ![s] = "open"]
  /\ opened' = [opened EXCEPT ![s] = 0]
  /\ toClient' = [toClient EXCEPT ![s] = <<>>]
  /\ toServer' = [toServer EXCEPT ![s] = <<>>]
  /\ pool' = Added(pool, s)
  /\ wpc' = [wpc EXCEPT ![w] = "accept"]
  /\ wsess' = [wsess EXCEPT ![w] = s]
  /\ UNCHANGED <<runner, rsess, table, receiving, pending, countVars>>

(* Mutant: session.Close() is not deferred.                                *)
MutantReturns(w) ==
  /\ wpc' = [wpc EXCEPT ![w] = "connect"]
  /\ wsess' = [wsess EXCEPT ![w] = None]
  /\ receiving' = [receiving EXCEPT ![w] = FALSE]
  /\ pending' = [pending EXCEPT ![w] = <<>>]
  /\ UNCHANGED <<runnerVars, linkVars, countVars>>

(* runUDPSession returns: its deferred session.Close(), then the retry.    *)
Returns(w) ==
  /\ link' = [link EXCEPT ![wsess[w]] = "down"]
  /\ wpc' = [wpc EXCEPT ![w] = "connect"]
  /\ wsess' = [wsess EXCEPT ![w] = None]
  /\ receiving' = [receiving EXCEPT ![w] = FALSE]
  /\ pending' = [pending EXCEPT ![w] = <<>>]
  /\ UNCHANGED <<runnerVars, session, opened, toClient, toServer, countVars>>

(* session.Accept() returns the first stream and ClientUDP starts.         *)
AcceptStream(w) ==
  /\ wpc[w] = "accept"
  /\ link[wsess[w]] = "up"
  /\ opened[wsess[w]] > 0
  /\ wpc' = [wpc EXCEPT ![w] = "forward"]
  /\ receiving' = [receiving EXCEPT ![w] = TRUE]
  /\ UNCHANGED <<runnerVars, linkVars, wsess, pending, countVars>>

(* session.Accept() fails.                                                 *)
AcceptFails(w) ==
  /\ wpc[w] = "accept"
  /\ link[wsess[w]] = "down"
  /\ Returns(w)

(* Mutant: the goroutine returns when it cannot write to the local service.*)
MutantClientReceives(w) ==
  /\ receiving[w]
  /\ opened[wsess[w]] = 1
  /\ toClient[wsess[w]] # <<>>
  /\ toClient' = [toClient EXCEPT ![wsess[w]] = Tail(@)]
  /\ receiving' = [receiving EXCEPT ![w] = FALSE]
  /\ UNCHANGED <<runnerVars, link, session, opened, toServer, wpc, wsess, pending,
                 countVars>>

(* The goroutine of ClientUDP takes a frame to the local service ...  The  *)
(* client reads the first stream of its session and no other.              *)
ClientReceives(w) ==
  /\ receiving[w]
  /\ opened[wsess[w]] = 1
  /\ toClient[wsess[w]] # <<>>
  /\ toClient' = [toClient EXCEPT ![wsess[w]] = Tail(@)]
  /\ pending' = [pending EXCEPT ![w] = Append(@, Head(toClient[wsess[w]]).visitor)]
  /\ UNCHANGED <<runnerVars, link, session, opened, toServer, wpc, wsess, receiving,
                 countVars>>

(* ... and returns when it cannot read the stream any more.                *)
ReceiverEnds(w) ==
  /\ receiving[w]
  /\ link[wsess[w]] = "down"
  /\ receiving' = [receiving EXCEPT ![w] = FALSE]
  /\ UNCHANGED <<runnerVars, linkVars, wpc, wsess, pending, countVars>>

(* The local service answers a request.  The worker, blocked in            *)
(* localUDP.Read until then, writes the answer to the stream, with an      *)
(* empty key, ...                                                          *)
Answer(w) ==
  /\ wpc[w] = "forward"
  /\ pending[w] # <<>>
  /\ link[wsess[w]] = "up"
  /\ pending' = [pending EXCEPT ![w] = Tail(@)]
  /\ toServer' = [toServer EXCEPT ![wsess[w]] = Append(@, Frame(NoAddr, Head(pending[w])))]
  /\ UNCHANGED <<runnerVars, link, session, opened, toClient, wpc, wsess, receiving,
                 countVars>>

(* ... or finds that it cannot; and it has an error to read when nobody    *)
(* listens at local_addr.                                                  *)
ClientFails(w) ==
  /\ wpc[w] = "forward"
  /\ pending[w] # <<>>
  /\ Returns(w)

-----------------------------------------------------------------------------
(* Failures.                                                               *)

(* The server's yamux notices a connection that is gone.                   *)
SessionDies(s) ==
  /\ session[s] = "open"
  /\ link[s] = "down"
  /\ session' = [session EXCEPT ![s] = "closed"]
  /\ UNCHANGED <<runnerVars, link, opened, toClient, toServer, workerVars, countVars>>

(* yamux closes a session with a stream that the peer did not accept in    *)
(* time (StreamOpenTimeout): the client accepts one, whoever waits for it. *)
OpenTimesOut(s) ==
  /\ session[s] = "open"
  /\ opened[s] = 2
  /\ session' = [session EXCEPT ![s] = "closed"]
  /\ link' = [link EXCEPT ![s] = "down"]
  /\ UNCHANGED <<runnerVars, opened, toClient, toServer, workerVars, countVars>>

LinkBreaks(s) ==
  /\ link[s] = "up"
  /\ drops < MaxDrops
  /\ drops' = drops + 1
  /\ link' = [link EXCEPT ![s] = "down"]
  /\ UNCHANGED <<runnerVars, session, opened, toClient, toServer, workerVars, sent,
                 answered, bindFails>>

(* The server process ends and starts again; Run starts the runner before  *)
(* it accepts clients, but nothing keeps the goroutine from running later. *)
ServerRestarts ==
  /\ drops < MaxDrops
  /\ drops' = drops + 1
  /\ runner' = "pick"
  /\ rsess' = None
  /\ pool' = <<>>
  /\ table' = {}
  /\ link' = [s \in Sessions |-> "down"]
  /\ session' = [s \in Sessions |-> "none"]
  /\ toServer' = [s \in Sessions |-> <<>>]
  /\ UNCHANGED <<opened, toClient, workerVars, sent, answered, bindFails>>

-----------------------------------------------------------------------------
Init ==
  /\ runner = "pick"
  /\ rsess = None
  /\ pool = <<>>
  /\ link = [s \in Sessions |-> "down"]
  /\ session = [s \in Sessions |-> "none"]
  /\ opened = [s \in Sessions |-> 0]
  /\ table = {}
  /\ toClient = [s \in Sessions |-> <<>>]
  /\ toServer = [s \in Sessions |-> <<>>]
  /\ wpc = [w \in Workers |-> "connect"]
  /\ wsess = [w \in Workers |-> None]
  /\ receiving = [w \in Workers |-> FALSE]
  /\ pending = [w \in Workers |-> <<>>]
  /\ sent = 0
  /\ answered = {}
  /\ drops = 0
  /\ bindFails = 0

Runner ==
  \/ \E k \in 1..Len(pool) : PickSession(k)
  \/ PickNil
  \/ Serve
  \/ OpenFails
  \/ ServeEnds

Worker(w) ==
  \/ \E s \in Sessions : Connects(w, s)
  \/ AcceptStream(w)
  \/ AcceptFails(w)

Receiver(w) == ClientReceives(w) \/ ReceiverEnds(w)

LocalService(w) == Answer(w) \/ ClientFails(w)

Yamux(s) == SessionDies(s) \/ OpenTimesOut(s)

Next ==
  \/ Runner
  \/ BindFails
  \/ \E u \in Visitors : Datagram(u) \/ Expire(u)
  \/ ServerReceives
  \/ \E w \in Workers : Worker(w) \/ Receiver(w) \/ LocalService(w)
  \/ \E s \in Sessions : Yamux(s) \/ LinkBreaks(s)
  \/ ServerRestarts

Spec == Init /\ [][Next]_vars

(* Every goroutine that can run runs, and the local service answers.       *)
(* Sockets fail, links break and visitors speak as they like.              *)
Fairness ==
  /\ WF_vars(Runner)
  /\ WF_vars(ServerReceives)
  /\ \A w \in Workers :
       WF_vars(Worker(w)) /\ WF_vars(Receiver(w)) /\ WF_vars(LocalService(w))
  /\ \A s \in Sessions : WF_vars(Yamux(s))

FairSpec == Spec /\ Fairness

-----------------------------------------------------------------------------
TypeOK ==
  /\ runner \in {"pick", "blocked", "open", "serve"}
  /\ rsess \in Sessions \cup {None}
  /\ pool \in Seq(Sessions)
  /\ link \in [Sessions -> {"up", "down"}]
  /\ session \in [Sessions -> {"none", "open", "closed"}]
  /\ opened \in [Sessions -> 0..2]
  /\ table \subseteq Visitors
  /\ toClient \in [Sessions -> Seq(Frames)]
  /\ toServer \in [Sessions -> Seq(Frames)]
  /\ wpc \in [Workers -> {"connect", "accept", "forward"}]
  /\ wsess \in [Workers -> Sessions \cup {None}]
  /\ receiving \in [Workers -> BOOLEAN]
  /\ pending \in [Workers -> Seq(Visitors)]
  /\ sent \in 0..MaxSent
  /\ answered \subseteq Visitors
  /\ drops \in 0..MaxDrops
  /\ bindFails \in 0..MaxBindFails

(* No session is abandoned: whatever ended a worker's last attempt, a      *)
(* connection that works belongs to what the worker does now.  The runner  *)
(* would send the visitors' datagrams there for good otherwise.            *)
NoSessionAbandoned ==
  \A s \in Sessions :
    link[s] = "up" => wsess[Owner[s]] = s /\ wpc[Owner[s]] # "connect"

(* While the runner has not given up and some session of the pool lives,   *)
(* the service comes back, whichever sessions die under it and however     *)
(* many opens and binds fail.                                              *)
StaysInService ==
  \A s \in Sessions :
    (runner # "blocked" /\ s \in Members(pool) /\ session[s] = "open") ~>
      (session[s] # "open" \/ (runner = "serve" /\ session[rsess] = "open"))

(* What was written to a stream reaches the local service or the session   *)
(* is lost, also when the client accepted a stream that nobody serves.     *)
RequestsGetThrough ==
  \A s \in Sessions :
    toClient[s] # <<>> ~> (toClient[s] = <<>> \/ link[s] = "down")

(* "We retry periodically until a session is available" (server.go:129):   *)
(* a session that stays available is served, or another one is.            *)
WaitsForSession ==
  \A s \in Sessions :
    (s \in Members(pool) /\ session[s] = "open") ~>
      (session[s] # "open" \/ runner = "serve")

(* "Read from stream -> write to UDP socket" (udp.go:90): an answer that   *)
(* ServerUDP reads while it knows the visitor is sent to the visitor.      *)
AnswersDelivered ==
  [][\A u \in table :
       ServerReceives /\ Head(toServer[rsess]).visitor = u => u \in answered']_vars

(* "Auto reconnect" (README.md:22): a worker whose connection is gone      *)
(* leaves its session and connects again.                                  *)
WorkersReconnect ==
  \A w \in Workers :
    (wpc[w] = "forward" /\ link[wsess[w]] = "down") ~> wpc[w] = "connect"
=============================================================================
