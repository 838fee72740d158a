------------------------------- MODULE Tunnel -------------------------------
(***************************************************************************)
(* The control plane of a TCP tunnel.  The client process runs             *)
(* mux_connections goroutines per service (client.go, Run); each dials the *)
(* server, upgrades the transport, authenticates for its service and then  *)
(* serves the streams of one yamux session until that ends, sleeps and     *)
(* starts again.  The server (server.go, Run) accepts and upgrades in one  *)
(* loop, authenticates in one goroutine per connection and keeps the       *)
(* sessions in a pool per service, from which visitors are served.         *)
(*                                                                         *)
(* A connection is an identifier, which its peer uses again for a new one  *)
(* when nobody refers to it.  Only the control messages travel in its      *)
(* queues; yamux (external) is the state session[c] of the server's end.   *)
(* A link that is down need not be noticed at once: what was sent may      *)
(* still be read, and what is written is lost with or without an error.    *)
(***************************************************************************)
EXTENDS PoolOps, FiniteSets

CONSTANTS
  Names,          \* service names
  Services,       \* those in the server's [server.services]
  Workers,        \* the client goroutines, of all client processes
  Idlers,         \* peers that connect and are no client: a port check, a probe
  Visitors,
  Conns,          \* connection identifiers
  Owner,          \* the peer that uses an identifier for its connections
  Transports,     \* transport.type, the same on both sides
  WorkerService,  \* the service of each worker
  VisitorService, \* the service whose bind_addr a visitor connects to
  ServerToken,    \* token of each service on the server, "" if not set
  WorkerToken,    \* token of a worker's service on its client, "" if not set
  ServerDefault,  \* default_token of the server, "" if not set
  ClientDefault,  \* default_token of the clients, "" if not set
  MaxDrops,       \* bound on link failures and server crashes
  None

Peers == Workers \cup Idlers

ASSUME TunnelAssumption ==
  /\ Services \subseteq Names
  /\ Transports \subseteq {"tcp", "tls", "noise", "ws"}
  /\ WorkerService \in [Workers -> Names]
  /\ VisitorService \in [Visitors -> Services]
  /\ Workers \cap Idlers = {}
  /\ None \notin Conns \cup Peers \cup Names
  /\ Owner \in [Conns -> Peers]
  /\ MaxDrops \in Nat

VARIABLES
  transport,        \* chosen once, by the configuration
  link,             \* link[c]: "up" or "down"
  toServer,         \* toServer[c], toClient[c]: control messages in flight
  toClient,
  backlog,          \* connections the accept loop has not seen yet
  accepting,        \* the connection the accept loop is upgrading, or None
  hpc,              \* hpc[c]: where the handleClientConn of c is
  hsvc,             \* hsvc[c]: its authenticated service
  session,          \* session[c]: the server's yamux session on c
  pool,             \* pool[s]: tcpPools[s].sessions
  wpc,              \* wpc[w]: where the worker is in its loop
  wconn,            \* wconn[w]: its connection, or None
  vpc,              \* vpc[v]: where the handleVisitor of v is
  vconn,            \* vconn[v]: the session it picked, or None
  drops             \* failures so far

netVars == <<transport, link, toServer, toClient>>
serverVars == <<backlog, accepting, hpc, hsvc, session, pool>>
workerVars == <<wpc, wconn>>
visitorVars == <<vpc, vconn>>
vars == <<transport, link, toServer, toClient, backlog, accepting, hpc,
          hsvc, session, pool, wpc, wconn, vpc, vconn, drops>>

-----------------------------------------------------------------------------
(* Configuration and messages.                                             *)

GetServiceToken(svcToken, defaultToken) ==
  IF svcToken # "" THEN svcToken ELSE defaultToken

(* SHA-256, as a function nobody inverts or makes collide.                 *)
HashToken(token) == [sha256 |-> token]

TokenOnServer(s) == GetServiceToken(ServerToken[s], ServerDefault)
TokenOnClient(w) == GetServiceToken(WorkerToken[w], ClientDefault)

(* The handshake of noise (a public key each way) or of ws (the HTTP       *)
(* request and its 101 answer).                                            *)
Hello == [type |-> "Hello"]
Auth(name, hash) == [type |-> "Auth", service |-> name, hash |-> hash]
AuthResp(success) == [type |-> "AuthResp", success |-> success]
Ping == [type |-> "Ping"]

ToServerMessages ==
  {Hello, Ping} \cup {Auth(WorkerService[w], HashToken(TokenOnClient(w))) : w \in Workers}
ToClientMessages == {Hello} \cup {AuthResp(b) : b \in BOOLEAN}

(* Noise and ws need a handshake of their own after the TCP connection.    *)
Upgrades == transport \in {"noise", "ws"}

(* That of tls is part of the client's dial (a dial that takes longer than *)
(* ten seconds is a link that breaks), and of the handler's first Read.    *)
Handshaken(c) == transport = "tls" => hpc[c] = "auth"

(* A message written to a connection that is down is lost.                 *)
Sent(queue, c, m) ==
  IF link[c] = "up" THEN [queue EXCEPT ![c] = Append(@, m)] ELSE queue

Down(c) == [link EXCEPT ![c] = "down"]

(* Nobody refers to c: the identifier can stand for a new connection.      *)
Free(c) ==
  /\ link[c] = "down"
  /\ c \notin Members(backlog)
  /\ accepting # c
  /\ hpc[c] = "none"
  /\ \A s \in Services : c \notin Members(pool[s])
  /\ \A w \in Workers : wconn[w] # c
  /\ \A v \in Visitors : vconn[v] # c

(* A new TCP connection; hello is what the dialler writes at once.         *)
Connect(c, hello) ==
  /\ Free(c)
  /\ link' = [link EXCEPT ![c] = "up"]
  /\ toServer' = [toServer EXCEPT ![c] = hello]
  /\ toClient' = [toClient EXCEPT ![c] = <<>>]
  /\ session' = [session EXCEPT ![c] = "none"]
  /\ backlog' = Append(backlog, c)
  /\ UNCHANGED <<transport, accepting, hpc, hsvc, pool>>

-----------------------------------------------------------------------------
(* The client.                                                             *)

(* dialWithTransport, up to the first thing it has to wait for.  A dial     *)
(* that fails changes nothing, and neither does time.Sleep(retryInterval): *)
(* the worker dials later.                                                 *)
Dial(w, c) ==
  /\ wpc[w] = "dial"
  /\ Owner[c] = w
  /\ Connect(c, IF transport = "ws" THEN <<Hello>> ELSE <<>>)
  /\ wpc' = [wpc EXCEPT ![w] = IF Upgrades THEN "upgrade" ELSE "auth"]
  /\ wconn' = [wconn EXCEPT ![w] = c]
  /\ UNCHANGED <<vpc, vconn, drops>>

(* The worker takes the next message; answer is what it sends then.        *)
ClientTakes(w, queue) ==
  /\ toClient[wconn[w]] # <<>>
  /\ toClient' = [toClient EXCEPT ![wconn[w]] = Tail(@)]
  /\ toServer' = queue
  /\ UNCHANGED <<transport, link>>

(* NoiseClientUpgrade sends its key after the server's; WSClientUpgrade    *)
(* has sent its request and waits for the answer.                          *)
ClientUpgrade(w) ==
  /\ wpc[w] = "upgrade"
  /\ toClient[wconn[w]] # <<>>
  /\ Head(toClient[wconn[w]]) = Hello
  /\ ClientTakes(w, IF transport = "noise" THEN Sent(toServer, wconn[w], Hello)
                                           ELSE toServer)
  /\ wpc' = [wpc EXCEPT ![w] = "auth"]
  /\ UNCHANGED <<serverVars, wconn, visitorVars, drops>>

(* Mutant: return err, and no conn.Close().                                *)
MutantGivesUp(w) ==
  /\ wpc' = [wpc EXCEPT ![w] = "dial"]
  /\ wconn' = [wconn EXCEPT ![w] = None]
  /\ UNCHANGED <<netVars, serverVars, visitorVars, drops>>

(* The worker closes its connection, returns an error and retries.         *)
ClientGivesUp(w) ==
  /\ link' = Down(wconn[w])
  /\ toClient' = [toClient EXCEPT ![wconn[w]] = <<>>]
  /\ wpc' = [wpc EXCEPT ![w] = "dial"]
  /\ wconn' = [wconn EXCEPT ![w] = None]
  /\ UNCHANGED <<transport, toServer, serverVars, visitorVars, drops>>

(* authenticate without a token for the service says nothing.              *)
NoToken(w) ==
  /\ wpc[w] = "auth"
  /\ Handshaken(wconn[w])
  /\ TokenOnClient(w) = ""
  /\ ClientGivesUp(w)

(* authenticate, up to WriteMessage.                                       *)
Authenticate(w) ==
  /\ wpc[w] = "auth"
  /\ Handshaken(wconn[w])
  /\ TokenOnClient(w) # ""
  /\ toServer' = Sent(toServer, wconn[w],
                      Auth(WorkerService[w], HashToken(TokenOnClient(w))))
  /\ wpc' = [wpc EXCEPT ![w] = "response"]
  /\ UNCHANGED <<transport, link, toClient, serverVars, wconn, visitorVars, drops>>

(* authenticate reads a success; yamux.Client starts.                      *)
Welcome(w) ==
  /\ wpc[w] = "response"
  /\ toClient[wconn[w]] # <<>>
  /\ Head(toClient[wconn[w]]) = AuthResp(TRUE)
  /\ ClientTakes(w, toServer)
  /\ wpc' = [wpc EXCEPT ![w] = "session"]
  /\ UNCHANGED <<serverVars, wconn, visitorVars, drops>>

(* authenticate reads anything else.                                       *)
Rejected(w) ==
  /\ wpc[w] = "response"
  /\ toClient[wconn[w]] # <<>>
  /\ Head(toClient[wconn[w]]) # AuthResp(TRUE)
  /\ ClientGivesUp(w)

(* Mutant: nothing ever ends the wait for the server's answer.             *)
MutantLoses(w) ==
  /\ wpc[w] \in {"upgrade", "auth", "session"}
  /\ link[wconn[w]] = "down"
  /\ ClientGivesUp(w)

(* Whatever the worker reads, writes or waits for fails once the link is   *)
(* down: the upgrade, authenticate, or session.Accept.                     *)
LosesConnection(w) ==
  /\ wpc[w] \in {"upgrade", "auth", "response", "session"}
  /\ link[wconn[w]] = "down"
  /\ ClientGivesUp(w)

-----------------------------------------------------------------------------
(* The accept loop of the server.                                          *)

(* Accept returns and there is nothing to upgrade: go handleClientConn.    *)
Accept ==
  /\ accepting = None
  /\ backlog # <<>>
  /\ ~Upgrades
  /\ backlog' = Tail(backlog)
  /\ hpc' = [hpc EXCEPT ![Head(backlog)] = "auth"]
  /\ UNCHANGED <<netVars, accepting, hsvc, session, pool, workerVars, visitorVars,
                 drops>>

(* Accept returns and applyServerTransport begins, in this very loop.      *)
AcceptAndUpgrade ==
  /\ accepting = None
  /\ backlog # <<>>
  /\ Upgrades
  /\ backlog' = Tail(backlog)
  /\ accepting' = Head(backlog)
  /\ toClient' = IF transport = "noise" THEN Sent(toClient, Head(backlog), Hello)
                                        ELSE toClient
  /\ UNCHANGED <<transport, link, toServer, hpc, hsvc, session, pool, workerVars,
                 visitorVars, drops>>

(* The peer's part of the handshake is there: go handleClientConn.         *)
UpgradeDone ==
  /\ accepting # None
  /\ toServer[accepting] # <<>>
  /\ Head(toServer[accepting]) = Hello
  /\ toServer' = [toServer EXCEPT ![accepting] = Tail(@)]
  /\ toClient' = IF transport = "ws" THEN Sent(toClient, accepting, Hello)
                                     ELSE toClient
  /\ hpc' = [hpc EXCEPT ![accepting] = "auth"]
  /\ accepting' = None
  /\ UNCHANGED <<transport, link, backlog, hsvc, session, pool, workerVars,
                 visitorVars, drops>>

(* The upgrade fails only if the connection does: nothing limits the time  *)
(* that it may take.                                                       *)
UpgradeFails ==
  /\ accepting # None
  /\ link[accepting] = "down"
  /\ toServer' = [toServer EXCEPT ![accepting] = <<>>]
  /\ accepting' = None
  /\ UNCHANGED <<transport, link, toClient, backlog, hpc, hsvc, session,
                 pool, workerVars, visitorVars, drops>>

-----------------------------------------------------------------------------
(* handleClientConn.                                                       *)

(* Mutant: the token of any service will do.                               *)
MutantAccepted(m) ==
  /\ m.service \in Services
  /\ \E s \in Services : m.hash = HashToken(TokenOnServer(s))

(* What the server asks of an Auth message.                                *)
Accepted(m) ==
  /\ m.service \in Services
  /\ TokenOnServer(m.service) # ""
  /\ m.hash = HashToken(TokenOnServer(m.service))

(* The handler closes the connection and returns; queue is toClient with   *)
(* what it may have written before.                                        *)
HandlerCloses(c, queue) ==
  /\ hpc[c] = "auth"
  /\ link' = Down(c)
  /\ toServer' = [toServer EXCEPT ![c] = <<>>]
  /\ toClient' = queue
  /\ hpc' = [hpc EXCEPT ![c] = "none"]
  /\ UNCHANGED <<transport, backlog, accepting, hsvc, session, pool, workerVars,
                 visitorVars, drops>>

(* A message that is no Auth is read, or the read of the message or the    *)
(* write of the answer fails.                                              *)
NoAuth(c) ==
  /\ \/ toServer[c] # <<>> /\ Head(toServer[c]).type # "Auth"
     \/ link[c] = "down"
  /\ HandlerCloses(c, toClient)

(* sendAuthFail.                                                           *)
AuthFails(c) ==
  /\ toServer[c] # <<>>
  /\ Head(toServer[c]).type = "Auth"
  /\ ~Accepted(Head(toServer[c]))
  /\ HandlerCloses(c, Sent(toClient, c, AuthResp(FALSE)))

(* The answer is written and yamux.Server starts a session, which from now *)
(* on may close by itself.                                                 *)
AuthSucceeds(c) ==
  /\ hpc[c] = "auth"
  /\ toServer[c] # <<>>
  /\ Head(toServer[c]).type = "Auth"
  /\ Accepted(Head(toServer[c]))
  /\ toServer' = [toServer EXCEPT ![c] = Tail(@)]
  /\ toClient' = Sent(toClient, c, AuthResp(TRUE))
  /\ hpc' = [hpc EXCEPT ![c] = "add"]
  /\ hsvc' = [hsvc EXCEPT ![c] = Head(toServer[c]).service]
  /\ session' = [session EXCEPT ![c] = "open"]
  /\ UNCHANGED <<transport, link, backlog, accepting, pool, workerVars, visitorVars,
                 drops>>

(* Mutant: the newest session first.                                       *)
MutantAddSession(c) ==
  /\ hpc[c] = "add"
  /\ pool' = [pool EXCEPT ![hsvc[c]] = <<c>> \o @]
  /\ hpc' = [hpc EXCEPT ![c] = "serving"]
  /\ UNCHANGED <<netVars, backlog, accepting, hsvc, session, workerVars, visitorVars,
                 drops>>

(* pool.add(session).                                                      *)
AddSession(c) ==
  /\ hpc[c] = "add"
  /\ pool' = [pool EXCEPT ![hsvc[c]] = Added(@, c)]
  /\ hpc' = [hpc EXCEPT ![c] = "serving"]
  /\ UNCHANGED <<netVars, backlog, accepting, hsvc, session, workerVars, visitorVars,
                 drops>>

(* yamux finds out that the connection is gone: an error of its reader or  *)
(* writer, or a keepalive that is not answered.                            *)
SessionDies(c) ==
  /\ session[c] = "open"
  /\ link[c] = "down"
  /\ session' = [session EXCEPT ![c] = "closed"]
  /\ UNCHANGED <<netVars, backlog, accepting, hpc, hsvc, pool, workerVars, visitorVars,
                 drops>>

(* <-session.CloseChan() returns.  The session stays where it is.          *)
HandlerReturns(c) ==
  /\ hpc[c] = "serving"
  /\ session[c] = "closed"
  /\ hpc' = [hpc EXCEPT ![c] = "none"]
  /\ hsvc' = [hsvc EXCEPT ![c] = None]
  /\ UNCHANGED <<netVars, backlog, accepting, session, pool, workerVars, visitorVars,
                 drops>>

-----------------------------------------------------------------------------
(* Visitors.                                                               *)

(* A visitor connects and acceptVisitors starts its handler.               *)
VisitorArrives(v) ==
  /\ vpc[v] = "away"
  /\ vpc' = [vpc EXCEPT ![v] = "arrived"]
  /\ UNCHANGED <<netVars, serverVars, workerVars, vconn, drops>>

Closed == {c \in Conns : session[c] # "open"}

(* Mutant: any client's session will do.                                   *)
MutantPick(v, k) ==
  \E s \in Services :
    /\ vpc[v] = "arrived"
    /\ FirstLive(pool[s], Closed, k)
    /\ pool' = [pool EXCEPT ![s] = Rotated(@, k)]
    /\ vpc' = [vpc EXCEPT ![v] = "picked"]
    /\ vconn' = [vconn EXCEPT ![v] = pool[s][k]]
    /\ UNCHANGED <<netVars, backlog, accepting, hpc, hsvc, session, workerVars, drops>>

(* pick() returns the session at position k of the service's pool ...      *)
Pick(v, k) ==
  LET p == pool[VisitorService[v]] IN
  /\ vpc[v] = "arrived"
  /\ FirstLive(p, Closed, k)
  /\ pool' = [pool EXCEPT ![VisitorService[v]] = Rotated(p, k)]
  /\ vpc' = [vpc EXCEPT ![v] = "picked"]
  /\ vconn' = [vconn EXCEPT ![v] = p[k]]
  /\ UNCHANGED <<netVars, backlog, accepting, hpc, hsvc, session, workerVars, drops>>

(* Mutant: pick() looks at the head only.                                  *)
MutantPickNone(v) ==
  /\ vpc[v] = "arrived"
  /\ LET p == pool[VisitorService[v]] IN p # <<>> => Head(p) \in Closed
  /\ vpc' = [vpc EXCEPT ![v] = "away"]
  /\ UNCHANGED <<netVars, serverVars, workerVars, vconn, drops>>

(* ... or nil, and the visitor is turned away.                             *)
PickNone(v) ==
  /\ vpc[v] = "arrived"
  /\ NoneLive(pool[VisitorService[v]], Closed)
  /\ pool' = [pool EXCEPT ![VisitorService[v]] = <<>>]
  /\ vpc' = [vpc EXCEPT ![v] = "away"]
  /\ UNCHANGED <<netVars, backlog, accepting, hpc, hsvc, session, workerVars, vconn,
                 drops>>

(* session.Open() returns a stream: the session is open as far as the      *)
(* server knows, whatever the state of the link.                           *)
Open(v) ==
  /\ vpc[v] = "picked"
  /\ session[vconn[v]] = "open"
  /\ vpc' = [vpc EXCEPT ![v] = "relay"]
  /\ UNCHANGED <<netVars, serverVars, workerVars, vconn, drops>>

(* session.Open() fails: the session is closed, and leaves the pool, or    *)
(* its write timed out, and it stays.                                      *)
OpenFails(v) ==
  LET s == VisitorService[v] IN
  /\ vpc[v] = "picked"
  /\ \/ /\ session[vconn[v]] # "open"
        /\ \E q \in {Without(pool[s], i) : i \in 1..Len(pool[s])} \cup {pool[s]} :
             /\ Removed(pool[s], vconn[v], q)
             /\ pool' = [pool EXCEPT ![s] = q]
     \/ /\ session[vconn[v]] = "open"
        /\ link[vconn[v]] = "down"
        /\ pool' = pool
  /\ vpc' = [vpc EXCEPT ![v] = "away"]
  /\ vconn' = [vconn EXCEPT ![v] = None]
  /\ UNCHANGED <<netVars, backlog, accepting, hpc, hsvc, session, workerVars, drops>>

(* The worker's session.Accept returns the stream and handleTCPStream      *)
(* reaches the local service.                                              *)
StreamAccepted(v, w) ==
  /\ vpc[v] = "relay"
  /\ wpc[w] = "session"
  /\ wconn[w] = vconn[v]
  /\ link[vconn[v]] = "up"
  /\ vpc' = [vpc EXCEPT ![v] = "served"]
  /\ UNCHANGED <<netVars, serverVars, workerVars, vconn, drops>>

(* The relay is over: the visitor or the local service is done, or the     *)
(* session is gone (module Relay has the details).                         *)
RelayEnds(v) ==
  /\ vpc[v] \in {"relay", "served"}
  /\ vpc' = [vpc EXCEPT ![v] = "away"]
  /\ vconn' = [vconn EXCEPT ![v] = None]
  /\ UNCHANGED <<netVars, serverVars, workerVars, drops>>

-----------------------------------------------------------------------------
(* The environment.                                                        *)

IdlerConnects(c) ==
  /\ Owner[c] \in Idlers
  /\ Connect(c, <<>>)
  /\ UNCHANGED <<workerVars, visitorVars, drops>>

(* A message that is no Auth.  It is shorter than the key that noise waits *)
(* for, and it is not the line that ws waits for.                          *)
IdlerSpeaks(c) ==
  /\ Owner[c] \in Idlers
  /\ link[c] = "up"
  /\ toServer[c] = <<>>
  /\ toServer' = Sent(toServer, c, Ping)
  /\ UNCHANGED <<transport, link, toClient, serverVars, workerVars,
                 visitorVars, drops>>

IdlerLeaves(c) ==
  /\ Owner[c] \in Idlers
  /\ link[c] = "up"
  /\ link' = Down(c)
  /\ toClient' = [toClient EXCEPT ![c] = <<>>]
  /\ UNCHANGED <<transport, toServer, serverVars, workerVars, visitorVars, drops>>

(* The network breaks a connection.  What is in flight may be lost.  (The  *)
(* end of a client process is the same to everybody.)                      *)
LinkBreaks(c) ==
  /\ link[c] = "up"
  /\ drops < MaxDrops
  /\ drops' = drops + 1
  /\ link' = Down(c)
  /\ UNCHANGED <<transport, toServer, toClient, serverVars, workerVars, visitorVars>>

(* The server process ends and starts again.                               *)
ServerRestarts ==
  /\ drops < MaxDrops
  /\ drops' = drops + 1
  /\ link' = [c \in Conns |-> "down"]
  /\ toServer' = [c \in Conns |-> <<>>]
  /\ backlog' = <<>>
  /\ accepting' = None
  /\ hpc' = [c \in Conns |-> "none"]
  /\ hsvc' = [c \in Conns |-> None]
  /\ session' = [c \in Conns |-> "none"]
  /\ pool' = [s \in Services |-> <<>>]
  /\ vpc' = [v \in Visitors |-> "away"]
  /\ vconn' = [v \in Visitors |-> None]
  /\ UNCHANGED <<transport, toClient, workerVars>>

-----------------------------------------------------------------------------
Init ==
  /\ transport \in Transports
  /\ link = [c \in Conns |-> "down"]
  /\ toServer = [c \in Conns |-> <<>>]
  /\ toClient = [c \in Conns |-> <<>>]
  /\ backlog = <<>>
  /\ accepting = None
  /\ hpc = [c \in Conns |-> "none"]
  /\ hsvc = [c \in Conns |-> None]
  /\ session = [c \in Conns |-> "none"]
  /\ pool = [s \in Services |-> <<>>]
  /\ wpc = [w \in Workers |-> "dial"]
  /\ wconn = [w \in Workers |-> None]
  /\ vpc = [v \in Visitors |-> "away"]
  /\ vconn = [v \in Visitors |-> None]
  /\ drops = 0

WorkerStep(w) ==
  \/ \E c \in Conns : Dial(w, c)
  \/ ClientUpgrade(w)
  \/ NoToken(w)
  \/ Authenticate(w)
  \/ Welcome(w)
  \/ Rejected(w)
  \/ LosesConnection(w)

AcceptLoop == Accept \/ AcceptAndUpgrade \/ UpgradeDone \/ UpgradeFails

HandlerStep(c) ==
  \/ NoAuth(c)
  \/ AuthFails(c)
  \/ AuthSucceeds(c)
  \/ AddSession(c)
  \/ HandlerReturns(c)

VisitorStep(v) ==
  \/ \E k \in 1..Len(pool[VisitorService[v]]) : Pick(v, k)
  \/ PickNone(v)
  \/ Open(v)
  \/ OpenFails(v)
  \/ \E w \in Workers : StreamAccepted(v, w)

Environment ==
  \/ \E v \in Visitors : VisitorArrives(v) \/ RelayEnds(v)
  \/ \E c \in Conns : IdlerConnects(c) \/ IdlerSpeaks(c)
  \/ \E c \in Conns : IdlerLeaves(c) \/ LinkBreaks(c)
  \/ ServerRestarts

Next ==
  \/ \E w \in Workers : WorkerStep(w)
  \/ AcceptLoop
  \/ \E c \in Conns : HandlerStep(c) \/ SessionDies(c)
  \/ \E v \in Visitors : VisitorStep(v)
  \/ Environment

Spec == Init /\ [][Next]_vars

(* Go's scheduler runs every goroutine that can run; a dead connection is  *)
(* noticed, by yamux's keepalive or that of TCP.  Nobody has to connect,   *)
(* speak, leave or fail.                                                   *)
Fairness ==
  /\ \A w \in Workers : WF_vars(WorkerStep(w))
  /\ WF_vars(AcceptLoop)
  /\ \A c \in Conns : WF_vars(HandlerStep(c)) /\ WF_vars(SessionDies(c))
  /\ \A v \in Visitors : WF_vars(VisitorStep(v))

FairSpec == Spec /\ Fairness

-----------------------------------------------------------------------------
TypeOK ==
  /\ transport \in Transports
  /\ link \in [Conns -> {"up", "down"}]
  /\ toServer \in [Conns -> Seq(ToServerMessages)]
  /\ toClient \in [Conns -> Seq(ToClientMessages)]
  /\ backlog \in Seq(Conns)
  /\ accepting \in Conns \cup {None}
  /\ hpc \in [Conns -> {"none", "auth", "add", "serving"}]
  /\ hsvc \in [Conns -> Services \cup {None}]
  /\ session \in [Conns -> {"none", "open", "closed"}]
  /\ pool \in [Services -> Seq(Conns)]
  /\ wpc \in [Workers -> {"dial", "upgrade", "auth", "response", "session"}]
  /\ wconn \in [Workers -> Conns \cup {None}]
  /\ vpc \in [Visitors -> {"away", "arrived", "picked", "relay", "served"}]
  /\ vconn \in [Visitors -> Conns \cup {None}]
  /\ drops \in 0..MaxDrops

(* The client behind c was configured for s with the server's token.       *)
Authenticated(c, s) ==
  /\ Owner[c] \in Workers
  /\ WorkerService[Owner[c]] = s
  /\ TokenOnServer(s) # ""
  /\ TokenOnClient(Owner[c]) = TokenOnServer(s)

(* Every session in a pool was authenticated for that pool's service with  *)
(* that service's token, also after connections broke, identifiers and     *)
(* retries crossed, and the server started anew.                           *)
PoolAuthenticated ==
  \A s \in Services : \A c \in Members(pool[s]) : Authenticated(c, s)

(* A visitor of a service is only ever connected to a client authenticated *)
(* for that service, although it uses a session that it picked earlier.    *)
RightService ==
  \A v \in Visitors :
    vpc[v] \in {"picked", "relay", "served"} =>
      Authenticated(vconn[v], VisitorService[v])

(* The two ends agree and nobody is forgotten: a client that takes itself  *)
(* for authenticated, over a link that works, has an open session that is  *)
(* in the pool of its service or about to be put there, whatever picks,    *)
(* failed opens and reconnections of others did to the pool.               *)
ClientsAreAvailable ==
  \A w \in Workers :
    LET c == wconn[w]
        s == WorkerService[w]
    IN  wpc[w] = "session" /\ link[c] = "up" =>
          /\ session[c] = "open"
          /\ c \in Members(pool[s]) \/ (hpc[c] = "add" /\ hsvc[c] = s)

(* A worker never has two working connections: every error path closes the *)
(* old one before the retry.                                               *)
OneLinkEach ==
  \A c, d \in Conns :
    Owner[c] \in Workers /\ Owner[d] = Owner[c] /\ link[c] = "up" /\ link[d] = "up"
      => c = d

Good(w) ==
  /\ WorkerService[w] \in Services
  /\ TokenOnServer(WorkerService[w]) # ""
  /\ TokenOnClient(w) = TokenOnServer(WorkerService[w])

Serving(w) ==
  /\ wpc[w] = "session"
  /\ link[wconn[w]] = "up"
  /\ session[wconn[w]] = "open"
  /\ wconn[w] \in Members(pool[WorkerService[w]])

(* "Auto reconnect" (README.md:22): once failures stop, every worker with  *)
(* the right token is in its pool for good, whatever happened before.      *)
Reconnects == \A w \in Workers : Good(w) => <>[]Serving(w)

(* ... and its visitors are turned away no more: no dead session is left   *)
(* for them to pick.                                                       *)
VisitorsGetThrough ==
  \A v \in Visitors :
    (\E w \in Workers : Good(w) /\ WorkerService[w] = VisitorService[v]) =>
      <>[][vpc[v] \in {"arrived", "picked"} => vpc'[v] # "away"]_vars
=============================================================================
