---------------------------- MODULE TunnelProofs ----------------------------
(***************************************************************************)
(* Proofs about Tunnel, for any services, tokens, numbers of workers,      *)
(* visitors, connections and failures, and any mixture of transports.      *)
(***************************************************************************)
EXTENDS Tunnel, PoolOpsProofs

USE TunnelAssumption

-----------------------------------------------------------------------------
(* Messages.                                                               *)

LEMMA MessageTypes ==
  /\ Hello \in ToServerMessages /\ Ping \in ToServerMessages
  /\ \A w \in Workers :
       Auth(WorkerService[w], HashToken(TokenOnClient(w))) \in ToServerMessages
  /\ Hello \in ToClientMessages
  /\ \A b \in BOOLEAN : AuthResp(b) \in ToClientMessages
BY DEF ToServerMessages, ToClientMessages

LEMMA SentType ==
  ASSUME NEW M, NEW queue \in [Conns -> Seq(M)], NEW c \in Conns, NEW m \in M
  PROVE  Sent(queue, c, m) \in [Conns -> Seq(M)]
<1>1. Append(queue[c], m) \in Seq(M)
  BY AppendProperties
<1> QED
  BY <1>1 DEF Sent

LEMMA TailType ==
  ASSUME NEW M, NEW queue \in [Conns -> Seq(M)], NEW c \in Conns, queue[c] # <<>>
  PROVE  /\ [queue EXCEPT ![c] = Tail(@)] \in [Conns -> Seq(M)]
         /\ Head(queue[c]) \in M
<1>1. Tail(queue[c]) \in Seq(M) /\ Head(queue[c]) \in M
  BY HeadTailProperties
<1> QED
  BY <1>1

-----------------------------------------------------------------------------
(* Types.                                                                  *)

LEMMA TypeInit == Init => TypeOK
BY EmptySeq DEF Init, TypeOK

(* A worker that is not about to dial has a connection, one of its own.    *)
OwnConnection ==
  \A w \in Workers :
    /\ wpc[w] # "dial" => wconn[w] \in Conns
    /\ wconn[w] \in Conns => Owner[wconn[w]] = w

(* A handler past the authentication knows the service, and a handler of   *)
(* a visitor past pick() has a session.                                    *)
HandlersHaveService ==
  \A c \in Conns : hpc[c] \in {"add", "serving"} => hsvc[c] \in Services

VisitorsHaveSession ==
  \A v \in Visitors : vpc[v] \in {"picked", "relay", "served"} => vconn[v] \in Conns

TInv == TypeOK /\ OwnConnection /\ HandlersHaveService /\ VisitorsHaveSession

LEMMA ConnectType ==
  ASSUME TypeOK, NEW c \in Conns, NEW hello \in Seq(ToServerMessages), Connect(c, hello)
  PROVE  /\ transport' = transport
         /\ link' \in [Conns -> {"up", "down"}]
         /\ toServer' \in [Conns -> Seq(ToServerMessages)]
         /\ toClient' \in [Conns -> Seq(ToClientMessages)]
         /\ session' \in [Conns -> {"none", "open", "closed"}]
         /\ backlog' \in Seq(Conns)
BY AppendProperties, EmptySeq DEF TypeOK, Connect

LEMMA GivesUpType ==
  ASSUME TInv, NEW w \in Workers, wpc[w] # "dial", ClientGivesUp(w)
  PROVE  TInv'
<1> USE DEF TInv, TypeOK, ClientGivesUp, Down, serverVars, visitorVars
<1>1. wconn[w] \in Conns
  BY DEF OwnConnection
<1>2. TypeOK'
  BY <1>1, EmptySeq
<1>3. OwnConnection'
  BY <1>1 DEF OwnConnection
<1>4. HandlersHaveService' /\ VisitorsHaveSession'
  BY DEF HandlersHaveService, VisitorsHaveSession
<1> QED
  BY <1>2, <1>3, <1>4

LEMMA WorkerType ==
  ASSUME TInv, NEW w \in Workers, WorkerStep(w)
  PROVE  TInv'
<1> USE DEF TInv, netVars, serverVars, workerVars, visitorVars
<1>1. ASSUME NEW c \in Conns, Dial(w, c) PROVE TInv'
  <2>1. (IF transport = "ws" THEN <<Hello>> ELSE <<>>) \in Seq(ToServerMessages)
    BY MessageTypes, EmptySeq
  <2>2. TypeOK'
    BY <1>1, <2>1, ConnectType DEF Dial, Connect, TypeOK
  <2>3. OwnConnection'
    BY <1>1 DEF Dial, Connect, OwnConnection, TypeOK
  <2>4. HandlersHaveService' /\ VisitorsHaveSession'
    BY <1>1 DEF Dial, Connect, HandlersHaveService, VisitorsHaveSession
  <2> QED
    BY <2>2, <2>3, <2>4
<1>2. CASE ClientUpgrade(w)
  <2>1. wconn[w] \in Conns
    BY <1>2 DEF OwnConnection, ClientUpgrade
  <2>2. /\ toClient' \in [Conns -> Seq(ToClientMessages)]
        /\ toServer' \in [Conns -> Seq(ToServerMessages)]
    BY <1>2, <2>1, MessageTypes, SentType, TailType DEF TypeOK, ClientUpgrade, ClientTakes
  <2>3. TypeOK'
    BY <1>2, <2>2 DEF TypeOK, ClientUpgrade, ClientTakes
  <2>4. (OwnConnection /\ HandlersHaveService /\ VisitorsHaveSession)'
    BY <1>2 DEF ClientUpgrade, OwnConnection, TypeOK, HandlersHaveService, VisitorsHaveSession
  <2> QED
    BY <2>3, <2>4
<1>3. CASE NoToken(w)
  BY <1>3, GivesUpType DEF NoToken
<1>4. CASE Authenticate(w)
  <2>1. wconn[w] \in Conns
    BY <1>4 DEF OwnConnection, Authenticate
  <2>2. toServer' \in [Conns -> Seq(ToServerMessages)]
    BY <1>4, <2>1, MessageTypes, SentType DEF TypeOK, Authenticate
  <2>3. TypeOK'
    BY <1>4, <2>2 DEF TypeOK, Authenticate
  <2>4. /\ wpc' = [wpc EXCEPT ![w] = "response"]
        /\ UNCHANGED <<serverVars, wconn, visitorVars>>
    BY <1>4 DEF Authenticate
  <2>5. (OwnConnection /\ HandlersHaveService /\ VisitorsHaveSession)'
    BY <2>1, <2>4 DEF OwnConnection, TypeOK, HandlersHaveService, VisitorsHaveSession
  <2> QED
    BY <2>3, <2>5
<1>5. CASE Welcome(w)
  <2>1. wconn[w] \in Conns
    BY <1>5 DEF OwnConnection, Welcome
  <2>2. toClient' \in [Conns -> Seq(ToClientMessages)]
    BY <1>5, <2>1, TailType DEF TypeOK, Welcome, ClientTakes
  <2>3. TypeOK'
    BY <1>5, <2>2 DEF TypeOK, Welcome, ClientTakes
  <2>4. (OwnConnection /\ HandlersHaveService /\ VisitorsHaveSession)'
    BY <1>5 DEF Welcome, ClientTakes, OwnConnection, TypeOK, HandlersHaveService,
                VisitorsHaveSession
  <2> QED
    BY <2>3, <2>4
<1>6. CASE Rejected(w)
  BY <1>6, GivesUpType DEF Rejected
<1>7. CASE LosesConnection(w)
  BY <1>7, GivesUpType DEF LosesConnection
<1> QED
  BY <1>1, <1>2, <1>3, <1>4, <1>5, <1>6, <1>7 DEF WorkerStep

LEMMA AcceptLoopType ==
  ASSUME TInv, AcceptLoop
  PROVE  TInv'
<1> USE DEF TInv, netVars, serverVars, workerVars, visitorVars
<1>1. ASSUME backlog # <<>>
      PROVE  Head(backlog) \in Conns /\ Tail(backlog) \in Seq(Conns)
  BY <1>1, HeadTailProperties DEF TypeOK
<1>2. CASE Accept
  <2>1. TypeOK'
    BY <1>1, <1>2 DEF TypeOK, Accept
  <2>2. (OwnConnection /\ HandlersHaveService /\ VisitorsHaveSession)'
    BY <1>2 DEF TypeOK, Accept, OwnConnection, HandlersHaveService, VisitorsHaveSession
  <2> QED
    BY <2>1, <2>2
<1>3. CASE AcceptAndUpgrade
  <2>1. toClient' \in [Conns -> Seq(ToClientMessages)]
    BY <1>1, <1>3, MessageTypes, SentType DEF TypeOK, AcceptAndUpgrade
  <2>2. TypeOK'
    BY <1>1, <1>3, <2>1 DEF TypeOK, AcceptAndUpgrade
  <2>3. (OwnConnection /\ HandlersHaveService /\ VisitorsHaveSession)'
    BY <1>3 DEF AcceptAndUpgrade, OwnConnection, HandlersHaveService, VisitorsHaveSession
  <2> QED
    BY <2>2, <2>3
<1>4. CASE UpgradeDone
  <2>1. accepting \in Conns
    BY <1>4 DEF UpgradeDone, TypeOK
  <2>2. /\ toServer' \in [Conns -> Seq(ToServerMessages)]
        /\ toClient' \in [Conns -> Seq(ToClientMessages)]
    BY <1>4, <2>1, MessageTypes, SentType, TailType DEF TypeOK, UpgradeDone
  <2>3. TypeOK'
    BY <1>4, <2>1, <2>2 DEF TypeOK, UpgradeDone
  <2>4. (OwnConnection /\ HandlersHaveService /\ VisitorsHaveSession)'
    BY <1>4, <2>1 DEF UpgradeDone, TypeOK, OwnConnection, HandlersHaveService,
                      VisitorsHaveSession
  <2> QED
    BY <2>3, <2>4
<1>5. CASE UpgradeFails
  <2>1. TypeOK'
    BY <1>5, EmptySeq DEF TypeOK, UpgradeFails
  <2>2. (OwnConnection /\ HandlersHaveService /\ VisitorsHaveSession)'
    BY <1>5 DEF UpgradeFails, OwnConnection, HandlersHaveService, VisitorsHaveSession
  <2> QED
    BY <2>1, <2>2
<1> QED
  BY <1>2, <1>3, <1>4, <1>5 DEF AcceptLoop

LEMMA HandlerClosesType ==
  ASSUME TInv, NEW c \in Conns, NEW queue \in [Conns -> Seq(ToClientMessages)],
         HandlerCloses(c, queue)
  PROVE  TInv'
<1> USE DEF TInv, HandlerCloses, Down, workerVars, visitorVars
<1>1. TypeOK'
  BY EmptySeq DEF TypeOK
<1>2. (OwnConnection /\ HandlersHaveService /\ VisitorsHaveSession)'
  BY DEF TypeOK, OwnConnection, HandlersHaveService, VisitorsHaveSession
<1> QED
  BY <1>1, <1>2

LEMMA HandlerType ==
  ASSUME TInv, NEW c \in Conns, HandlerStep(c) \/ SessionDies(c)
  PROVE  TInv'
<1> USE DEF TInv, netVars, serverVars, workerVars, visitorVars
<1>1. CASE NoAuth(c)
  BY <1>1, HandlerClosesType DEF NoAuth, TypeOK
<1>2. CASE AuthFails(c)
  <2>1. Sent(toClient, c, AuthResp(FALSE)) \in [Conns -> Seq(ToClientMessages)]
    BY MessageTypes, SentType DEF TypeOK
  <2> QED
    BY <1>2, <2>1, HandlerClosesType DEF AuthFails
<1>3. CASE AuthSucceeds(c)
  <2>1. /\ toServer' \in [Conns -> Seq(ToServerMessages)]
        /\ toClient' \in [Conns -> Seq(ToClientMessages)]
    BY <1>3, MessageTypes, SentType, TailType DEF TypeOK, AuthSucceeds
  <2>2. Head(toServer[c]).service \in Services
    BY <1>3 DEF AuthSucceeds, Accepted
  <2>3. TypeOK'
    BY <1>3, <2>1, <2>2 DEF TypeOK, AuthSucceeds
  <2>4. (OwnConnection /\ HandlersHaveService /\ VisitorsHaveSession)'
    BY <1>3, <2>2 DEF TypeOK, AuthSucceeds, OwnConnection, HandlersHaveService,
                      VisitorsHaveSession
  <2> QED
    BY <2>3, <2>4
<1>4. CASE AddSession(c)
  <2>1. hsvc[c] \in Services
    BY <1>4 DEF AddSession, HandlersHaveService
  <2>2. Added(pool[hsvc[c]], c) \in Seq(Conns)
    BY <2>1, AddedProperties DEF TypeOK
  <2>3. TypeOK'
    BY <1>4, <2>1, <2>2 DEF TypeOK, AddSession
  <2>4. (OwnConnection /\ HandlersHaveService /\ VisitorsHaveSession)'
    BY <1>4, <2>1 DEF TypeOK, AddSession, OwnConnection, HandlersHaveService,
                      VisitorsHaveSession
  <2> QED
    BY <2>3, <2>4
<1>5. CASE HandlerReturns(c)
  <2>1. TypeOK'
    BY <1>5 DEF TypeOK, HandlerReturns
  <2>2. (OwnConnection /\ HandlersHaveService /\ VisitorsHaveSession)'
    BY <1>5 DEF TypeOK, HandlerReturns, OwnConnection, HandlersHaveService,
                VisitorsHaveSession
  <2> QED
    BY <2>1, <2>2
<1>6. CASE SessionDies(c)
  <2>1. TypeOK'
    BY <1>6 DEF TypeOK, SessionDies
  <2>2. (OwnConnection /\ HandlersHaveService /\ VisitorsHaveSession)'
    BY <1>6 DEF SessionDies, OwnConnection, HandlersHaveService, VisitorsHaveSession
  <2> QED
    BY <2>1, <2>2
<1> QED
  BY <1>1, <1>2, <1>3, <1>4, <1>5, <1>6 DEF HandlerStep

LEMMA VisitorType ==
  ASSUME TInv, NEW v \in Visitors, VisitorStep(v) \/ VisitorArrives(v) \/ RelayEnds(v)
  PROVE  TInv'
<1> USE DEF TInv, netVars, serverVars, workerVars, visitorVars
<1> DEFINE s == VisitorService[v]
           p == pool[s]
<1>0. /\ s \in Services
      /\ p \in Seq(Conns)
      /\ \A k \in 1..Len(p) : p[k] \in Conns
  BY ElementOfSeq DEF TypeOK
<1>1. ASSUME NEW k \in 1..Len(p), Pick(v, k) PROVE TInv'
  <2>1. Rotated(p, k) \in Seq(Conns)
    BY <1>0, RotatedProperties
  <2>2. TypeOK'
    BY <1>0, <1>1, <2>1 DEF TypeOK, Pick
  <2>3. (OwnConnection /\ HandlersHaveService /\ VisitorsHaveSession)'
    BY <1>0, <1>1 DEF TypeOK, Pick, OwnConnection, HandlersHaveService, VisitorsHaveSession
  <2> QED
    BY <2>2, <2>3
<1>2. CASE PickNone(v)
  <2>1. TypeOK'
    BY <1>2, EmptySeq DEF TypeOK, PickNone
  <2>2. (OwnConnection /\ HandlersHaveService /\ VisitorsHaveSession)'
    BY <1>2 DEF TypeOK, PickNone, OwnConnection, HandlersHaveService, VisitorsHaveSession
  <2> QED
    BY <2>1, <2>2
<1>3. CASE Open(v)
  <2>1. TypeOK'
    BY <1>3 DEF TypeOK, Open
  <2>2. (OwnConnection /\ HandlersHaveService /\ VisitorsHaveSession)'
    BY <1>3 DEF TypeOK, Open, OwnConnection, HandlersHaveService, VisitorsHaveSession
  <2> QED
    BY <2>1, <2>2
<1>4. CASE OpenFails(v)
  <2>1. pool' \in [Services -> Seq(Conns)]
    <3>1. CASE pool' = pool
      BY <3>1 DEF TypeOK
    <3>2. ASSUME NEW q \in {Without(p, i) : i \in 1..Len(p)} \cup {p},
                 Removed(p, vconn[v], q), pool' = [pool EXCEPT ![s] = q]
          PROVE  pool' \in [Services -> Seq(Conns)]
      <4>1. q \in Seq(Conns)
        BY <1>0, <3>2, RemovedProperties
      <4> QED
        BY <3>2, <4>1 DEF TypeOK
    <3> QED
      BY <1>4, <3>1, <3>2 DEF OpenFails
  <2>2. TypeOK'
    BY <1>4, <2>1 DEF TypeOK, OpenFails
  <2>3. (OwnConnection /\ HandlersHaveService /\ VisitorsHaveSession)'
    BY <1>4 DEF TypeOK, OpenFails, OwnConnection, HandlersHaveService, VisitorsHaveSession
  <2> QED
    BY <2>2, <2>3
<1>5. ASSUME NEW w \in Workers, StreamAccepted(v, w) PROVE TInv'
  <2>1. TypeOK'
    BY <1>5 DEF TypeOK, StreamAccepted
  <2>2. (OwnConnection /\ HandlersHaveService /\ VisitorsHaveSession)'
    BY <1>5 DEF TypeOK, StreamAccepted, OwnConnection, HandlersHaveService,
                VisitorsHaveSession
  <2> QED
    BY <2>1, <2>2
<1>6. CASE VisitorArrives(v)
  <2>1. TypeOK'
    BY <1>6 DEF TypeOK, VisitorArrives
  <2>2. (OwnConnection /\ HandlersHaveService /\ VisitorsHaveSession)'
    BY <1>6 DEF TypeOK, VisitorArrives, OwnConnection, HandlersHaveService,
                VisitorsHaveSession
  <2> QED
    BY <2>1, <2>2
<1>7. CASE RelayEnds(v)
  <2>1. TypeOK'
    BY <1>7 DEF TypeOK, RelayEnds
  <2>2. (OwnConnection /\ HandlersHaveService /\ VisitorsHaveSession)'
    BY <1>7 DEF TypeOK, RelayEnds, OwnConnection, HandlersHaveService, VisitorsHaveSession
  <2> QED
    BY <2>1, <2>2
<1> QED
  BY <1>1, <1>2, <1>3, <1>4, <1>5, <1>6, <1>7 DEF VisitorStep

LEMMA OutsideType ==
  ASSUME TInv,
         \/ \E c \in Conns : \/ IdlerConnects(c) \/ IdlerSpeaks(c)
                             \/ IdlerLeaves(c) \/ LinkBreaks(c)
         \/ ServerRestarts
  PROVE  TInv'
<1> USE DEF TInv, Down, netVars, serverVars, workerVars, visitorVars
<1>1. ASSUME NEW c \in Conns, IdlerConnects(c) PROVE TInv'
  <2>1. TypeOK'
    BY <1>1, ConnectType, EmptySeq DEF TypeOK, IdlerConnects, Connect
  <2>2. (OwnConnection /\ HandlersHaveService /\ VisitorsHaveSession)'
    BY <1>1 DEF IdlerConnects, Connect, OwnConnection, HandlersHaveService,
                VisitorsHaveSession
  <2> QED
    BY <2>1, <2>2
<1>2. ASSUME NEW c \in Conns, IdlerSpeaks(c) PROVE TInv'
  <2>1. toServer' \in [Conns -> Seq(ToServerMessages)]
    <3>1. toServer \in [Conns -> Seq(ToServerMessages)] /\ toServer' = Sent(toServer, c, Ping)
      BY <1>2 DEF TypeOK, IdlerSpeaks
    <3> QED
      BY <3>1, MessageTypes, SentType
  <2>2. TypeOK'
    BY <1>2, <2>1 DEF TypeOK, IdlerSpeaks
  <2>3. (OwnConnection /\ HandlersHaveService /\ VisitorsHaveSession)'
    BY <1>2 DEF IdlerSpeaks, OwnConnection, HandlersHaveService, VisitorsHaveSession
  <2> QED
    BY <2>2, <2>3
<1>3. ASSUME NEW c \in Conns, IdlerLeaves(c) \/ LinkBreaks(c) PROVE TInv'
  <2>1. /\ link' \in [Conns -> {"up", "down"}]
        /\ toClient' \in [Conns -> Seq(ToClientMessages)]
        /\ drops' \in 0..MaxDrops
    <3>1. CASE IdlerLeaves(c)
      BY <3>1, EmptySeq DEF TypeOK, IdlerLeaves
    <3>2. CASE LinkBreaks(c)
      BY <3>2 DEF TypeOK, LinkBreaks
    <3> QED
      BY <1>3, <3>1, <3>2
  <2>2. TypeOK'
    BY <1>3, <2>1 DEF TypeOK, IdlerLeaves, LinkBreaks
  <2>3. (OwnConnection /\ HandlersHaveService /\ VisitorsHaveSession)'
    BY <1>3 DEF IdlerLeaves, LinkBreaks, OwnConnection, HandlersHaveService,
                VisitorsHaveSession
  <2> QED
    BY <2>2, <2>3
<1>4. CASE ServerRestarts
  <2>1. TypeOK'
    BY <1>4, EmptySeq DEF TypeOK, ServerRestarts
  <2>2. (OwnConnection /\ HandlersHaveService /\ VisitorsHaveSession)'
    BY <1>4 DEF ServerRestarts, OwnConnection, HandlersHaveService, VisitorsHaveSession
  <2> QED
    BY <2>1, <2>2
<1> QED
  BY <1>1, <1>2, <1>3, <1>4

LEMMA TInvStep == TInv /\ [Next]_vars => TInv'
<1> SUFFICES ASSUME TInv, [Next]_vars PROVE TInv'
  OBVIOUS
<1>1. CASE UNCHANGED vars
  BY <1>1 DEF vars, TInv, TypeOK, OwnConnection, HandlersHaveService, VisitorsHaveSession
<1>2. CASE Next
  BY <1>2, WorkerType, AcceptLoopType, HandlerType, VisitorType, OutsideType
     DEF Next, Environment
<1> QED
  BY <1>1, <1>2

LEMMA TInvAlways == Spec => []TInv
<1>1. Init => TInv
  BY TypeInit DEF Init, TInv, OwnConnection, HandlersHaveService, VisitorsHaveSession
<1> QED
  BY <1>1, TInvStep, PTL DEF Spec

(* Every variable keeps its type, whatever the configuration.              *)
THEOREM TypeCorrect == Spec => []TypeOK
BY TInvAlways, PTL DEF TInv

-----------------------------------------------------------------------------
(* No session reaches a pool, and no visitor a client, without the         *)
(* credentials of the service.  The argument follows the credentials: what *)
(* is in flight on a connection was sent by its owner (Credentials), a     *)
(* handler past the authentication has seen the owner's token              *)
(* (HandlersAuthenticated), it alone adds to pools (PoolAuthenticated), and *)
(* from there a session goes to a visitor, who may hold it after it has    *)
(* left the pool (RightService).  The four are inductive together.         *)

(* What the owner of c can have written.                                   *)
OwnMessages(c) ==
  {Hello, Ping} \cup
  {Auth(WorkerService[w], HashToken(TokenOnClient(w))) : w \in Workers \cap {Owner[c]}}

Credentials == \A c \in Conns : toServer[c] \in Seq(OwnMessages(c))

HandlersAuthenticated ==
  \A c \in Conns : hpc[c] \in {"add", "serving"} => Authenticated(c, hsvc[c])

AInv ==
  /\ TInv
  /\ Credentials
  /\ HandlersAuthenticated
  /\ PoolAuthenticated
  /\ RightService

-----------------------------------------------------------------------------
(* The messages in flight.                                                 *)

LEMMA OwnMessagesAre ==
  ASSUME NEW c \in Conns
  PROVE  /\ Hello \in OwnMessages(c)
         /\ Ping \in OwnMessages(c)
         /\ Owner[c] \in Workers =>
              Auth(WorkerService[Owner[c]], HashToken(TokenOnClient(Owner[c])))
                \in OwnMessages(c)
BY DEF OwnMessages

(* One queue is extended, shortened or emptied.                            *)
LEMMA CredentialsKept ==
  ASSUME TypeOK, Credentials, NEW c \in Conns, NEW q \in Seq(OwnMessages(c)),
         toServer' = [toServer EXCEPT ![c] = q]
  PROVE  Credentials'
<1> SUFFICES ASSUME NEW d \in Conns PROVE toServer'[d] \in Seq(OwnMessages(d))
  BY DEF Credentials, OwnMessages, HashToken, TokenOnClient, GetServiceToken, Auth,
         Hello, Ping
<1> QED
  BY DEF Credentials, TypeOK

LEMMA CredentialsSent ==
  ASSUME TypeOK, Credentials, NEW c \in Conns, NEW m \in OwnMessages(c),
         toServer' = Sent(toServer, c, m)
  PROVE  Credentials'
<1>1. CASE link[c] = "up"
  <2>1. Append(toServer[c], m) \in Seq(OwnMessages(c))
    BY AppendProperties DEF Credentials
  <2> QED
    BY <1>1, <2>1, CredentialsKept DEF Sent
<1>2. CASE link[c] # "up"
  BY <1>2 DEF Sent, Credentials, OwnMessages
<1> QED
  BY <1>1, <1>2

LEMMA CredentialsTaken ==
  ASSUME TypeOK, Credentials, NEW c \in Conns, toServer[c] # <<>>,
         toServer' = [toServer EXCEPT ![c] = Tail(@)]
  PROVE  Credentials'
<1>1. Tail(toServer[c]) \in Seq(OwnMessages(c))
  BY HeadTailProperties DEF Credentials
<1>2. toServer' = [toServer EXCEPT ![c] = Tail(toServer[c])]
  BY DEF TypeOK
<1> QED
  BY <1>1, <1>2, CredentialsKept

LEMMA CredentialsCleared ==
  ASSUME TypeOK, Credentials, NEW c \in Conns, toServer' = [toServer EXCEPT ![c] = <<>>]
  PROVE  Credentials'
BY CredentialsKept, EmptySeq

LEMMA CredentialsStep ==
  ASSUME TInv, Credentials, Next
  PROVE  Credentials'
<1> USE DEF TInv, netVars, serverVars, workerVars, visitorVars
<1>0. ASSUME UNCHANGED toServer PROVE Credentials'
  BY <1>0 DEF Credentials, OwnMessages
<1>1. ASSUME NEW w \in Workers, NEW c \in Conns, Dial(w, c) PROVE Credentials'
  <2>1. (IF transport = "ws" THEN <<Hello>> ELSE <<>>) \in Seq(OwnMessages(c))
    BY OwnMessagesAre, EmptySeq
  <2> QED
    BY <1>1, <2>1, CredentialsKept DEF Dial, Connect
<1>2. ASSUME NEW w \in Workers, ClientUpgrade(w) PROVE Credentials'
  <2>1. wconn[w] \in Conns
    BY <1>2 DEF OwnConnection, ClientUpgrade
  <2>2. toServer' = Sent(toServer, wconn[w], Hello) \/ toServer' = toServer
    BY <1>2 DEF ClientUpgrade, ClientTakes
  <2> QED
    BY <1>0, <2>1, <2>2, CredentialsSent, OwnMessagesAre
<1>3. ASSUME NEW w \in Workers, Authenticate(w) PROVE Credentials'
  <2>1. wconn[w] \in Conns /\ Owner[wconn[w]] = w
    BY <1>3 DEF OwnConnection, Authenticate
  <2>2. Auth(WorkerService[w], HashToken(TokenOnClient(w))) \in OwnMessages(wconn[w])
    BY <2>1, OwnMessagesAre
  <2>3. toServer' = Sent(toServer, wconn[w],
                         Auth(WorkerService[w], HashToken(TokenOnClient(w))))
    BY <1>3 DEF Authenticate
  <2> QED
    BY <2>1, <2>2, <2>3, CredentialsSent
<1>4. ASSUME NEW w \in Workers,
             NoToken(w) \/ Welcome(w) \/ Rejected(w) \/ LosesConnection(w)
      PROVE  Credentials'
  BY <1>0, <1>4 DEF NoToken, Welcome, Rejected, LosesConnection, ClientGivesUp, ClientTakes
<1>5. CASE AcceptLoop
  <2>1. CASE Accept \/ AcceptAndUpgrade
    BY <1>0, <2>1 DEF Accept, AcceptAndUpgrade
  <2>2. CASE UpgradeDone
    BY <2>2, CredentialsTaken DEF UpgradeDone, TypeOK
  <2>3. CASE UpgradeFails
    BY <2>3, CredentialsCleared DEF UpgradeFails, TypeOK
  <2> QED
    BY <1>5, <2>1, <2>2, <2>3 DEF AcceptLoop
<1>6. ASSUME NEW c \in Conns, HandlerStep(c) \/ SessionDies(c) PROVE Credentials'
  <2>1. CASE NoAuth(c) \/ AuthFails(c)
    BY <2>1, CredentialsCleared DEF NoAuth, AuthFails, HandlerCloses
  <2>2. CASE AuthSucceeds(c)
    BY <2>2, CredentialsTaken DEF AuthSucceeds
  <2>3. CASE AddSession(c) \/ HandlerReturns(c) \/ SessionDies(c)
    BY <1>0, <2>3 DEF AddSession, HandlerReturns, SessionDies
  <2> QED
    BY <1>6, <2>1, <2>2, <2>3 DEF HandlerStep
<1>7. ASSUME NEW v \in Visitors, VisitorStep(v) \/ VisitorArrives(v) \/ RelayEnds(v)
      PROVE  Credentials'
  BY <1>0, <1>7 DEF VisitorStep, VisitorArrives, RelayEnds, Pick, PickNone, Open, OpenFails,
                    StreamAccepted
<1>8. ASSUME NEW c \in Conns, IdlerConnects(c) PROVE Credentials'
  BY <1>8, CredentialsCleared DEF IdlerConnects, Connect
<1>9. ASSUME NEW c \in Conns, IdlerSpeaks(c) PROVE Credentials'
  <2>1. toServer' = Sent(toServer, c, Ping)
    BY <1>9 DEF IdlerSpeaks
  <2> QED
    BY <2>1, CredentialsSent, OwnMessagesAre
<1>10. ASSUME NEW c \in Conns, IdlerLeaves(c) \/ LinkBreaks(c) PROVE Credentials'
  BY <1>0, <1>10 DEF IdlerLeaves, LinkBreaks
<1>11. CASE ServerRestarts
  BY <1>11, EmptySeq DEF ServerRestarts, Credentials
<1> QED
  BY <1>1, <1>2, <1>3, <1>4, <1>5, <1>6, <1>7, <1>8, <1>9, <1>10, <1>11
     DEF Next, WorkerStep, Environment

-----------------------------------------------------------------------------
(* The handlers.                                                           *)

(* An accepted Auth proves what its sender was configured with.            *)
LEMMA AcceptedAuthenticates ==
  ASSUME TypeOK, Credentials, NEW c \in Conns, toServer[c] # <<>>,
         Head(toServer[c]).type = "Auth", Accepted(Head(toServer[c]))
  PROVE  Authenticated(c, Head(toServer[c]).service)
<1> DEFINE m == Head(toServer[c])
<1>1. m \in OwnMessages(c)
  BY HeadTailProperties DEF Credentials
<1>2. m # Hello /\ m # Ping
  BY DEF Hello, Ping
<1>3. /\ Owner[c] \in Workers
      /\ m = Auth(WorkerService[Owner[c]], HashToken(TokenOnClient(Owner[c])))
  BY <1>1, <1>2 DEF OwnMessages
<1>4. /\ m.service = WorkerService[Owner[c]]
      /\ m.hash = HashToken(TokenOnClient(Owner[c]))
  BY <1>3 DEF Auth
<1>5. TokenOnServer(m.service) # "" /\ m.hash = HashToken(TokenOnServer(m.service))
  BY DEF Accepted
<1>6. TokenOnClient(Owner[c]) = TokenOnServer(m.service)
  <2>1. HashToken(TokenOnClient(Owner[c])).sha256 = HashToken(TokenOnServer(m.service)).sha256
    BY <1>4, <1>5
  <2> QED
    BY <2>1 DEF HashToken
<1> QED
  BY <1>3, <1>4, <1>5, <1>6 DEF Authenticated

(* One handler moves; past the authentication it must have authenticated.  *)
LEMMA HandlerMoves ==
  ASSUME TypeOK, HandlersAuthenticated, NEW c \in Conns, NEW p,
         hpc' = [hpc EXCEPT ![c] = p],
         \A d \in Conns \ {c} : hsvc'[d] = hsvc[d],
         p \in {"add", "serving"} => Authenticated(c, hsvc'[c])
  PROVE  HandlersAuthenticated'
<1> SUFFICES ASSUME NEW d \in Conns, hpc'[d] \in {"add", "serving"}
             PROVE  Authenticated(d, hsvc'[d])
  BY DEF HandlersAuthenticated, Authenticated, TokenOnServer, TokenOnClient, GetServiceToken
<1>1. CASE d = c
  BY <1>1 DEF TypeOK
<1>2. CASE d # c
  <2>1. hpc'[d] = hpc[d] /\ hsvc'[d] = hsvc[d]
    BY <1>2 DEF TypeOK
  <2> QED
    BY <2>1 DEF HandlersAuthenticated
<1> QED
  BY <1>1, <1>2

LEMMA HandlersStep ==
  ASSUME AInv, Next
  PROVE  HandlersAuthenticated'
<1> USE DEF AInv, TInv, netVars, serverVars, workerVars, visitorVars
<1>0. ASSUME UNCHANGED <<hpc, hsvc>> PROVE HandlersAuthenticated'
  BY <1>0 DEF HandlersAuthenticated, Authenticated, TokenOnServer, TokenOnClient,
              GetServiceToken
<1>1. ASSUME NEW c \in Conns,
             hpc' = [hpc EXCEPT ![c] = "auth"] \/ hpc' = [hpc EXCEPT ![c] = "none"],
             \A d \in Conns \ {c} : hsvc'[d] = hsvc[d]
      PROVE  HandlersAuthenticated'
  BY <1>1, HandlerMoves
<1>2. ASSUME NEW w \in Workers, WorkerStep(w) PROVE HandlersAuthenticated'
  BY <1>0, <1>2 DEF WorkerStep, Dial, Connect, ClientUpgrade, NoToken, Authenticate, Welcome,
                    Rejected, LosesConnection, ClientGivesUp, ClientTakes
<1>3. CASE AcceptLoop
  <2>1. CASE Accept
    <3>1. Head(backlog) \in Conns
      BY <2>1, HeadTailProperties DEF Accept, TypeOK
    <3> QED
      BY <1>1, <2>1, <3>1 DEF Accept
  <2>2. CASE AcceptAndUpgrade \/ UpgradeFails
    BY <1>0, <2>2 DEF AcceptAndUpgrade, UpgradeFails
  <2>3. CASE UpgradeDone
    BY <1>1, <2>3 DEF UpgradeDone, TypeOK
  <2> QED
    BY <1>3, <2>1, <2>2, <2>3 DEF AcceptLoop
<1>4. ASSUME NEW c \in Conns, HandlerStep(c) \/ SessionDies(c) PROVE HandlersAuthenticated'
  <2>1. CASE NoAuth(c) \/ AuthFails(c)
    BY <1>1, <2>1 DEF NoAuth, AuthFails, HandlerCloses
  <2>2. CASE AuthSucceeds(c)
    <3>1. Authenticated(c, Head(toServer[c]).service)
      BY <2>2, AcceptedAuthenticates DEF AuthSucceeds
    <3>2. /\ hpc' = [hpc EXCEPT ![c] = "add"]
          /\ hsvc' = [hsvc EXCEPT ![c] = Head(toServer[c]).service]
      BY <2>2 DEF AuthSucceeds
    <3>3. /\ hsvc'[c] = Head(toServer[c]).service
          /\ \A d \in Conns \ {c} : hsvc'[d] = hsvc[d]
      BY <3>2 DEF TypeOK
    <3> QED
      BY <3>1, <3>2, <3>3, HandlerMoves
  <2>3. CASE AddSession(c)
    <3>1. hpc' = [hpc EXCEPT ![c] = "serving"] /\ hsvc' = hsvc /\ hpc[c] = "add"
      BY <2>3 DEF AddSession
    <3>2. Authenticated(c, hsvc'[c])
      BY <3>1 DEF HandlersAuthenticated
    <3> QED
      BY <3>1, <3>2, HandlerMoves
  <2>4. CASE HandlerReturns(c)
    BY <1>1, <2>4 DEF HandlerReturns, TypeOK
  <2>5. CASE SessionDies(c)
    BY <1>0, <2>5 DEF SessionDies
  <2> QED
    BY <1>4, <2>1, <2>2, <2>3, <2>4, <2>5 DEF HandlerStep
<1>5. ASSUME NEW v \in Visitors, VisitorStep(v) \/ VisitorArrives(v) \/ RelayEnds(v)
      PROVE  HandlersAuthenticated'
  BY <1>0, <1>5 DEF VisitorStep, VisitorArrives, RelayEnds, Pick, PickNone, Open, OpenFails,
                    StreamAccepted
<1>6. ASSUME NEW c \in Conns,
             IdlerConnects(c) \/ IdlerSpeaks(c) \/ IdlerLeaves(c) \/ LinkBreaks(c)
      PROVE  HandlersAuthenticated'
  BY <1>0, <1>6 DEF IdlerConnects, Connect, IdlerSpeaks, IdlerLeaves, LinkBreaks
<1>7. CASE ServerRestarts
  BY <1>7 DEF ServerRestarts, HandlersAuthenticated
<1> QED
  BY <1>2, <1>3, <1>4, <1>5, <1>6, <1>7 DEF Next, Environment

-----------------------------------------------------------------------------
(* The pools.                                                              *)

(* One pool changes, and what is new in it was authenticated.              *)
LEMMA PoolChanges ==
  ASSUME TypeOK, PoolAuthenticated, NEW s \in Services, NEW q,
         pool' = [pool EXCEPT ![s] = q],
         \A c \in Members(q) : c \in Members(pool[s]) \/ Authenticated(c, s)
  PROVE  PoolAuthenticated'
<1> SUFFICES ASSUME NEW t \in Services, NEW c \in Members(pool'[t])
             PROVE  Authenticated(c, t)
  BY DEF PoolAuthenticated, Authenticated, TokenOnServer, TokenOnClient, GetServiceToken
<1>1. pool'[t] = IF t = s THEN q ELSE pool[t]
  BY DEF TypeOK
<1> QED
  BY <1>1 DEF PoolAuthenticated

LEMMA PoolUnchanged ==
  ASSUME PoolAuthenticated, UNCHANGED pool
  PROVE  PoolAuthenticated'
<1> SUFFICES ASSUME NEW t \in Services, NEW c \in Members(pool'[t])
             PROVE  Authenticated(c, t)
  BY DEF PoolAuthenticated, Authenticated, TokenOnServer, TokenOnClient, GetServiceToken
<1> QED
  BY DEF PoolAuthenticated

LEMMA PoolStep ==
  ASSUME AInv, Next
  PROVE  PoolAuthenticated'
<1> USE DEF AInv, TInv, netVars, serverVars, workerVars, visitorVars
<1>0. ASSUME UNCHANGED pool PROVE PoolAuthenticated'
  BY <1>0, PoolUnchanged
<1>1. ASSUME NEW w \in Workers, WorkerStep(w) PROVE PoolAuthenticated'
  BY <1>0, <1>1 DEF WorkerStep, Dial, Connect, ClientUpgrade, NoToken, Authenticate, Welcome,
                    Rejected, LosesConnection, ClientGivesUp, ClientTakes
<1>2. CASE AcceptLoop
  BY <1>0, <1>2 DEF AcceptLoop, Accept, AcceptAndUpgrade, UpgradeDone, UpgradeFails
<1>3. ASSUME NEW c \in Conns, HandlerStep(c) \/ SessionDies(c) PROVE PoolAuthenticated'
  <2>1. CASE AddSession(c)
    <3>1. hsvc[c] \in Services /\ Authenticated(c, hsvc[c])
      BY <2>1 DEF AddSession, HandlersHaveService, HandlersAuthenticated
    <3>2. Members(Added(pool[hsvc[c]], c)) = Members(pool[hsvc[c]]) \cup {c}
      BY <3>1, AddedMembers DEF TypeOK
    <3>3. pool' = [pool EXCEPT ![hsvc[c]] = Added(pool[hsvc[c]], c)]
      BY <2>1 DEF AddSession
    <3>4. \A d \in Members(Added(pool[hsvc[c]], c)) :
            d \in Members(pool[hsvc[c]]) \/ Authenticated(d, hsvc[c])
      BY <3>1, <3>2
    <3> QED
      BY <3>1, <3>3, <3>4, PoolChanges
  <2>2. CASE ~AddSession(c)
    BY <1>0, <1>3, <2>2 DEF HandlerStep, NoAuth, AuthFails, HandlerCloses, AuthSucceeds,
                            HandlerReturns, SessionDies
  <2> QED
    BY <2>1, <2>2
<1>4. ASSUME NEW v \in Visitors, VisitorStep(v) \/ VisitorArrives(v) \/ RelayEnds(v)
      PROVE  PoolAuthenticated'
  <2> DEFINE s == VisitorService[v]
             p == pool[s]
  <2>0. s \in Services /\ p \in Seq(Conns)
    BY DEF TypeOK
  <2>1. ASSUME NEW k \in 1..Len(p), Pick(v, k) PROVE PoolAuthenticated'
    <3>1. FirstLive(p, Closed, k) /\ pool' = [pool EXCEPT ![s] = Rotated(p, k)]
      BY <2>1 DEF Pick
    <3>2. Members(Rotated(p, k)) \subseteq Members(p)
      BY <2>0, <3>1, RotatedMembers
    <3> QED
      BY <2>0, <3>1, <3>2, PoolChanges
  <2>2. CASE PickNone(v)
    <3>1. Members(<<>>) = {} /\ pool' = [pool EXCEPT ![s] = <<>>]
      BY <2>2 DEF Members, PickNone
    <3> QED
      BY <2>0, <3>1, PoolChanges
  <2>3. CASE OpenFails(v)
    <3>1. CASE pool' = pool
      BY <1>0, <3>1
    <3>2. ASSUME NEW q \in {Without(p, i) : i \in 1..Len(p)} \cup {p},
                 Removed(p, vconn[v], q), pool' = [pool EXCEPT ![s] = q]
          PROVE  PoolAuthenticated'
      <4>1. Members(q) \subseteq Members(p)
        BY <2>0, <3>2, RemovedProperties
      <4> QED
        BY <2>0, <3>2, <4>1, PoolChanges
    <3> QED
      BY <2>3, <3>1, <3>2 DEF OpenFails
  <2>4. CASE \/ Open(v) \/ VisitorArrives(v) \/ RelayEnds(v)
             \/ \E w \in Workers : StreamAccepted(v, w)
    BY <1>0, <2>4 DEF Open, VisitorArrives, RelayEnds, StreamAccepted
  <2> QED
    BY <1>4, <2>1, <2>2, <2>3, <2>4 DEF VisitorStep
<1>5. ASSUME NEW c \in Conns,
             IdlerConnects(c) \/ IdlerSpeaks(c) \/ IdlerLeaves(c) \/ LinkBreaks(c)
      PROVE  PoolAuthenticated'
  BY <1>0, <1>5 DEF IdlerConnects, Connect, IdlerSpeaks, IdlerLeaves, LinkBreaks
<1>6. CASE ServerRestarts
  BY <1>6 DEF ServerRestarts, PoolAuthenticated, Members
<1> QED
  BY <1>1, <1>2, <1>3, <1>4, <1>5, <1>6 DEF Next, Environment

-----------------------------------------------------------------------------
(* The visitors.                                                           *)

(* One visitor moves; one that comes to hold a session holds a right one.  *)
LEMMA VisitorMoves ==
  ASSUME TypeOK, RightService, NEW v \in Visitors, NEW p, NEW c,
         vpc' = [vpc EXCEPT ![v] = p], vconn' = [vconn EXCEPT ![v] = c],
         p \in {"picked", "relay", "served"} => Authenticated(c, VisitorService[v])
  PROVE  RightService'
<1> SUFFICES ASSUME NEW u \in Visitors, vpc'[u] \in {"picked", "relay", "served"}
             PROVE  Authenticated(vconn'[u], VisitorService[u])
  BY DEF RightService, Authenticated, TokenOnServer, TokenOnClient, GetServiceToken
<1>1. CASE u = v
  BY <1>1 DEF TypeOK
<1>2. CASE u # v
  <2>1. vpc'[u] = vpc[u] /\ vconn'[u] = vconn[u]
    BY <1>2 DEF TypeOK
  <2> QED
    BY <2>1 DEF RightService
<1> QED
  BY <1>1, <1>2

LEMMA VisitorsStep ==
  ASSUME AInv, Next
  PROVE  RightService'
<1> USE DEF AInv, TInv, netVars, serverVars, workerVars, visitorVars
<1>0. ASSUME UNCHANGED <<vpc, vconn>> PROVE RightService'
  BY <1>0 DEF RightService, Authenticated, TokenOnServer, TokenOnClient, GetServiceToken
<1>1. ASSUME NEW w \in Workers, WorkerStep(w) PROVE RightService'
  BY <1>0, <1>1 DEF WorkerStep, Dial, Connect, ClientUpgrade, NoToken, Authenticate, Welcome,
                    Rejected, LosesConnection, ClientGivesUp, ClientTakes
<1>2. CASE AcceptLoop
  BY <1>0, <1>2 DEF AcceptLoop, Accept, AcceptAndUpgrade, UpgradeDone, UpgradeFails
<1>3. ASSUME NEW c \in Conns, HandlerStep(c) \/ SessionDies(c) PROVE RightService'
  BY <1>0, <1>3 DEF HandlerStep, NoAuth, AuthFails, HandlerCloses, AuthSucceeds, AddSession,
                    HandlerReturns, SessionDies
<1>4. ASSUME NEW v \in Visitors, VisitorStep(v) \/ VisitorArrives(v) \/ RelayEnds(v)
      PROVE  RightService'
  <2> DEFINE s == VisitorService[v]
  <2>1. ASSUME NEW k \in 1..Len(pool[s]), Pick(v, k) PROVE RightService'
    <3>1. /\ vpc' = [vpc EXCEPT ![v] = "picked"]
          /\ vconn' = [vconn EXCEPT ![v] = pool[s][k]]
      BY <2>1 DEF Pick
    <3>2. Authenticated(pool[s][k], s)
      BY <2>1 DEF PoolAuthenticated, Members
    <3> QED
      BY <3>1, <3>2, VisitorMoves
  <2>2. ASSUME NEW p \in {"away", "arrived"}, NEW c,
               vpc' = [vpc EXCEPT ![v] = p], vconn' = [vconn EXCEPT ![v] = c]
        PROVE  RightService'
    BY <2>2, VisitorMoves
  <2>3. vconn = [vconn EXCEPT ![v] = vconn[v]]
    BY DEF TypeOK
  <2>4. CASE VisitorArrives(v) \/ PickNone(v)
    BY <2>2, <2>3, <2>4 DEF VisitorArrives, PickNone
  <2>5. CASE OpenFails(v) \/ RelayEnds(v)
    BY <2>2, <2>5 DEF OpenFails, RelayEnds
  <2>6. CASE Open(v) \/ \E w \in Workers : StreamAccepted(v, w)
    <3>1. /\ vpc[v] \in {"picked", "relay"}
          /\ vconn' = vconn
          /\ vpc' = [vpc EXCEPT ![v] = "relay"] \/ vpc' = [vpc EXCEPT ![v] = "served"]
      BY <2>6 DEF Open, StreamAccepted
    <3>2. Authenticated(vconn[v], s)
      BY <3>1 DEF RightService
    <3> QED
      BY <2>3, <3>1, <3>2, VisitorMoves
  <2> QED
    BY <1>4, <2>1, <2>4, <2>5, <2>6 DEF VisitorStep
<1>5. ASSUME NEW c \in Conns,
             IdlerConnects(c) \/ IdlerSpeaks(c) \/ IdlerLeaves(c) \/ LinkBreaks(c)
      PROVE  RightService'
  BY <1>0, <1>5 DEF IdlerConnects, Connect, IdlerSpeaks, IdlerLeaves, LinkBreaks
<1>6. CASE ServerRestarts
  BY <1>6 DEF ServerRestarts, RightService
<1> QED
  BY <1>1, <1>2, <1>3, <1>4, <1>5, <1>6 DEF Next, Environment

-----------------------------------------------------------------------------
LEMMA AInvInit == Init => AInv
<1> SUFFICES ASSUME Init PROVE AInv
  OBVIOUS
<1>1. TInv
  BY TypeInit DEF Init, TInv, OwnConnection, HandlersHaveService, VisitorsHaveSession
<1>2. Credentials /\ HandlersAuthenticated /\ PoolAuthenticated /\ RightService
  BY EmptySeq DEF Init, Credentials, HandlersAuthenticated, PoolAuthenticated, Members,
                  RightService
<1> QED
  BY <1>1, <1>2 DEF AInv

LEMMA AInvStep == AInv /\ [Next]_vars => AInv'
<1> SUFFICES ASSUME AInv, [Next]_vars PROVE AInv'
  OBVIOUS
<1>1. CASE Next
  BY <1>1, TInvStep, CredentialsStep, HandlersStep, PoolStep, VisitorsStep DEF AInv
<1>2. CASE UNCHANGED vars
  <2>1. TInv'
    BY <1>2, TInvStep DEF AInv
  <2>2. (Credentials /\ HandlersAuthenticated /\ RightService)'
    BY <1>2 DEF vars, AInv, Credentials, OwnMessages, HandlersAuthenticated, RightService,
                Authenticated, TokenOnServer, TokenOnClient, GetServiceToken
  <2>3. PoolAuthenticated'
    BY <1>2, PoolUnchanged DEF vars, AInv
  <2> QED
    BY <2>1, <2>2, <2>3 DEF AInv
<1> QED
  BY <1>1, <1>2

LEMMA AInvAlways == Spec => []AInv
BY AInvInit, AInvStep, PTL DEF Spec

(* handleClientConn puts nothing into a pool that has not shown the token  *)
(* of that very service, however connections, retries and restarts cross.  *)
THEOREM PoolsAreAuthenticated == Spec => []PoolAuthenticated
BY AInvAlways, PTL DEF AInv

(* handleVisitor hands a visitor to no other client than one authenticated *)
(* for the visitor's service, although session and pool have changed since *)
(* pick() returned.                                                        *)
THEOREM VisitorsReachTheirService == Spec => []RightService
BY AInvAlways, PTL DEF AInv
=============================================================================
