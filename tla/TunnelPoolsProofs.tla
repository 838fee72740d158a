-------------------------- MODULE TunnelPoolsProofs --------------------------
(***************************************************************************)
(* Proofs about links and pools, for any services, workers, visitors,      *)
(* connections and failures.                                               *)
(*                                                                         *)
(* A worker has one working connection at most, and one that takes itself  *)
(* for connected is in its pool: a link works only while its worker        *)
(* remembers it (Links).  A handler starts once per connection (Waiting),  *)
(* so that the success it announces is followed by the pool.add() of the   *)
(* same session; and what keeps a session in its pool is that pick() and   *)
(* remove() take out closed ones only, and that yamux closes it only when  *)
(* the link is down (Answered).                                            *)
(*                                                                         *)
(* The pools refine SessionPool: each step of the tunnel is, for each      *)
(* pool, a step of a SessionPool or none.  The two steps of SessionPool    *)
(* that need an argument are those about sessions which nobody refers to   *)
(* yet, Add and the opening of a session: a connection on its way to its   *)
(* pool is in none, and held by no visitor (NewToPools).                   *)
(***************************************************************************)
EXTENDS TunnelProofs, TunnelPools

USE TunnelAssumption

(* A worker's link is up only between its dial and its conn.Close().       *)
Links ==
  /\ \A w \in Workers : wpc[w] = "dial" => wconn[w] = None
  /\ \A c \in Conns : Owner[c] \in Workers /\ link[c] = "up" => wconn[Owner[c]] = c

(* A connection waits once for the accept loop, which then starts the one  *)
(* handler of it.                                                          *)
Waiting ==
  /\ \A i, j \in 1..Len(backlog) : backlog[i] = backlog[j] => i = j
  /\ \A i \in 1..Len(backlog) : hpc[backlog[i]] = "none" /\ backlog[i] # accepting
  /\ accepting # None => hpc[accepting] = "none"

(* The server has said yes on c, whether or not the worker has read it.    *)
Promised(c) ==
  \/ AuthResp(TRUE) \in Members(toClient[c])
  \/ wpc[Owner[c]] = "session" /\ wconn[Owner[c]] = c

Available(c) ==
  LET s == WorkerService[Owner[c]] IN
  /\ s \in Services
  /\ session[c] = "open"
  /\ c \in Members(pool[s]) \/ (hpc[c] = "add" /\ hsvc[c] = s)

Answered ==
  \A c \in Conns :
    Owner[c] \in Workers /\ link[c] = "up" /\ Promised(c) => Available(c)

LInv == AInv /\ Links /\ Waiting /\ Answered

-----------------------------------------------------------------------------
(* One working link per worker.                                            *)

LEMMA LinksKept ==
  ASSUME Links, UNCHANGED wconn,
         \A w \in Workers : wpc'[w] = "dial" => wpc[w] = "dial",
         \A c \in Conns : link'[c] = "up" => link[c] = "up"
  PROVE  Links'
BY DEF Links

LEMMA GivesUpLinks ==
  ASSUME TInv, Links, NEW w \in Workers, wpc[w] # "dial", ClientGivesUp(w)
  PROVE  Links'
<1> USE DEF TInv
<1>1. wconn[w] \in Conns /\ Owner[wconn[w]] = w
      BY DEF OwnConnection
<1>2. /\ wconn'[w] = None /\ link' = Down(wconn[w])
      /\ \A x \in Workers : x # w => wconn'[x] = wconn[x] /\ wpc'[x] = wpc[x]
      BY DEF ClientGivesUp, TypeOK
<1>3. /\ link'[wconn[w]] = "down"
      /\ \A c \in Conns : c # wconn[w] => link'[c] = link[c]
      BY <1>1, <1>2 DEF Down, TypeOK
<1>4. ASSUME NEW c \in Conns, Owner[c] \in Workers, link'[c] = "up"
      PROVE  wconn'[Owner[c]] = c
  <2>1. c # wconn[w] /\ link[c] = "up"
        BY <1>3, <1>4
  <2>2. wconn[Owner[c]] = c
        BY <1>4, <2>1 DEF Links
  <2>3. Owner[c] # w
        BY <2>1, <2>2
  <2> QED
      BY <1>2, <1>4, <2>2, <2>3
<1> QED
    BY <1>2, <1>4 DEF Links

LEMMA LinksStep ==
  ASSUME TInv, Links, Next
  PROVE  Links'
<1> USE DEF TInv, netVars, serverVars, workerVars, visitorVars
<1>0. ASSUME UNCHANGED <<wpc, wconn, link>> PROVE Links'
      BY <1>0, LinksKept
<1>1. ASSUME NEW w \in Workers, NEW c \in Conns, Dial(w, c) PROVE Links'
  <2>1. /\ wpc[w] = "dial" /\ Owner[c] = w
        /\ wconn'[w] = c /\ wpc'[w] # "dial"
        /\ \A x \in Workers : x # w => wconn'[x] = wconn[x] /\ wpc'[x] = wpc[x]
        BY <1>1 DEF Dial, TypeOK
  <2>2. \A d \in Conns : d # c => link'[d] = link[d]
        BY <1>1 DEF Dial, Connect, TypeOK
  <2>3. ASSUME NEW d \in Conns, Owner[d] \in Workers, link'[d] = "up"
        PROVE  wconn'[Owner[d]] = d
    <3>1. CASE d = c
          BY <2>1, <3>1
    <3>2. CASE d # c
      <4>1. wconn[Owner[d]] = d
            BY <2>2, <2>3, <3>2 DEF Links
      <4>2. Owner[d] # w
            BY <2>1, <4>1 DEF Links
      <4> QED
          BY <2>1, <2>3, <4>1, <4>2
    <3> QED
        BY <3>1, <3>2
  <2> QED
      BY <2>1, <2>3 DEF Links
<1>2. ASSUME NEW w \in Workers, ClientUpgrade(w) \/ Authenticate(w) \/ Welcome(w)
      PROVE  Links'
  <2>1. /\ UNCHANGED <<wconn, link>>
        /\ \A x \in Workers : wpc'[x] = "dial" => wpc[x] = "dial"
    <3>1. UNCHANGED <<wconn, link>>
      <4>1. CASE ClientUpgrade(w)
            BY <4>1, Zenon DEF ClientUpgrade, ClientTakes
      <4>2. CASE Authenticate(w)
            BY <4>2, Zenon DEF Authenticate
      <4>3. CASE Welcome(w)
            BY <4>3, Zenon DEF Welcome, ClientTakes
      <4> QED
          BY <1>2, <4>1, <4>2, <4>3
    <3>2. \E pc \in {"auth", "response", "session"} : wpc' = [wpc EXCEPT ![w] = pc]
      <4>1. CASE ClientUpgrade(w)
            BY <4>1, Zenon DEF ClientUpgrade
      <4>2. CASE Authenticate(w)
            BY <4>2, Zenon DEF Authenticate
      <4>3. CASE Welcome(w)
            BY <4>3, Zenon DEF Welcome
      <4> QED
          BY <1>2, <4>1, <4>2, <4>3
    <3>3. wpc \in [Workers -> {"dial", "upgrade", "auth", "response", "session"}]
          BY DEF TInv, TypeOK
    <3> QED
        BY <3>1, <3>2, <3>3
  <2> QED
      BY <2>1, LinksKept
<1>3. ASSUME NEW w \in Workers, NoToken(w) \/ Rejected(w) \/ LosesConnection(w)
      PROVE  Links'
  <2>1. wpc[w] # "dial" /\ ClientGivesUp(w)
        BY <1>3 DEF NoToken, Rejected, LosesConnection
  <2> QED
      BY <2>1, GivesUpLinks
<1>4. CASE AcceptLoop
      BY <1>0, <1>4 DEF AcceptLoop, Accept, AcceptAndUpgrade, UpgradeDone, UpgradeFails
<1>5. ASSUME NEW c \in Conns, HandlerStep(c) \/ SessionDies(c) PROVE Links'
  <2>1. CASE NoAuth(c) \/ AuthFails(c)
    <3>1. UNCHANGED <<wpc, wconn>> /\ \A d \in Conns : link'[d] = "up" => link[d] = "up"
          BY <2>1 DEF NoAuth, AuthFails, HandlerCloses, Down, TypeOK
    <3> QED
        BY <3>1, LinksKept
  <2>2. CASE AuthSucceeds(c) \/ AddSession(c) \/ HandlerReturns(c) \/ SessionDies(c)
        BY <1>0, <2>2 DEF AuthSucceeds, AddSession, HandlerReturns, SessionDies
  <2> QED
      BY <1>5, <2>1, <2>2 DEF HandlerStep
<1>6. ASSUME NEW v \in Visitors, VisitorStep(v) \/ VisitorArrives(v) \/ RelayEnds(v)
      PROVE  Links'
      BY <1>0, <1>6 DEF VisitorStep, VisitorArrives, RelayEnds, Pick, PickNone, Open,
                        OpenFails, StreamAccepted
<1>7. ASSUME NEW c \in Conns, IdlerConnects(c) PROVE Links'
  <2>1. /\ Owner[c] \notin Workers
        /\ UNCHANGED <<wpc, wconn>>
        /\ \A d \in Conns : d # c => link'[d] = link[d]
        BY <1>7 DEF IdlerConnects, Connect, TypeOK
  <2> QED
      BY <2>1 DEF Links
<1>8. ASSUME NEW c \in Conns, IdlerSpeaks(c) PROVE Links'
      BY <1>0, <1>8 DEF IdlerSpeaks
<1>9. ASSUME NEW c \in Conns, IdlerLeaves(c) \/ LinkBreaks(c) PROVE Links'
  <2>1. UNCHANGED <<wpc, wconn>> /\ \A d \in Conns : link'[d] = "up" => link[d] = "up"
        BY <1>9 DEF IdlerLeaves, LinkBreaks, Down, TypeOK
  <2> QED
      BY <2>1, LinksKept
<1>10. CASE ServerRestarts
       BY <1>10, LinksKept DEF ServerRestarts
<1> QED
    BY <1>1, <1>2, <1>3, <1>4, <1>5, <1>6, <1>7, <1>8, <1>9, <1>10
       DEF Next, WorkerStep, Environment

-----------------------------------------------------------------------------
(* One handler per connection.                                             *)

(* No handler starts and nothing joins the queue.                          *)
LEMMA WaitingKept ==
  ASSUME Waiting, UNCHANGED <<backlog, accepting>>,
         \A c \in Conns : hpc[c] = "none" => hpc'[c] = "none", TypeOK
  PROVE  Waiting'
<1>1. \A i \in 1..Len(backlog) : backlog[i] \in Conns
      BY ElementOfSeq DEF TypeOK
<1> QED
    BY <1>1 DEF Waiting, TypeOK

LEMMA JoinsQueue ==
  ASSUME TypeOK, Waiting, NEW c \in Conns, Free(c), backlog' = Append(backlog, c),
         UNCHANGED <<accepting, hpc>>
  PROVE  Waiting'
<1>1. /\ Len(backlog) \in Nat
      /\ Len(backlog') = Len(backlog) + 1 /\ backlog'[Len(backlog) + 1] = c
      /\ \A i \in 1..Len(backlog) : backlog'[i] = backlog[i]
      BY AppendProperties, LenProperties DEF TypeOK
<1>2. hpc[c] = "none" /\ accepting # c /\ \A i \in 1..Len(backlog) : backlog[i] # c
      BY DEF Free, Members
<1>3. \A i \in 1..Len(backlog') : i \in 1..Len(backlog) \/ i = Len(backlog) + 1
      BY <1>1
<1> QED
    BY <1>1, <1>2, <1>3 DEF Waiting

LEMMA LeavesQueue ==
  ASSUME TypeOK, Waiting, backlog # <<>>, backlog' = Tail(backlog),
         \/ accepting' = accepting /\ hpc' = [hpc EXCEPT ![Head(backlog)] = "auth"]
         \/ accepting' = Head(backlog) /\ hpc' = hpc
  PROVE  Waiting'
<1>1. /\ backlog[1] = Head(backlog) /\ Head(backlog) \in Conns
      /\ Len(backlog') = Len(backlog) - 1 /\ Len(backlog) \in Nat \ {0}
      /\ \A i \in 1..Len(backlog') : backlog'[i] = backlog[i + 1] /\ backlog[i + 1] \in Conns
      BY HeadTailProperties, LenProperties, EmptySeq, ElementOfSeq DEF TypeOK
<1>2. \A i \in 1..Len(backlog') :
        /\ i + 1 \in 1..Len(backlog)
        /\ backlog'[i] # Head(backlog)
  <2>1. \A i \in 1..Len(backlog') : i + 1 \in 1..Len(backlog) /\ i + 1 # 1 /\ 1 \in 1..Len(backlog)
        BY <1>1
  <2> QED
      BY <1>1, <2>1 DEF Waiting
<1>3. \A i, j \in 1..Len(backlog') : backlog'[i] = backlog'[j] => i = j
  <2> SUFFICES ASSUME NEW i \in 1..Len(backlog'), NEW j \in 1..Len(backlog'),
                      backlog'[i] = backlog'[j]
               PROVE  i = j
      OBVIOUS
  <2>1. i + 1 = j + 1
        BY <1>1, <1>2 DEF Waiting
  <2> QED
      BY <2>1
<1>4. hpc[Head(backlog)] = "none" /\ Head(backlog) # accepting
  <2>1. 1 \in 1..Len(backlog)
        BY <1>1
  <2> QED
      BY <1>1, <2>1 DEF Waiting
<1>5. \A c \in Conns : c # Head(backlog) => hpc'[c] = hpc[c]
      BY DEF TypeOK
<1>6. \A i \in 1..Len(backlog') : hpc'[backlog'[i]] = "none" /\ backlog'[i] # accepting'
  <2>1. \A i \in 1..Len(backlog') : hpc[backlog'[i]] = "none" /\ backlog'[i] # accepting
        BY <1>1, <1>2 DEF Waiting
  <2> QED
      BY <1>1, <1>2, <1>5, <2>1
<1>7. accepting' # None => hpc'[accepting'] = "none"
      BY <1>4, <1>5 DEF Waiting, TypeOK
<1> QED
    BY <1>3, <1>6, <1>7 DEF Waiting

LEMMA WaitingStep ==
  ASSUME TInv, Waiting, Next
  PROVE  Waiting'
<1> USE DEF TInv, netVars, serverVars, workerVars, visitorVars
<1>0. ASSUME UNCHANGED <<backlog, accepting, hpc>> PROVE Waiting'
      BY <1>0, WaitingKept
<1>1. ASSUME NEW w \in Workers, NEW c \in Conns, Dial(w, c) PROVE Waiting'
      BY <1>1, JoinsQueue DEF Dial, Connect
<1>2. ASSUME NEW w \in Workers,
             \/ ClientUpgrade(w) \/ NoToken(w) \/ Authenticate(w) \/ Welcome(w)
             \/ Rejected(w) \/ LosesConnection(w)
      PROVE  Waiting'
      BY <1>0, <1>2 DEF ClientUpgrade, NoToken, Authenticate, Welcome, Rejected,
                        LosesConnection, ClientGivesUp, ClientTakes
<1>3. CASE Accept \/ AcceptAndUpgrade
      BY <1>3, LeavesQueue DEF Accept, AcceptAndUpgrade
<1>4. CASE UpgradeDone \/ UpgradeFails
  <2>1. /\ accepting \in Conns /\ accepting' = None /\ backlog' = backlog
        /\ \A c \in Conns : c # accepting => hpc'[c] = hpc[c]
        BY <1>4 DEF UpgradeDone, UpgradeFails, TypeOK
  <2>2. \A i \in 1..Len(backlog) : backlog[i] \in Conns /\ backlog[i] # accepting
        BY ElementOfSeq DEF Waiting, TypeOK
  <2> QED
      BY <2>1, <2>2 DEF Waiting
<1>5. ASSUME NEW c \in Conns, HandlerStep(c) \/ SessionDies(c) PROVE Waiting'
  <2>1. /\ UNCHANGED <<backlog, accepting>>
        /\ \A d \in Conns : hpc[d] = "none" => hpc'[d] = "none"
    <3>1. CASE NoAuth(c) \/ AuthFails(c)
          BY <3>1 DEF NoAuth, AuthFails, HandlerCloses, TypeOK
    <3>2. CASE AuthSucceeds(c) \/ AddSession(c) \/ HandlerReturns(c) \/ SessionDies(c)
          BY <3>2 DEF AuthSucceeds, AddSession, HandlerReturns, SessionDies, TypeOK
    <3> QED
        BY <1>5, <3>1, <3>2 DEF HandlerStep
  <2> QED
      BY <2>1, WaitingKept
<1>6. ASSUME NEW v \in Visitors, VisitorStep(v) \/ VisitorArrives(v) \/ RelayEnds(v)
      PROVE  Waiting'
      BY <1>0, <1>6 DEF VisitorStep, VisitorArrives, RelayEnds, Pick, PickNone, Open,
                        OpenFails, StreamAccepted
<1>7. ASSUME NEW c \in Conns, IdlerConnects(c) PROVE Waiting'
      BY <1>7, JoinsQueue DEF IdlerConnects, Connect
<1>8. ASSUME NEW c \in Conns, IdlerSpeaks(c) \/ IdlerLeaves(c) \/ LinkBreaks(c)
      PROVE  Waiting'
      BY <1>0, <1>8 DEF IdlerSpeaks, IdlerLeaves, LinkBreaks
<1>9. CASE ServerRestarts
      BY <1>9, EmptySeq DEF ServerRestarts, Waiting
<1> QED
    BY <1>1, <1>2, <1>3, <1>4, <1>5, <1>6, <1>7, <1>8, <1>9
       DEF Next, WorkerStep, AcceptLoop, Environment

-----------------------------------------------------------------------------
(* Whoever was told yes is available.                                      *)

LEMMA AnsweredKept ==
  ASSUME Answered,
         \A c \in Conns :
           Owner[c] \in Workers /\ link'[c] = "up" /\ Promised(c)' =>
             \/ link[c] = "up" /\ Promised(c) /\ (Available(c) => Available(c)')
             \/ Available(c)'
  PROVE  Answered'
BY DEF Answered

LEMMA PromisedSame ==
  ASSUME NEW c \in Conns, Owner[c] \in Workers, toClient'[c] = toClient[c],
         wpc'[Owner[c]] = "session" /\ wconn'[Owner[c]] = c =>
           wpc[Owner[c]] = "session" /\ wconn[Owner[c]] = c
  PROVE  Promised(c)' => Promised(c)
BY DEF Promised, Members

LEMMA AvailableSame ==
  ASSUME NEW c \in Conns, UNCHANGED <<session, pool, hpc, hsvc>>
  PROVE  Available(c)' <=> Available(c)
BY DEF Available, Members

(* A message that says something else, and one that is read.               *)
LEMMA SentPromises ==
  ASSUME TypeOK, NEW c \in Conns, NEW d \in Conns, NEW m \in ToClientMessages,
         toClient' = Sent(toClient, c, m), m # AuthResp(TRUE),
         AuthResp(TRUE) \in Members(toClient'[d])
  PROVE  AuthResp(TRUE) \in Members(toClient[d])
<1>1. CASE c = d /\ link[c] = "up"
  <2>1. toClient'[d] = Added(toClient[d], m)
        BY <1>1 DEF Sent, Added, TypeOK
  <2>2. Members(Added(toClient[d], m)) = Members(toClient[d]) \cup {m}
        BY AddedMembers DEF TypeOK
  <2> QED
      BY <2>1, <2>2
<1>2. CASE ~(c = d /\ link[c] = "up")
  <2>1. toClient'[d] = toClient[d]
        BY <1>2 DEF Sent, TypeOK
  <2> QED
      BY <2>1
<1> QED
    BY <1>1, <1>2

LEMMA TailPromises ==
  ASSUME NEW q \in Seq(ToClientMessages), q # <<>>
  PROVE  /\ Members(Tail(q)) \subseteq Members(q)
         /\ Head(q) \in Members(q)
<1>1. /\ Len(q) \in Nat \ {0} /\ Len(Tail(q)) = Len(q) - 1 /\ Head(q) = q[1]
      /\ \A i \in 1..Len(Tail(q)) : Tail(q)[i] = q[i + 1]
      BY HeadTailProperties, EmptySeq, LenProperties
<1>2. 1 \in 1..Len(q) /\ \A i \in 1..Len(Tail(q)) : i + 1 \in 1..Len(q)
      BY <1>1
<1> QED
    BY <1>1, <1>2 DEF Members

(* A new connection promises nothing.                                      *)
LEMMA ConnectAnswers ==
  ASSUME TInv, Answered, NEW c \in Conns, NEW hello, Connect(c, hello),
         \A w \in Workers :
           wpc'[w] = "session" => wpc[w] = "session" /\ wconn'[w] = wconn[w],
         Owner[c] \in Workers => wpc'[Owner[c]] # "session"
  PROVE  Answered'
<1> USE DEF TInv, Connect
<1>1. ASSUME NEW d \in Conns, Owner[d] \in Workers, link'[d] = "up", Promised(d)'
      PROVE  link[d] = "up" /\ Promised(d) /\ (Available(d) => Available(d)')
  <2>1. toClient'[c] = <<>> /\ Members(<<>>) = {}
        BY DEF TypeOK, Members
  <2>2. d # c
        BY <1>1, <2>1 DEF Promised
  <2>3. link'[d] = link[d] /\ toClient'[d] = toClient[d] /\ session'[d] = session[d]
        BY <2>2 DEF TypeOK
  <2>4. Promised(d)
        BY <1>1, <2>3, PromisedSame
  <2>5. Available(d) => Available(d)'
        BY <2>3 DEF Available, Members
  <2> QED
      BY <1>1, <2>3, <2>4, <2>5
<1> QED
    BY <1>1, AnsweredKept

LEMMA WorkerAnswers ==
  ASSUME TInv, Answered, NEW w \in Workers, WorkerStep(w)
  PROVE  Answered'
<1> USE DEF TInv, netVars, serverVars, workerVars, visitorVars
<1>1. ASSUME NEW c \in Conns, Dial(w, c) PROVE Answered'
  <2>1. /\ Owner[c] = w /\ wpc'[w] # "session"
        /\ \A x \in Workers : x # w => wpc'[x] = wpc[x] /\ wconn'[x] = wconn[x]
        BY <1>1 DEF Dial, TypeOK
  <2>2. Connect(c, IF transport = "ws" THEN <<Hello>> ELSE <<>>)
        BY <1>1 DEF Dial
  <2> QED
      BY <2>1, <2>2, ConnectAnswers
<1>2. CASE ClientUpgrade(w) \/ Welcome(w)
  <2> DEFINE m == wconn[w]
  <2>1. m \in Conns
        BY <1>2 DEF OwnConnection, ClientUpgrade, Welcome
  <2>2. /\ toClient[m] # <<>> /\ toClient[m] \in Seq(ToClientMessages)
        /\ toClient'[m] = Tail(toClient[m])
        /\ \A d \in Conns : d # m => toClient'[d] = toClient[d]
        /\ UNCHANGED <<link, session, pool, hpc, hsvc, wconn>>
        BY <1>2, <2>1 DEF ClientUpgrade, Welcome, ClientTakes, TypeOK
  <2>3. /\ wpc'[w] = "session" => Head(toClient[m]) = AuthResp(TRUE)
        /\ \A x \in Workers : x # w => wpc'[x] = wpc[x]
        BY <1>2 DEF ClientUpgrade, Welcome, TypeOK
  <2>4. Members(toClient'[m]) \subseteq Members(toClient[m])
        /\ Head(toClient[m]) \in Members(toClient[m])
        BY <2>2, TailPromises
  <2>5. ASSUME NEW d \in Conns, Owner[d] \in Workers, link'[d] = "up", Promised(d)'
        PROVE  link[d] = "up" /\ Promised(d) /\ (Available(d) => Available(d)')
    <3>1. ASSUME AuthResp(TRUE) \in Members(toClient'[d])
          PROVE  Promised(d)
      <4>1. AuthResp(TRUE) \in Members(toClient[d])
        <5>1. CASE d = m
              BY <2>4, <3>1, <5>1
        <5>2. CASE d # m
              BY <2>2, <3>1, <5>2
        <5> QED
            BY <5>1, <5>2
      <4> QED
          BY <4>1 DEF Promised
    <3>2. ASSUME wpc'[Owner[d]] = "session", wconn'[Owner[d]] = d
          PROVE  Promised(d)
      <4>1. ASSUME Owner[d] = w
            PROVE  AuthResp(TRUE) \in Members(toClient[d])
        <5>1. d = m
              BY <2>2, <3>2, <4>1
        <5> QED
            BY <2>3, <2>4, <3>2, <4>1, <5>1
      <4>2. ASSUME Owner[d] # w
            PROVE  wpc[Owner[d]] = "session" /\ wconn[Owner[d]] = d
            BY <2>2, <2>3, <2>5, <3>2, <4>2
      <4> QED
          BY <4>1, <4>2 DEF Promised
    <3>3. Promised(d)
          BY <2>5, <3>1, <3>2 DEF Promised
    <3> QED
        BY <2>2, <2>5, <3>3, AvailableSame
  <2> QED
      BY <2>5, AnsweredKept
<1>3. CASE Authenticate(w)
  <2>1. /\ UNCHANGED <<link, toClient, session, pool, hpc, hsvc, wconn>>
        /\ \A x \in Workers : wpc'[x] = "session" => wpc[x] = "session"
        BY <1>3 DEF Authenticate, TypeOK
  <2> QED
      BY <2>1, PromisedSame, AvailableSame, AnsweredKept
<1>4. CASE NoToken(w) \/ Rejected(w) \/ LosesConnection(w)
  <2>1. ClientGivesUp(w) /\ wconn[w] \in Conns
        BY <1>4 DEF NoToken, Rejected, LosesConnection, OwnConnection
  <2>2. /\ UNCHANGED <<session, pool, hpc, hsvc>>
        /\ wpc'[w] = "dial"
        /\ \A x \in Workers : x # w => wpc'[x] = wpc[x] /\ wconn'[x] = wconn[x]
        BY <2>1 DEF ClientGivesUp, TypeOK
  <2>3. /\ link'[wconn[w]] = "down"
        /\ \A d \in Conns : d # wconn[w] => link'[d] = link[d] /\ toClient'[d] = toClient[d]
        BY <2>1 DEF ClientGivesUp, Down, TypeOK
  <2>4. ASSUME NEW d \in Conns, Owner[d] \in Workers, link'[d] = "up", Promised(d)'
        PROVE  link[d] = "up" /\ Promised(d) /\ (Available(d) => Available(d)')
    <3>1. link[d] = "up" /\ toClient'[d] = toClient[d]
          BY <2>3, <2>4
    <3>2. wpc'[Owner[d]] = "session" =>
            wpc[Owner[d]] = "session" /\ wconn'[Owner[d]] = wconn[Owner[d]]
          BY <2>2, <2>4
    <3>3. Promised(d)
          BY <2>4, <3>1, <3>2, PromisedSame
    <3> QED
        BY <2>2, <3>1, <3>3, AvailableSame
  <2> QED
      BY <2>4, AnsweredKept
<1> QED
    BY <1>1, <1>2, <1>3, <1>4 DEF WorkerStep

LEMMA AcceptLoopAnswers ==
  ASSUME TInv, Waiting, Answered, AcceptLoop
  PROVE  Answered'
<1> USE DEF TInv, workerVars, visitorVars, netVars
<1>1. Hello \in ToClientMessages /\ Hello # AuthResp(TRUE)
      BY DEF ToClientMessages, Hello, AuthResp
<1>2. \E c \in Conns :
        /\ hpc[c] = "none"
        /\ \A d \in Conns : d # c => hpc'[d] = hpc[d]
        /\ toClient' = toClient \/ toClient' = Sent(toClient, c, Hello)
  <2>1. CASE Accept \/ AcceptAndUpgrade
    <3>1. backlog # <<>> /\ Head(backlog) \in Conns /\ Head(backlog) = backlog[1]
          BY <2>1, HeadTailProperties, EmptySeq DEF Accept, AcceptAndUpgrade, TypeOK
    <3>2. hpc[Head(backlog)] = "none"
      <4>1. 1 \in 1..Len(backlog)
            BY <3>1, EmptySeq DEF TypeOK
      <4> QED
          BY <3>1, <4>1 DEF Waiting
    <3>3. /\ \A d \in Conns : d # Head(backlog) => hpc'[d] = hpc[d]
          /\ toClient' = toClient \/ toClient' = Sent(toClient, Head(backlog), Hello)
          BY <2>1 DEF Accept, AcceptAndUpgrade, TypeOK
    <3> QED
        BY <3>1, <3>2, <3>3
  <2>2. CASE UpgradeDone \/ UpgradeFails
    <3>1. accepting \in Conns /\ hpc[accepting] = "none"
          BY <2>2 DEF UpgradeDone, UpgradeFails, Waiting, TypeOK
    <3>2. /\ \A d \in Conns : d # accepting => hpc'[d] = hpc[d]
          /\ toClient' = toClient \/ toClient' = Sent(toClient, accepting, Hello)
          BY <2>2 DEF UpgradeDone, UpgradeFails, TypeOK
    <3> QED
        BY <3>1, <3>2
  <2> QED
      BY <2>1, <2>2 DEF AcceptLoop
<1>3. UNCHANGED <<link, session, pool, hsvc, wpc, wconn>>
      BY DEF AcceptLoop, Accept, AcceptAndUpgrade, UpgradeDone, UpgradeFails
<1>4. ASSUME NEW d \in Conns, Owner[d] \in Workers, link'[d] = "up", Promised(d)'
      PROVE  link[d] = "up" /\ Promised(d) /\ (Available(d) => Available(d)')
  <2>1. AuthResp(TRUE) \in Members(toClient'[d]) => AuthResp(TRUE) \in Members(toClient[d])
        BY <1>1, <1>2, SentPromises
  <2>2. Promised(d)
        BY <1>3, <1>4, <2>1 DEF Promised
  <2>3. hpc[d] = "add" => hpc'[d] = "add"
        BY <1>2
  <2>4. Available(d) => Available(d)'
        BY <1>3, <2>3 DEF Available, Members
  <2> QED
      BY <1>3, <1>4, <2>2, <2>4
<1> QED
    BY <1>4, AnsweredKept

LEMMA HandlerAnswers ==
  ASSUME AInv, Answered, NEW c \in Conns, HandlerStep(c) \/ SessionDies(c)
  PROVE  Answered'
<1> USE DEF AInv, TInv, netVars, workerVars, visitorVars
<1>1. UNCHANGED <<wpc, wconn>>
      BY DEF HandlerStep, NoAuth, AuthFails, HandlerCloses, AuthSucceeds, AddSession,
             HandlerReturns, SessionDies
<1>2. CASE NoAuth(c) \/ AuthFails(c)
  <2>1. /\ UNCHANGED <<session, pool, hsvc>>
        /\ link'[c] = "down"
        /\ hpc[c] = "auth"
        /\ \A d \in Conns : d # c => link'[d] = link[d] /\ hpc'[d] = hpc[d]
        BY <1>2 DEF NoAuth, AuthFails, HandlerCloses, Down, TypeOK
  <2>2. \A d \in Conns : d # c => toClient'[d] = toClient[d]
        BY <1>2 DEF NoAuth, AuthFails, HandlerCloses, Sent, TypeOK
  <2>3. ASSUME NEW d \in Conns, Owner[d] \in Workers, link'[d] = "up", Promised(d)'
        PROVE  link[d] = "up" /\ Promised(d) /\ (Available(d) => Available(d)')
    <3>1. d # c /\ link[d] = "up" /\ toClient'[d] = toClient[d] /\ hpc'[d] = hpc[d]
          BY <2>1, <2>2, <2>3
    <3>2. Promised(d)
          BY <1>1, <2>3, <3>1, PromisedSame
    <3>3. Available(d) => Available(d)'
          BY <2>1, <3>1 DEF Available, Members
    <3> QED
        BY <3>1, <3>2, <3>3
  <2> QED
      BY <2>3, AnsweredKept
<1>3. CASE AuthSucceeds(c)
  <2> DEFINE s == Head(toServer[c]).service
  <2>1. Authenticated(c, s) /\ s \in Services
        BY <1>3, AcceptedAuthenticates DEF AuthSucceeds, Accepted
  <2>2. s = WorkerService[Owner[c]]
        BY <2>1 DEF Authenticated
  <2>3. /\ hpc'[c] = "add" /\ hsvc'[c] = s /\ session'[c] = "open"
        /\ \A d \in Conns : d # c =>
             hpc'[d] = hpc[d] /\ hsvc'[d] = hsvc[d] /\ session'[d] = session[d]
        /\ UNCHANGED <<link, pool>>
        BY <1>3 DEF AuthSucceeds, TypeOK
  <2>4. \A d \in Conns : d # c => toClient'[d] = toClient[d]
        BY <1>3 DEF AuthSucceeds, Sent, TypeOK
  <2> HIDE DEF s
  <2>5. Available(c)'
        BY <2>1, <2>2, <2>3 DEF Available
  <2>6. ASSUME NEW d \in Conns, Owner[d] \in Workers, link'[d] = "up", Promised(d)', d # c
        PROVE  link[d] = "up" /\ Promised(d) /\ (Available(d) => Available(d)')
    <3>1. Promised(d)
          BY <1>1, <2>4, <2>6, PromisedSame
    <3>2. Available(d) => Available(d)'
          BY <2>3, <2>6 DEF Available, Members
    <3> QED
        BY <2>3, <2>6, <3>1, <3>2
  <2> QED
      BY <2>5, <2>6, AnsweredKept
<1>4. CASE AddSession(c)
  <2> DEFINE s == hsvc[c]
  <2>1. /\ hpc[c] = "add" /\ s \in Services
        /\ UNCHANGED <<link, toClient, session, hsvc>>
        /\ \A d \in Conns : d # c => hpc'[d] = hpc[d]
        /\ \A t \in Services : t # s => pool'[t] = pool[t]
        /\ pool'[s] = Added(pool[s], c)
        BY <1>4 DEF AddSession, HandlersHaveService, TypeOK
  <2>2. Members(Added(pool[s], c)) = Members(pool[s]) \cup {c}
        BY <2>1, AddedMembers DEF TypeOK
  <2> HIDE DEF s
  <2>3. ASSUME NEW t \in Services
        PROVE  Members(pool[t]) \subseteq Members(pool'[t])
    <3>1. CASE t = s
          BY <2>1, <2>2, <3>1
    <3>2. CASE t # s
          BY <2>1, <3>2
    <3> QED
        BY <3>1, <3>2
  <2>4. c \in Members(pool'[s])
        BY <2>1, <2>2
  <2>5. ASSUME NEW d \in Conns, Owner[d] \in Workers, Available(d)
        PROVE  Available(d)'
    <3> DEFINE t == WorkerService[Owner[d]]
    <3>1. t \in Services /\ session'[d] = "open"
          BY <2>1, <2>5 DEF Available
    <3>2. CASE d \in Members(pool[t])
      <4>1. d \in Members(pool'[t])
            BY <2>3, <3>1, <3>2
      <4> QED
          BY <3>1, <4>1 DEF Available
    <3>3. CASE hpc[d] = "add" /\ hsvc[d] = t /\ d # c
          BY <2>1, <3>1, <3>3 DEF Available
    <3>4. CASE hpc[d] = "add" /\ hsvc[d] = t /\ d = c
      <4>1. d \in Members(pool'[t])
            BY <2>4, <3>4 DEF s
      <4> QED
          BY <3>1, <4>1 DEF Available
    <3> QED
        BY <2>5, <3>2, <3>3, <3>4 DEF Available
  <2> QED
      BY <1>1, <2>1, <2>5, PromisedSame, AnsweredKept
<1>5. CASE HandlerReturns(c) \/ SessionDies(c)
  <2>1. /\ UNCHANGED <<link, toClient, pool>>
        /\ session[c] = "closed" \/ link[c] = "down"
        /\ \A d \in Conns : d # c =>
             hpc'[d] = hpc[d] /\ hsvc'[d] = hsvc[d] /\ session'[d] = session[d]
        BY <1>5 DEF HandlerReturns, SessionDies, TypeOK
  <2>2. ASSUME NEW d \in Conns, Owner[d] \in Workers, link'[d] = "up", Promised(d)'
        PROVE  link[d] = "up" /\ Promised(d) /\ (Available(d) => Available(d)')
    <3>1. link[d] = "up" /\ Promised(d)
          BY <1>1, <2>1, <2>2, PromisedSame
    <3>2. CASE d # c
          BY <2>1, <3>1, <3>2 DEF Available, Members
    <3>3. CASE d = c
          BY <2>1, <3>1, <3>3 DEF Available
    <3> QED
        BY <3>2, <3>3
  <2> QED
      BY <2>2, AnsweredKept
<1> QED
    BY <1>2, <1>3, <1>4, <1>5 DEF HandlerStep

(* What leaves a pool is closed.                                           *)
LEMMA VisitorAnswers ==
  ASSUME TInv, Answered, NEW v \in Visitors,
         VisitorStep(v) \/ VisitorArrives(v) \/ RelayEnds(v)
  PROVE  Answered'
<1> USE DEF TInv, netVars, serverVars, workerVars
<1> DEFINE s == VisitorService[v]
           p == pool[s]
<1>1. s \in Services /\ p \in Seq(Conns)
      BY DEF TypeOK
<1>2. UNCHANGED <<link, toClient, session, hpc, hsvc, wpc, wconn>>
      BY DEF VisitorStep, VisitorArrives, RelayEnds, Pick, PickNone, Open, OpenFails,
             StreamAccepted
<1>3. ASSUME NEW q, pool' = [pool EXCEPT ![s] = q],
             \A d \in Members(p) : d \in Members(q) \/ session[d] # "open"
      PROVE  Answered'
  <2>1. pool'[s] = q /\ \A t \in Services : t # s => pool'[t] = pool[t]
        BY <1>1, <1>3 DEF TypeOK
  <2>2. ASSUME NEW d \in Conns, Available(d)
        PROVE  Available(d)'
    <3> DEFINE t == WorkerService[Owner[d]]
    <3>1. t \in Services /\ session[d] = "open"
          BY <2>2 DEF Available
    <3>2. d \in Members(pool[t]) => d \in Members(pool'[t])
      <4>1. CASE t = s
            BY <1>3, <2>1, <3>1, <4>1
      <4>2. CASE t # s
            BY <2>1, <3>1, <4>2
      <4> QED
          BY <4>1, <4>2
    <3> QED
        BY <1>2, <2>2, <3>1, <3>2 DEF Available
  <2> QED
      BY <1>2, <2>2, PromisedSame, AnsweredKept
<1>4. ASSUME UNCHANGED pool PROVE Answered'
      BY <1>2, <1>4, PromisedSame, AvailableSame, AnsweredKept
<1>5. ASSUME NEW k \in 1..Len(p), Pick(v, k) PROVE Answered'
  <2>1. FirstLive(p, Closed, k) /\ pool' = [pool EXCEPT ![s] = Rotated(p, k)]
        BY <1>5 DEF Pick
  <2>2. \A d \in Members(p) : d \in Members(Rotated(p, k)) \/ session[d] # "open"
        BY <1>1, <2>1, RotatedMembers DEF Closed
  <2> QED
      BY <1>3, <2>1, <2>2
<1>6. CASE PickNone(v)
  <2>1. NoneLive(p, Closed) /\ pool' = [pool EXCEPT ![s] = <<>>]
        BY <1>6 DEF PickNone
  <2>2. \A d \in Members(p) : session[d] # "open"
        BY <2>1 DEF NoneLive, Members, Closed
  <2> QED
      BY <1>3, <2>1, <2>2
<1>7. CASE OpenFails(v)
  <2>1. ASSUME session[vconn[v]] # "open", NEW q, Removed(p, vconn[v], q),
               pool' = [pool EXCEPT ![s] = q]
        PROVE  Answered'
    <3>1. \A d \in Members(p) : d \in Members(q) \/ d = vconn[v]
          BY <1>1, <2>1, RemovedProperties
    <3> QED
        BY <1>3, <2>1, <3>1
  <2> QED
      BY <1>4, <1>7, <2>1 DEF OpenFails
<1>8. CASE \/ VisitorArrives(v) \/ RelayEnds(v) \/ Open(v)
           \/ \E w \in Workers : StreamAccepted(v, w)
      BY <1>4, <1>8 DEF VisitorArrives, RelayEnds, Open, StreamAccepted
<1> QED
    BY <1>5, <1>6, <1>7, <1>8 DEF VisitorStep

LEMMA OutsideAnswers ==
  ASSUME TInv, Answered,
         \/ ServerRestarts
         \/ \E c \in Conns :
              IdlerConnects(c) \/ IdlerSpeaks(c) \/ IdlerLeaves(c) \/ LinkBreaks(c)
  PROVE  Answered'
<1> USE DEF TInv, netVars, serverVars, workerVars, visitorVars
<1>1. ASSUME NEW c \in Conns, IdlerConnects(c) PROVE Answered'
  <2>1. Owner[c] \notin Workers /\ UNCHANGED <<wpc, wconn>> /\ Connect(c, <<>>)
        BY <1>1 DEF IdlerConnects
  <2> QED
      BY <2>1, ConnectAnswers
<1>2. ASSUME NEW c \in Conns, IdlerSpeaks(c) PROVE Answered'
  <2>1. UNCHANGED <<link, toClient, session, pool, hpc, hsvc, wpc, wconn>>
        BY <1>2 DEF IdlerSpeaks
  <2> QED
      BY <2>1, PromisedSame, AvailableSame, AnsweredKept
<1>3. ASSUME NEW c \in Conns, IdlerLeaves(c) \/ LinkBreaks(c) PROVE Answered'
  <2>1. /\ UNCHANGED <<session, pool, hpc, hsvc, wpc, wconn>>
        /\ link'[c] = "down"
        /\ \A d \in Conns : d # c => link'[d] = link[d] /\ toClient'[d] = toClient[d]
        BY <1>3 DEF IdlerLeaves, LinkBreaks, Down, TypeOK
  <2>2. ASSUME NEW d \in Conns, Owner[d] \in Workers, link'[d] = "up", Promised(d)'
        PROVE  link[d] = "up" /\ Promised(d) /\ (Available(d) => Available(d)')
        BY <2>1, <2>2, PromisedSame, AvailableSame
  <2> QED
      BY <2>2, AnsweredKept
<1>4. CASE ServerRestarts
      BY <1>4 DEF ServerRestarts, Answered
<1> QED
    BY <1>1, <1>2, <1>3, <1>4

-----------------------------------------------------------------------------
LEMMA LInvInit == Init => LInv
<1> SUFFICES ASSUME Init PROVE LInv
    OBVIOUS
<1>1. Links /\ Waiting /\ Answered
      BY EmptySeq DEF Init, Links, Waiting, Answered
<1> QED
    BY <1>1, AInvInit DEF LInv

LEMMA LInvStep == LInv /\ [Next]_vars => LInv'
<1> SUFFICES ASSUME LInv, [Next]_vars PROVE LInv'
    OBVIOUS
<1>1. CASE Next
  <2>1. TInv /\ AInv'
        BY AInvStep DEF LInv, AInv
  <2>2. Answered'
        BY <1>1, <2>1, WorkerAnswers, AcceptLoopAnswers, HandlerAnswers, VisitorAnswers,
           OutsideAnswers DEF LInv, Next, Environment
  <2> QED
      BY <1>1, <2>1, <2>2, LinksStep, WaitingStep DEF LInv
<1>2. CASE UNCHANGED vars
  <2>1. AInv' /\ TInv
        BY <1>2, AInvStep DEF LInv, AInv
  <2>2. Links' /\ Waiting'
        BY <1>2 DEF vars, LInv, Links, Waiting
  <2>3. Answered'
        BY <1>2, PromisedSame, AvailableSame, AnsweredKept DEF vars, LInv
  <2> QED
      BY <2>1, <2>2, <2>3 DEF LInv
<1> QED
    BY <1>1, <1>2

LEMMA LInvAlways == Spec => []LInv
BY LInvInit, LInvStep, PTL DEF Spec

(* Every way out of runTCPSession and authenticate closes the connection:  *)
(* the worker never dials while an older one of its own works.             *)
THEOREM WorkersHaveOneLink == Spec => []OneLinkEach
<1>1. LInv => OneLinkEach
      BY DEF LInv, Links, OneLinkEach
<1> QED
    BY <1>1, LInvAlways, PTL

(* From the answer that handleClientConn writes before pool.add() to the   *)
(* end of the link, no pick(), remove(), restart or reconnection of        *)
(* another client takes a connected client out of its pool.                *)
THEOREM ConnectedMeansAvailable == Spec => []ClientsAreAvailable
<1>1. LInv => ClientsAreAvailable
  <2> SUFFICES ASSUME LInv, NEW w \in Workers, wpc[w] = "session", link[wconn[w]] = "up"
               PROVE  /\ session[wconn[w]] = "open"
                      /\ \/ wconn[w] \in Members(pool[WorkerService[w]])
                         \/ hpc[wconn[w]] = "add" /\ hsvc[wconn[w]] = WorkerService[w]
      BY DEF ClientsAreAvailable
  <2>1. wconn[w] \in Conns /\ Owner[wconn[w]] = w
        BY DEF LInv, AInv, TInv, OwnConnection
  <2>2. Available(wconn[w])
        BY <2>1 DEF LInv, Answered, Promised
  <2> QED
      BY <2>1, <2>2 DEF Available
<1> QED
    BY <1>1, LInvAlways, PTL

-----------------------------------------------------------------------------
(* The refinement.                                                         *)

(* A connection that waits for the accept loop, its upgrade or its pool.   *)
Pending(c) ==
  c \in Members(backlog) \/ c = accepting \/ hpc[c] \in {"auth", "add"}

Unlisted(c) ==
  /\ \A s \in Services : c \notin Members(pool[s])
  /\ \A v \in Visitors : vconn[v] # c

(* The session of such a connection is a new one to the pools: its         *)
(* identifier was free when it was dialled, and nobody can have picked it  *)
(* up since.                                                               *)
NewToPools == \A c \in Conns : Pending(c) => Unlisted(c)

LEMMA NewKept ==
  ASSUME NewToPools,
         \A c \in Conns : Pending(c)' => Pending(c),
         \A c \in Conns : Pending(c) /\ Unlisted(c) => Unlisted(c)'
  PROVE  NewToPools'
BY DEF NewToPools

LEMMA UnlistedSame ==
  ASSUME UNCHANGED <<pool, vconn>>, NEW c \in Conns
  PROVE  Unlisted(c)' = Unlisted(c)
BY DEF Unlisted, Members

LEMMA PendingSame ==
  ASSUME UNCHANGED <<backlog, accepting, hpc>>, NEW c \in Conns
  PROVE  Pending(c)' = Pending(c)
BY DEF Pending, Members

LEMMA ConnectIsNew ==
  ASSUME TInv, NewToPools, NEW c \in Conns, NEW hello, Connect(c, hello), UNCHANGED vconn
  PROVE  NewToPools'
<1>1. UNCHANGED <<pool, accepting, hpc>> /\ backlog' = Append(backlog, c)
      BY DEF Connect
<1>2. Unlisted(c)
      BY DEF Connect, Free, Unlisted
<1>3. \A d \in Members(backlog') : d \in Members(backlog) \/ d = c
      BY <1>1, AddedMembers DEF TInv, TypeOK, Added
<1>4. \A d \in Conns : Pending(d)' => Pending(d) \/ d = c
      BY <1>1, <1>3 DEF Pending
<1> QED
    BY <1>1, <1>2, <1>4, UnlistedSame DEF NewToPools

LEMMA AcceptLoopIsNew ==
  ASSUME TInv, NewToPools, AcceptLoop
  PROVE  NewToPools'
<1> USE DEF TInv, netVars, serverVars, workerVars, visitorVars
<1>1. UNCHANGED <<pool, vconn>>
      BY DEF AcceptLoop, Accept, AcceptAndUpgrade, UpgradeDone, UpgradeFails
<1>2. ASSUME backlog # <<>>
      PROVE  /\ Head(backlog) \in Conns /\ Head(backlog) \in Members(backlog)
             /\ Members(Tail(backlog)) \subseteq Members(backlog)
  <2>1. backlog \in Seq(Conns)
        BY DEF TypeOK
  <2> QED
      BY <1>2, <2>1 DEF Members
<1>3. ASSUME NEW c \in Conns, Pending(c)' PROVE Pending(c)
  <2>1. CASE Accept
    <3>1. \A d \in Conns : d # Head(backlog) => hpc'[d] = hpc[d]
          BY <1>2, <2>1 DEF Accept, TypeOK
    <3> QED
        BY <1>2, <1>3, <2>1, <3>1 DEF Accept, Pending
  <2>2. CASE AcceptAndUpgrade
        BY <1>2, <1>3, <2>2 DEF AcceptAndUpgrade, Pending
  <2>3. CASE UpgradeDone
    <3>1. \A d \in Conns : d # accepting => hpc'[d] = hpc[d]
          BY <2>3 DEF UpgradeDone, TypeOK
    <3>2. accepting' = None /\ backlog' = backlog
          BY <2>3 DEF UpgradeDone
    <3> QED
        BY <1>3, <3>1, <3>2 DEF Pending
  <2>4. CASE UpgradeFails
        BY <1>3, <2>4 DEF UpgradeFails, Pending
  <2> QED
      BY <2>1, <2>2, <2>3, <2>4 DEF AcceptLoop
<1> QED
    BY <1>1, <1>3, UnlistedSame, NewKept

LEMMA HandlerIsNew ==
  ASSUME TInv, Waiting, NewToPools, NEW c \in Conns, HandlerStep(c) \/ SessionDies(c)
  PROVE  NewToPools'
<1> USE DEF TInv, netVars, serverVars, workerVars, visitorVars
<1>1. CASE NoAuth(c) \/ AuthFails(c) \/ AuthSucceeds(c) \/ HandlerReturns(c) \/ SessionDies(c)
  <2>1. /\ UNCHANGED <<pool, vconn, backlog, accepting>>
        /\ \A d \in Conns : d # c => hpc'[d] = hpc[d]
        /\ hpc'[c] \in {"auth", "add"} => hpc[c] \in {"auth", "add"}
        BY <1>1 DEF NoAuth, AuthFails, AuthSucceeds, HandlerCloses, HandlerReturns,
                    SessionDies, TypeOK
  <2>2. \A d \in Conns : Pending(d)' => Pending(d)
        BY <2>1 DEF Pending
  <2> QED
      BY <2>1, <2>2, UnlistedSame, NewKept
<1>2. CASE AddSession(c)
  <2>1. /\ hpc[c] = "add" /\ hpc'[c] = "serving" /\ hsvc[c] \in Services
        /\ UNCHANGED <<vconn, backlog, accepting>>
        /\ \A d \in Conns : d # c => hpc'[d] = hpc[d]
        /\ \A t \in Services : t # hsvc[c] => pool'[t] = pool[t]
        /\ pool'[hsvc[c]] = Added(pool[hsvc[c]], c)
        BY <1>2 DEF AddSession, HandlersHaveService, TypeOK
  <2>2. Members(Added(pool[hsvc[c]], c)) = Members(pool[hsvc[c]]) \cup {c}
        BY <2>1, AddedMembers DEF TypeOK
  <2>3. ~Pending(c)'
        BY <2>1 DEF Waiting, Pending, Members
  <2>4. \A d \in Conns : Pending(d)' => Pending(d) /\ d # c
        BY <2>1, <2>3 DEF Pending
  <2>5. ASSUME NEW d \in Conns, d # c, Unlisted(d) PROVE Unlisted(d)'
    <3>1. ASSUME NEW t \in Services PROVE d \notin Members(pool'[t])
      <4>1. CASE t = hsvc[c]
            BY <2>1, <2>2, <2>5, <4>1 DEF Unlisted
      <4>2. CASE t # hsvc[c]
            BY <2>1, <2>5, <4>2 DEF Unlisted
      <4> QED
          BY <4>1, <4>2
    <3>2. \A v \in Visitors : vconn'[v] # d
          BY <2>1, <2>5 DEF Unlisted
    <3> QED
        BY <3>1, <3>2 DEF Unlisted, Members
  <2> QED
      BY <2>4, <2>5 DEF NewToPools
<1> QED
    BY <1>1, <1>2 DEF HandlerStep

(* What visitors do to a pool and to what they hold.                       *)
LEMMA VisitorIsNew ==
  ASSUME TInv, NewToPools, NEW v \in Visitors,
         VisitorStep(v) \/ VisitorArrives(v) \/ RelayEnds(v)
  PROVE  NewToPools'
<1> USE DEF TInv, netVars, serverVars, workerVars
<1> DEFINE s == VisitorService[v]
           p == pool[s]
<1>1. s \in Services /\ p \in Seq(Conns)
      BY DEF TypeOK
<1>2. UNCHANGED <<backlog, accepting, hpc>>
      BY DEF VisitorStep, VisitorArrives, RelayEnds, Pick, PickNone, Open, OpenFails,
             StreamAccepted
<1>3. ASSUME NEW q, pool' = [pool EXCEPT ![s] = q], Members(q) \subseteq Members(p),
             NEW c, vconn' = [vconn EXCEPT ![v] = c], c \in Members(p) \cup {vconn[v], None}
      PROVE  NewToPools'
  <2>1. ASSUME NEW d \in Conns, Unlisted(d) PROVE Unlisted(d)'
    <3>1. \A t \in Services : d \notin Members(pool'[t])
          BY <1>1, <1>3, <2>1 DEF Unlisted, TypeOK
    <3>2. c # d
          BY <1>1, <1>3, <2>1 DEF Unlisted
    <3>3. \A x \in Visitors : vconn'[x] # d
          BY <1>3, <2>1, <3>2 DEF Unlisted, TypeOK
    <3> QED
        BY <3>1, <3>3 DEF Unlisted, Members
  <2> QED
      BY <1>2, <2>1, PendingSame, NewKept
<1>4. vconn = [vconn EXCEPT ![v] = vconn[v]] /\ pool = [pool EXCEPT ![s] = p]
      BY <1>1 DEF TypeOK
<1>5. ASSUME NEW k \in 1..Len(p), Pick(v, k) PROVE NewToPools'
  <2>1. /\ FirstLive(p, Closed, k) /\ pool' = [pool EXCEPT ![s] = Rotated(p, k)]
        /\ vconn' = [vconn EXCEPT ![v] = p[k]]
        BY <1>5 DEF Pick
  <2>2. Members(Rotated(p, k)) \subseteq Members(p)
        BY <1>1, <2>1, RotatedMembers
  <2>3. p[k] \in Members(p)
        BY DEF Members
  <2> QED
      BY <1>3, <2>1, <2>2, <2>3
<1>6. CASE PickNone(v)
  <2>1. Members(<<>>) \subseteq Members(p)
        BY DEF Members
  <2> QED
      BY <1>3, <1>4, <1>6, <2>1 DEF PickNone
<1>7. CASE OpenFails(v)
  <2>1. vconn' = [vconn EXCEPT ![v] = None]
        BY <1>7 DEF OpenFails
  <2>2. ASSUME NEW q, Removed(p, vconn[v], q), pool' = [pool EXCEPT ![s] = q]
        PROVE  NewToPools'
    <3>1. Members(q) \subseteq Members(p)
          BY <1>1, <2>2, RemovedProperties
    <3> QED
        BY <1>3, <2>1, <2>2, <3>1
  <2>3. CASE pool' = pool
        BY <1>3, <1>4, <2>1, <2>3
  <2> QED
      BY <1>7, <2>2, <2>3 DEF OpenFails
<1>8. CASE VisitorArrives(v) \/ Open(v) \/ \E w \in Workers : StreamAccepted(v, w)
  <2>1. UNCHANGED <<pool, vconn>>
        BY <1>8 DEF VisitorArrives, Open, StreamAccepted
  <2> QED
      BY <1>2, <2>1, PendingSame, UnlistedSame, NewKept
<1>9. CASE RelayEnds(v)
      BY <1>3, <1>4, <1>9 DEF RelayEnds
<1> QED
    BY <1>5, <1>6, <1>7, <1>8, <1>9 DEF VisitorStep

LEMMA NewStep ==
  ASSUME TInv, Waiting, NewToPools, [Next]_vars
  PROVE  NewToPools'
<1> USE DEF netVars, serverVars, workerVars, visitorVars
<1>1. ASSUME UNCHANGED <<pool, vconn, backlog, accepting, hpc>> PROVE NewToPools'
      BY <1>1, PendingSame, UnlistedSame, NewKept
<1>2. ASSUME NEW w \in Workers, WorkerStep(w) PROVE NewToPools'
  <2>1. ASSUME NEW c \in Conns, Dial(w, c) PROVE NewToPools'
        BY <2>1, ConnectIsNew DEF Dial
  <2>2. CASE ClientUpgrade(w) \/ Authenticate(w) \/ Welcome(w)
        BY <1>1, <2>2 DEF ClientUpgrade, Authenticate, Welcome
  <2>3. CASE NoToken(w) \/ Rejected(w) \/ LosesConnection(w)
        BY <1>1, <2>3 DEF NoToken, Rejected, LosesConnection, ClientGivesUp
  <2> QED
      BY <1>2, <2>1, <2>2, <2>3 DEF WorkerStep
<1>3. ASSUME NEW c \in Conns, IdlerConnects(c) PROVE NewToPools'
      BY <1>3, ConnectIsNew DEF IdlerConnects
<1>4. ASSUME NEW c \in Conns, IdlerSpeaks(c) \/ IdlerLeaves(c) \/ LinkBreaks(c)
      PROVE  NewToPools'
      BY <1>1, <1>4 DEF IdlerSpeaks, IdlerLeaves, LinkBreaks
<1>5. CASE ServerRestarts
      BY <1>5
      DEF ServerRestarts, NewToPools, Pending, Unlisted, Members
<1>6. CASE UNCHANGED vars
      BY <1>1, <1>6 DEF vars
<1> QED
    BY <1>2, <1>3, <1>4, <1>5, <1>6, AcceptLoopIsNew, HandlerIsNew, VisitorIsNew
    DEF Next, Environment

LEMMA PoolInv == Spec => [](LInv /\ NewToPools)
<1>1. Init => NewToPools
      BY DEF Init, NewToPools, Unlisted, Members
<1>2. LInv /\ NewToPools /\ [Next]_vars => NewToPools'
      BY NewStep DEF LInv, AInv
<1> QED
    BY LInvAlways, <1>1, <1>2, PTL DEF Spec

(* From what a step of the tunnel does to pool, sessions and visitors to   *)
(* the step of a SessionPool.                                              *)
LEMMA HeldSame ==
  ASSUME NEW s \in Services,
         \A v \in Visitors :
           VisitorService[v] = s =>
             /\ vpc'[v] = "picked" <=> vpc[v] = "picked"
             /\ vpc[v] = "picked" => vconn'[v] = vconn[v]
  PROVE  Held(s)' = Held(s)
BY DEF Held

LEMMA PoolStutters ==
  ASSUME NEW s \in Services, pool'[s] = pool[s], Held(s)' = Held(s), UNCHANGED session
  PROVE  [P(s)!Next]_(P(s)!vars)
<1>1. Closed' = Closed
      BY DEF Closed
<1> QED
    BY <1>1 DEF P!vars

(* Sessions close; one that opens is known to no pool and no visitor.      *)
LEMMA PoolSessionsChange ==
  ASSUME NEW s \in Services, UNCHANGED <<pool, vpc, vconn>>,
         \A c \in Conns : session[c] # "open" /\ session'[c] = "open" => Unlisted(c)
  PROVE  [P(s)!Next]_(P(s)!vars)
<1>1. pool'[s] = pool[s] /\ Held(s)' = Held(s)
      BY HeldSame
<1>2. Closed' \subseteq Conns
      BY DEF Closed
<1>3. ASSUME NEW c \in Closed \cap P(s)!Referenced PROVE c \in Closed'
  <2>1. c \in Conns /\ session[c] # "open"
        BY DEF Closed
  <2>2. c \in Members(pool[s]) \/ \E v \in Visitors : c = Held(s)[v]
        BY DEF P!Referenced, P!Members, Members
  <2>3. ~Unlisted(c)
        BY <2>1, <2>2 DEF Unlisted, Held
  <2> QED
      BY <2>1, <2>3 DEF Closed
<1>4. P(s)!SessionsChange
      BY <1>1, <1>2, <1>3 DEF P!SessionsChange
<1> QED
    BY <1>4 DEF P!Next

LEMMA HandlerIsPoolStep ==
  ASSUME TInv, NewToPools, NEW c \in Conns, HandlerStep(c) \/ SessionDies(c),
         NEW s \in Services
  PROVE  [P(s)!Next]_(P(s)!vars)
<1> USE DEF TInv, netVars, serverVars, workerVars, visitorVars
<1>1. CASE NoAuth(c) \/ AuthFails(c) \/ AuthSucceeds(c) \/ HandlerReturns(c) \/ SessionDies(c)
  <2>1. UNCHANGED <<pool, vpc, vconn>>
        BY <1>1 DEF NoAuth, AuthFails, AuthSucceeds, HandlerCloses, HandlerReturns, SessionDies
  <2>2. \A d \in Conns : session[d] # "open" /\ session'[d] = "open" =>
          d = c /\ hpc[c] = "auth"
        BY <1>1 DEF NoAuth, AuthFails, AuthSucceeds, HandlerCloses, HandlerReturns,
                    SessionDies, TypeOK
  <2>3. \A d \in Conns : session[d] # "open" /\ session'[d] = "open" => Unlisted(d)
        BY <2>2 DEF NewToPools, Pending
  <2> QED
      BY <2>1, <2>3, PoolSessionsChange
<1>2. CASE AddSession(c)
  <2>1. /\ hpc[c] = "add" /\ hsvc[c] \in Services
        /\ UNCHANGED <<session, vpc, vconn>>
        /\ \A t \in Services : t # hsvc[c] => pool'[t] = pool[t]
        /\ pool'[hsvc[c]] = Added(pool[hsvc[c]], c)
        BY <1>2 DEF AddSession, HandlersHaveService, TypeOK
  <2>2. Held(s)' = Held(s) /\ Closed' = Closed
        BY <2>1, HeldSame DEF Closed
  <2>3. CASE s # hsvc[c]
        BY <2>1, <2>2, <2>3, PoolStutters
  <2>4. CASE s = hsvc[c]
    <3>1. Unlisted(c)
          BY <2>1 DEF NewToPools, Pending
    <3>2. c \notin Members(pool[s]) /\ \A v \in Visitors : Held(s)[v] # c
          BY <3>1 DEF Unlisted, Held
    <3>3. c \notin P(s)!Referenced
          BY <3>2 DEF P!Referenced, P!Members, Members
    <3>4. pool'[s] = P(s)!Added(pool[s], c)
          BY <2>1, <2>4 DEF Added, P!Added
    <3>5. P(s)!Add(c)
          BY <2>2, <3>3, <3>4 DEF P!Add
    <3> QED
        BY <3>5 DEF P!Next
  <2> QED
      BY <2>3, <2>4
<1> QED
    BY <1>1, <1>2 DEF HandlerStep

LEMMA VisitorIsPoolStep ==
  ASSUME TInv, NEW v \in Visitors, VisitorStep(v) \/ VisitorArrives(v) \/ RelayEnds(v),
         NEW t \in Services
  PROVE  [P(t)!Next]_(P(t)!vars)
<1> USE DEF TInv, netVars, serverVars, workerVars
<1> DEFINE s == VisitorService[v]
           p == pool[s]
<1>1. s \in Services /\ p \in Seq(Conns)
      BY DEF TypeOK
<1>2. UNCHANGED session /\ Closed' = Closed
  <2>1. UNCHANGED session
        BY DEF VisitorStep, VisitorArrives, RelayEnds, Pick, PickNone, Open, OpenFails,
               StreamAccepted
  <2> QED
      BY <2>1 DEF Closed
<1>3. \A x \in Visitors : x # v => vpc'[x] = vpc[x] /\ vconn'[x] = vconn[x]
      BY DEF VisitorStep, VisitorArrives, RelayEnds, Pick, PickNone, Open, OpenFails,
             StreamAccepted, TypeOK
<1>4. CASE t # s
  <2>1. pool'[t] = pool[t]
        BY <1>1, <1>4 DEF VisitorStep, VisitorArrives, RelayEnds, Pick, PickNone, Open,
                          OpenFails, StreamAccepted, TypeOK
  <2>2. Held(t)' = Held(t)
        BY <1>3, <1>4, HeldSame
  <2> QED
      BY <1>2, <2>1, <2>2, PoolStutters
<1>5. ASSUME t = s, vpc[v] # "picked", vpc'[v] # "picked" PROVE Held(t)' = Held(t)
      BY <1>3, <1>5, HeldSame
<1>6. ASSUME t = s, vpc[v] = "picked", vpc'[v] # "picked"
      PROVE  /\ Held(t)[v] = vconn[v] /\ vconn[v] # None
             /\ Held(t)' = [Held(t) EXCEPT ![v] = None]
  <2>1. vconn[v] \in Conns
        BY <1>6 DEF VisitorsHaveSession
  <2> QED
      BY <1>3, <1>6, <2>1 DEF Held
<1>7. ASSUME t = s, NEW k \in 1..Len(p), Pick(v, k) PROVE [P(t)!Next]_(P(t)!vars)
  <2>1. /\ vpc[v] = "arrived" /\ FirstLive(p, Closed, k)
        /\ pool'[s] = Rotated(p, k)
        /\ vpc'[v] = "picked" /\ vconn'[v] = p[k]
        BY <1>1, <1>7 DEF Pick, TypeOK
  <2>2. Held(t)[v] = None /\ Held(t)' = [Held(t) EXCEPT ![v] = p[k]]
        BY <1>3, <1>7, <2>1 DEF Held
  <2>3. P(t)!FirstLive(p, Closed, k) /\ pool'[t] = P(t)!Rotated(p, k)
        BY <1>7, <2>1 DEF FirstLive, Rotated, P!FirstLive, P!Rotated
  <2>4. P(t)!Pick(v, k)
        BY <1>2, <1>7, <2>2, <2>3 DEF P!Pick
  <2> QED
      BY <1>7, <2>4 DEF P!Next
<1>8. ASSUME t = s, PickNone(v) PROVE [P(t)!Next]_(P(t)!vars)
  <2>1. /\ vpc[v] = "arrived" /\ vpc'[v] = "away" /\ NoneLive(p, Closed)
        /\ pool'[t] = <<>>
        BY <1>1, <1>8 DEF PickNone, TypeOK
  <2>2. Held(t)[v] = None /\ Held(t)' = Held(t)
        BY <1>5, <1>8, <2>1 DEF Held
  <2>3. P(t)!PickNone(v)
        BY <1>2, <1>8, <2>1, <2>2 DEF P!PickNone, P!NoneLive, NoneLive
  <2> QED
      BY <2>3 DEF P!Next
<1>9. ASSUME t = s, Open(v) PROVE [P(t)!Next]_(P(t)!vars)
  <2>1. /\ vpc[v] = "picked" /\ vpc'[v] = "relay" /\ pool' = pool
        /\ vconn[v] \notin Closed
        BY <1>9 DEF Open, Closed, TypeOK
  <2>2. P(t)!Opened(v)
        BY <1>2, <1>6, <1>9, <2>1 DEF P!Opened
  <2> QED
      BY <2>2 DEF P!Next
<1>10. ASSUME t = s, OpenFails(v) PROVE [P(t)!Next]_(P(t)!vars)
  <2>1. /\ vpc[v] = "picked" /\ vpc'[v] = "away" /\ vconn[v] \in Conns
        /\ \/ session[vconn[v]] # "open" /\ Removed(p, vconn[v], pool'[t])
           \/ session[vconn[v]] = "open" /\ pool' = pool
        BY <1>1, <1>10 DEF OpenFails, VisitorsHaveSession, TypeOK
  <2>2. \/ vconn[v] \in Closed /\ P(t)!Removed(pool[t], vconn[v], pool'[t])
        \/ vconn[v] \notin Closed /\ pool'[t] = pool[t]
        BY <1>10, <2>1 DEF Closed, Removed, FirstAt, Without, Members,
                           P!Removed, P!FirstAt, P!Without, P!Members
  <2>3. P(t)!OpenFailed(v)
        BY <1>2, <1>6, <1>10, <2>1, <2>2 DEF P!OpenFailed
  <2> QED
      BY <2>3 DEF P!Next
<1>11. ASSUME t = s,
              \/ VisitorArrives(v) \/ RelayEnds(v)
              \/ \E w \in Workers : StreamAccepted(v, w)
       PROVE  [P(t)!Next]_(P(t)!vars)
  <2>1. pool' = pool /\ vpc[v] # "picked" /\ vpc'[v] # "picked"
        BY <1>11 DEF VisitorArrives, RelayEnds, StreamAccepted, TypeOK
  <2> QED
      BY <1>2, <1>5, <1>11, <2>1, PoolStutters
<1> QED
    BY <1>4, <1>7, <1>8, <1>9, <1>10, <1>11 DEF VisitorStep

LEMMA StepIsPoolStep ==
  ASSUME TInv, NewToPools, [Next]_vars, NEW s \in Services
  PROVE  [P(s)!Next]_(P(s)!vars)
<1> USE DEF netVars, serverVars, workerVars, visitorVars
<1>1. ASSUME UNCHANGED <<pool, session, vpc, vconn>> PROVE [P(s)!Next]_(P(s)!vars)
      BY <1>1, HeldSame, PoolStutters
<1>2. ASSUME NEW c \in Conns, NEW hello, Connect(c, hello), UNCHANGED <<vpc, vconn>>
      PROVE  [P(s)!Next]_(P(s)!vars)
  <2>1. pool' = pool /\ \A d \in Conns : session'[d] = "open" => session[d] = "open"
        BY <1>2 DEF Connect, TInv, TypeOK
  <2> QED
      BY <1>2, <2>1, PoolSessionsChange
<1>3. ASSUME NEW w \in Workers, WorkerStep(w) PROVE [P(s)!Next]_(P(s)!vars)
  <2>1. ASSUME NEW c \in Conns, Dial(w, c) PROVE [P(s)!Next]_(P(s)!vars)
        BY <1>2, <2>1 DEF Dial
  <2>2. CASE ClientUpgrade(w) \/ Authenticate(w) \/ Welcome(w)
        BY <1>1, <2>2 DEF ClientUpgrade, Authenticate, Welcome
  <2>3. CASE NoToken(w) \/ Rejected(w) \/ LosesConnection(w)
        BY <1>1, <2>3 DEF NoToken, Rejected, LosesConnection, ClientGivesUp
  <2> QED
      BY <1>3, <2>1, <2>2, <2>3 DEF WorkerStep
<1>4. CASE AcceptLoop
      BY <1>1, <1>4 DEF AcceptLoop, Accept, AcceptAndUpgrade, UpgradeDone, UpgradeFails
<1>5. ASSUME NEW c \in Conns, IdlerConnects(c) PROVE [P(s)!Next]_(P(s)!vars)
      BY <1>2, <1>5 DEF IdlerConnects
<1>6. ASSUME NEW c \in Conns, IdlerSpeaks(c) \/ IdlerLeaves(c) \/ LinkBreaks(c)
      PROVE  [P(s)!Next]_(P(s)!vars)
      BY <1>1, <1>6 DEF IdlerSpeaks, IdlerLeaves, LinkBreaks
<1>7. CASE ServerRestarts
  <2>1. pool'[s] = <<>> /\ Closed' = Conns /\ Held(s)' = [v \in Visitors |-> None]
        BY <1>7 DEF ServerRestarts, Closed, Held
  <2>2. P(s)!Restart
        BY <2>1 DEF P!Restart
  <2> QED
      BY <2>2 DEF P!Next
<1>8. CASE UNCHANGED vars
      BY <1>1, <1>8 DEF vars
<1> QED
    BY <1>3, <1>4, <1>5, <1>6, <1>7, <1>8, HandlerIsPoolStep, VisitorIsPoolStep
    DEF Next, Environment

(* The pools of all services, between handlers, visitors, failures and     *)
(* restarts, each do what SessionPool allows and nothing else, so that     *)
(* what is proved of one pool (FairPoolProofs) holds of every pool.        *)
THEOREM EveryPoolIsASessionPool == Spec => PoolsAreSessionPools
<1>1. Init => \A s \in Services : P(s)!Init
      BY DEF Init, P!Init, Held, Closed
<1>2. LInv /\ NewToPools /\ [Next]_vars => [\A s \in Services : [P(s)!Next]_(P(s)!vars)]_vars
      BY StepIsPoolStep DEF LInv, AInv
<1> QED
    BY PoolInv, <1>1, <1>2, PTL DEF Spec, PoolsAreSessionPools
=============================================================================
