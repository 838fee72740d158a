-------------------------- MODULE UdpForwardProofs --------------------------
(***************************************************************************)
(* UdpForward keeps its types and abandons no session, for any number of   *)
(* workers, visitors, sessions and failures.  A connection is up only      *)
(* between Connects and Returns of the worker that owns it, because every  *)
(* way out of runUDPSession closes it; a worker remembers no session       *)
(* exactly while it connects, so it cannot have two.                       *)
(***************************************************************************)
EXTENDS UdpForward, PoolOpsProofs

USE UdpAssumption DEF UdpAssumption

(* sess is set between pick() and the end of ServerUDP.                    *)
RunnerHasSession == runner \in {"open", "serve"} => rsess \in Sessions

(* A worker that has connected has a session of its own, and no goroutine  *)
(* of an earlier one runs.                                                 *)
WorkerHasSession ==
  \A w \in Workers :
    IF wpc[w] = "connect"
      THEN wsess[w] = None /\ ~receiving[w]
      ELSE wsess[w] \in Sessions /\ Owner[wsess[w]] = w

UInv == TypeOK /\ RunnerHasSession /\ WorkerHasSession /\ NoSessionAbandoned

-----------------------------------------------------------------------------
LEMMA UInit == Init => UInv
BY EmptySeq DEF Init, UInv, TypeOK, RunnerHasSession, WorkerHasSession, NoSessionAbandoned

LEMMA FrameType ==
  ASSUME NEW key \in Visitors \cup {NoAddr}, NEW v \in Visitors
  PROVE  Frame(key, v) \in Frames
BY DEF Frame, Frames

(* A queue of frames per session, extended or shortened.                   *)
LEMMA QueueTypes ==
  ASSUME NEW Q, NEW I, NEW queue \in [I -> Seq(Q)], NEW i \in I
  PROVE  /\ \A m \in Q : [queue EXCEPT ![i] = Append(@, m)] \in [I -> Seq(Q)]
         /\ queue[i] # <<>> =>
              /\ Head(queue[i]) \in Q
              /\ [queue EXCEPT ![i] = Tail(@)] \in [I -> Seq(Q)]
<1>1. \A m \in Q : Append(queue[i], m) \in Seq(Q)
      BY AppendProperties
<1>2. queue[i] # <<>> => Head(queue[i]) \in Q /\ Tail(queue[i]) \in Seq(Q)
      BY HeadTailProperties
<1> QED
    BY <1>1, <1>2

(* What links and workers do not touch.                                    *)
LEMMA RestKept ==
  ASSUME UInv, UNCHANGED <<link, wpc, wsess, receiving>>
  PROVE  WorkerHasSession' /\ NoSessionAbandoned'
BY DEF UInv, WorkerHasSession, NoSessionAbandoned

(* Links may only go down.                                                 *)
LEMMA LinksKept ==
  ASSUME UInv, UNCHANGED <<wpc, wsess, receiving>>,
         \A s \in Sessions : link'[s] = "up" => link[s] = "up"
  PROVE  WorkerHasSession' /\ NoSessionAbandoned'
BY DEF UInv, WorkerHasSession, NoSessionAbandoned

-----------------------------------------------------------------------------
LEMMA RunnerStep ==
  ASSUME UInv, Runner \/ BindFails
  PROVE  UInv'
<1> USE DEF UInv, linkVars, runnerVars, workerVars, countVars
<1>1. ASSUME NEW k \in 1..Len(pool), PickSession(k) PROVE UInv'
  <2>1. Rotated(pool, k) \in Seq(Sessions) /\ pool[k] \in Sessions
        BY RotatedProperties, ElementOfSeq DEF TypeOK
  <2>2. TypeOK' /\ RunnerHasSession'
        BY <1>1, <2>1 DEF TypeOK, RunnerHasSession, PickSession
  <2> QED
      BY <1>1, <2>2, RestKept DEF PickSession
<1>2. CASE PickNil
  <2>1. TypeOK' /\ RunnerHasSession'
        BY <1>2, EmptySeq DEF TypeOK, RunnerHasSession, PickNil
  <2> QED
      BY <1>2, <2>1, RestKept DEF PickNil
<1>3. ASSUME NEW s \in Sessions, OpenOneMore(s) PROVE opened' \in [Sessions -> 0..2]
  <2>1. opened \in [Sessions -> 0..2] /\ opened[s] \in 0..2
        BY DEF TypeOK
  <2>2. (IF opened[s] = 2 THEN 2 ELSE opened[s] + 1) \in 0..2
        BY <2>1
  <2>3. opened' = [opened EXCEPT ![s] = IF opened[s] = 2 THEN 2 ELSE opened[s] + 1]
        BY <1>3, <2>1 DEF OpenOneMore
  <2> QED
      BY <2>1, <2>2, <2>3
<1>4. CASE Serve
  <2>1. TypeOK' /\ RunnerHasSession'
        BY <1>3, <1>4 DEF TypeOK, RunnerHasSession, Serve
  <2> QED
      BY <1>4, <2>1, RestKept DEF Serve
<1>5. CASE BindFails
  <2>1. TypeOK' /\ RunnerHasSession'
        BY <1>3, <1>5 DEF TypeOK, RunnerHasSession, BindFails
  <2> QED
      BY <1>5, <2>1, RestKept DEF BindFails
<1>6. CASE OpenFails \/ ServeEnds
  <2>1. TypeOK' /\ RunnerHasSession'
        BY <1>6 DEF TypeOK, RunnerHasSession, OpenFails, ServeEnds
  <2> QED
      BY <1>6, <2>1, RestKept DEF OpenFails, ServeEnds
<1> QED
    BY <1>1, <1>2, <1>4, <1>5, <1>6 DEF Runner

LEMMA DatagramStep ==
  ASSUME UInv, NEW u \in Visitors, Datagram(u) \/ Expire(u)
  PROVE  UInv'
<1> USE DEF UInv, linkVars, runnerVars, workerVars, countVars
<1>1. CASE Datagram(u)
  <2>1. rsess \in Sessions
        BY <1>1 DEF Datagram, RunnerHasSession
  <2>2. [toClient EXCEPT ![rsess] = Append(@, Frame(u, u))] \in [Sessions -> Seq(Frames)]
        BY <2>1, FrameType, QueueTypes DEF TypeOK
  <2>3. toClient' \in [Sessions -> Seq(Frames)]
        BY <1>1, <2>2 DEF Datagram, TypeOK
  <2>4. sent' \in 0..MaxSent /\ table' \subseteq Visitors
        BY <1>1 DEF Datagram, TypeOK
  <2>5. TypeOK' /\ RunnerHasSession'
        BY <1>1, <2>3, <2>4 DEF Datagram, TypeOK, RunnerHasSession
  <2> QED
      BY <1>1, <2>5, RestKept DEF Datagram
<1>2. CASE Expire(u)
  <2>1. TypeOK' /\ RunnerHasSession'
        BY <1>2 DEF Expire, TypeOK, RunnerHasSession
  <2> QED
      BY <1>2, <2>1, RestKept DEF Expire
<1> QED
    BY <1>1, <1>2

LEMMA ServerReceivesStep ==
  ASSUME UInv, ServerReceives
  PROVE  UInv'
<1> USE DEF UInv, runnerVars, workerVars
<1>1. rsess \in Sessions /\ toServer[rsess] # <<>>
      BY DEF ServerReceives, RunnerHasSession
<1>2. /\ Head(toServer[rsess]) \in Frames
      /\ [toServer EXCEPT ![rsess] = Tail(@)] \in [Sessions -> Seq(Frames)]
      BY <1>1, QueueTypes DEF TypeOK
<1>3. Head(toServer[rsess]).visitor \in Visitors
      BY <1>2 DEF Frames
<1>4. TypeOK' /\ RunnerHasSession'
      BY <1>2, <1>3 DEF ServerReceives, TypeOK, RunnerHasSession
<1> QED
    BY <1>4, RestKept DEF ServerReceives

-----------------------------------------------------------------------------
LEMMA ConnectsStep ==
  ASSUME UInv, NEW w \in Workers, NEW s \in Sessions, Connects(w, s)
  PROVE  UInv'
<1> USE DEF UInv, Connects, countVars
<1>1. Added(pool, s) \in Seq(Sessions)
      BY AddedProperties DEF TypeOK
<1>2. TypeOK' /\ RunnerHasSession'
      BY <1>1, EmptySeq DEF TypeOK, RunnerHasSession
<1>3. /\ wpc'[w] = "accept" /\ wsess'[w] = s /\ Owner[s] = w
      /\ \A x \in Workers : x # w => wpc'[x] = wpc[x] /\ wsess'[x] = wsess[x]
      /\ receiving' = receiving
      BY DEF TypeOK
<1>4. WorkerHasSession'
      BY <1>3 DEF WorkerHasSession
<1>5. ASSUME NEW t \in Sessions, link'[t] = "up"
      PROVE  wsess'[Owner[t]] = t /\ wpc'[Owner[t]] # "connect"
  <2>1. CASE t = s
        BY <1>3, <2>1
  <2>2. CASE t # s
    <3>1. wsess[Owner[t]] = t /\ wpc[Owner[t]] # "connect"
          BY <1>5, <2>2 DEF TypeOK, NoSessionAbandoned
    <3>2. Owner[t] # w
          BY <3>1
    <3> QED
        BY <1>3, <3>1, <3>2
  <2> QED
      BY <2>1, <2>2
<1> QED
    BY <1>2, <1>4, <1>5 DEF NoSessionAbandoned

(* The deferred session.Close() of runUDPSession.                          *)
LEMMA ReturnsStep ==
  ASSUME UInv, NEW w \in Workers, wpc[w] # "connect", Returns(w)
  PROVE  UInv'
<1> USE DEF UInv, Returns, runnerVars, countVars
<1>1. TypeOK' /\ RunnerHasSession'
      BY EmptySeq DEF TypeOK, RunnerHasSession
<1>2. /\ wpc'[w] = "connect" /\ wsess'[w] = None /\ ~receiving'[w]
      /\ \A x \in Workers : x # w =>
           wpc'[x] = wpc[x] /\ wsess'[x] = wsess[x] /\ receiving'[x] = receiving[x]
      BY DEF TypeOK
<1>3. WorkerHasSession'
      BY <1>2 DEF WorkerHasSession
<1>4. wsess[w] \in Sessions /\ Owner[wsess[w]] = w
      BY DEF WorkerHasSession
<1>5. ASSUME NEW t \in Sessions, link'[t] = "up"
      PROVE  wsess'[Owner[t]] = t /\ wpc'[Owner[t]] # "connect"
  <2>1. t # wsess[w] /\ link[t] = "up"
        BY <1>4, <1>5 DEF TypeOK
  <2>2. wsess[Owner[t]] = t /\ wpc[Owner[t]] # "connect"
        BY <2>1 DEF NoSessionAbandoned
  <2>3. Owner[t] # w
        BY <2>1, <2>2
  <2> QED
      BY <1>2, <2>2, <2>3
<1> QED
    BY <1>1, <1>3, <1>5 DEF NoSessionAbandoned

LEMMA WorkerForwards ==
  ASSUME UInv, NEW w \in Workers, AcceptStream(w) \/ Receiver(w) \/ Answer(w)
  PROVE  UInv'
<1> USE DEF UInv, linkVars, runnerVars, countVars
<1>1. CASE AcceptStream(w)
  <2>1. TypeOK' /\ RunnerHasSession'
        BY <1>1 DEF AcceptStream, TypeOK, RunnerHasSession
  <2>2. /\ wpc[w] = "accept" /\ wpc'[w] = "forward"
        /\ \A x \in Workers : x # w => wpc'[x] = wpc[x] /\ receiving'[x] = receiving[x]
        /\ UNCHANGED <<wsess, link>>
        BY <1>1 DEF AcceptStream, TypeOK
  <2>3. WorkerHasSession' /\ NoSessionAbandoned'
        BY <2>2 DEF WorkerHasSession, NoSessionAbandoned
  <2> QED
      BY <2>1, <2>3
<1>2. CASE ClientReceives(w)
  <2>1. wsess[w] \in Sessions
        BY <1>2 DEF ClientReceives, WorkerHasSession
  <2>2. /\ Head(toClient[wsess[w]]) \in Frames
        /\ toClient' \in [Sessions -> Seq(Frames)]
        BY <1>2, <2>1, QueueTypes DEF ClientReceives, TypeOK
  <2>3. Head(toClient[wsess[w]]).visitor \in Visitors
        BY <2>2 DEF Frames
  <2>4. pending' \in [Workers -> Seq(Visitors)]
        BY <1>2, <2>3, QueueTypes DEF ClientReceives, TypeOK
  <2>5. TypeOK' /\ RunnerHasSession'
        BY <1>2, <2>2, <2>4 DEF ClientReceives, TypeOK, RunnerHasSession
  <2> QED
      BY <1>2, <2>5, RestKept DEF ClientReceives
<1>3. CASE ReceiverEnds(w)
  <2>1. TypeOK' /\ RunnerHasSession'
        BY <1>3 DEF ReceiverEnds, TypeOK, RunnerHasSession
  <2>2. WorkerHasSession' /\ NoSessionAbandoned'
        BY <1>3 DEF ReceiverEnds, TypeOK, WorkerHasSession, NoSessionAbandoned
  <2> QED
      BY <2>1, <2>2
<1>4. CASE Answer(w)
  <2>1. wsess[w] \in Sessions /\ pending[w] # <<>>
        BY <1>4 DEF Answer, WorkerHasSession
  <2>2. /\ Head(pending[w]) \in Visitors
        /\ pending' \in [Workers -> Seq(Visitors)]
        BY <1>4, <2>1, QueueTypes DEF Answer, TypeOK
  <2>3. toServer' \in [Sessions -> Seq(Frames)]
        BY <1>4, <2>1, <2>2, FrameType, QueueTypes DEF Answer, TypeOK
  <2>4. TypeOK' /\ RunnerHasSession'
        BY <1>4, <2>2, <2>3 DEF Answer, TypeOK, RunnerHasSession
  <2> QED
      BY <1>4, <2>4, RestKept DEF Answer
<1> QED
    BY <1>1, <1>2, <1>3, <1>4 DEF Receiver

-----------------------------------------------------------------------------
LEMMA FailureStep ==
  ASSUME UInv, ServerRestarts \/ \E s \in Sessions : Yamux(s) \/ LinkBreaks(s)
  PROVE  UInv'
<1> USE DEF UInv, runnerVars, workerVars, countVars
<1>1. ASSUME NEW s \in Sessions, SessionDies(s) PROVE UInv'
  <2>1. TypeOK' /\ RunnerHasSession'
        BY <1>1 DEF SessionDies, TypeOK, RunnerHasSession
  <2> QED
      BY <1>1, <2>1, RestKept DEF SessionDies
<1>2. ASSUME NEW s \in Sessions, OpenTimesOut(s) PROVE UInv'
  <2>1. TypeOK' /\ RunnerHasSession'
        BY <1>2 DEF OpenTimesOut, TypeOK, RunnerHasSession
  <2>2. \A t \in Sessions : link'[t] = "up" => link[t] = "up"
        BY <1>2 DEF OpenTimesOut, TypeOK
  <2> QED
      BY <1>2, <2>1, <2>2, LinksKept DEF OpenTimesOut
<1>3. ASSUME NEW s \in Sessions, LinkBreaks(s) PROVE UInv'
  <2>1. TypeOK' /\ RunnerHasSession'
        BY <1>3 DEF LinkBreaks, TypeOK, RunnerHasSession
  <2>2. \A t \in Sessions : link'[t] = "up" => link[t] = "up"
        BY <1>3 DEF LinkBreaks, TypeOK
  <2> QED
      BY <1>3, <2>1, <2>2, LinksKept DEF LinkBreaks
<1>4. CASE ServerRestarts
  <2>1. TypeOK' /\ RunnerHasSession'
        BY <1>4, EmptySeq DEF ServerRestarts, TypeOK, RunnerHasSession
  <2>2. \A t \in Sessions : link'[t] = "up" => link[t] = "up"
        BY <1>4 DEF ServerRestarts
  <2> QED
      BY <1>4, <2>1, <2>2, LinksKept DEF ServerRestarts
<1> QED
    BY <1>1, <1>2, <1>3, <1>4 DEF Yamux

LEMMA UStep == UInv /\ [Next]_vars => UInv'
<1> SUFFICES ASSUME UInv, [Next]_vars PROVE UInv'
    OBVIOUS
<1>1. ASSUME NEW w \in Workers, Worker(w) \/ Receiver(w) \/ LocalService(w) PROVE UInv'
  <2>1. ASSUME AcceptFails(w) \/ ClientFails(w) PROVE UInv'
    <3>1. wpc[w] # "connect" /\ Returns(w)
          BY <2>1 DEF AcceptFails, ClientFails
    <3> QED
        BY <3>1, ReturnsStep
  <2> QED
      BY <1>1, <2>1, ConnectsStep, WorkerForwards DEF Worker, LocalService
<1>2. CASE UNCHANGED vars
  <2>1. TypeOK' /\ RunnerHasSession'
        BY <1>2 DEF vars, UInv, TypeOK, RunnerHasSession
  <2> QED
      BY <1>2, <2>1, RestKept DEF vars, UInv
<1> QED
    BY <1>1, <1>2, RunnerStep, DatagramStep, ServerReceivesStep, FailureStep DEF Next

LEMMA UAlways == Spec => []UInv
BY UInit, UStep, PTL DEF Spec

(* Runner, workers, frames in flight and counters keep their types.        *)
THEOREM TypeCorrect == Spec => []TypeOK
BY UAlways, PTL DEF UInv

(* Whatever ended a worker's last attempt (runUDPSession, ClientUDP), it   *)
(* left no working connection behind that the server would go on to use.   *)
THEOREM SessionsAreOwned == Spec => []NoSessionAbandoned
BY UAlways, PTL DEF UInv
=============================================================================
