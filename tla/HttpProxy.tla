------------------------------ MODULE HttpProxy ------------------------------
(***************************************************************************)
(* One connection of the HTTP proxy (httpproxy.go): handleHTTPProxy reads  *)
(* a request header, and then HandleCONNECT relays both ways between the   *)
(* client and the target, or ForwardRequest sends the header to the target *)
(* and collects an answer.                                                 *)
(*                                                                         *)
(* TCP (external) delivers in order.  What a client sends is the header,   *)
(* here the piece 0, and then the pieces 1, 2, ...; what a target sends is *)
(* 1, 2, ...; the proxy's own answers are the pieces below.  Flow control  *)
(* is left out: each direction has a goroutine of its own.  A connection   *)
(* that is closed with unread input is reset, and what was on its way is   *)
(* lost.                                                                   *)
(***************************************************************************)
EXTENDS Integers, Sequences

CONSTANTS
  Methods,  \* subset of {"CONNECT", "GET"}; "GET" stands for all others
  MaxPieces \* bound on what either end sends

ASSUME HttpProxyAssumption ==
  /\ Methods \subseteq {"CONNECT", "GET"}
  /\ MaxPieces \in Nat

VARIABLES
  method,     \* the request's
  polite,     \* the client waits for an answer before it sends more
  proxy,      \* where handleHTTPProxy is
  up, down,   \* the goroutines of HandleCONNECT: "off", "copy", "done"
  buffered,   \* in the bufio.Reader, behind the header
  response,   \* ForwardRequest's
  clientSent, clientFin, clientIn,             \* client to proxy
  targetGot, targetEOF,                        \* proxy to target
  targetSent, targetFin, targetIn, targetCut,  \* target to proxy
  toClient, clientGot, clientEnd               \* proxy to client

clientSide == <<clientSent, clientFin, clientIn>>
targetSide == <<targetSent, targetFin, targetIn, targetCut>>
hpVars == <<method, polite, proxy, up, down, buffered, response, clientSide, targetGot,
            targetEOF, targetSide, toClient, clientGot, clientEnd>>

Established == 0
BadGateway == -1
BadRequest == -2

Pieces(n) == [i \in 1..n |-> i]

-----------------------------------------------------------------------------
(* The two ends.                                                           *)

ClientSends ==
  /\ clientEnd = "open" /\ ~clientFin
  /\ clientSent < MaxPieces
  /\ clientSent >= 0 /\ polite => clientGot # <<>>
  /\ clientSent' = clientSent + 1
  /\ IF proxy = "closed"
       THEN clientEnd' = "reset" /\ toClient' = <<>> /\ clientIn' = clientIn
       ELSE clientIn' = Append(clientIn, clientSent') /\ UNCHANGED <<clientEnd, toClient>>
  /\ UNCHANGED <<method, polite, proxy, up, down, buffered, response, clientFin, targetGot,
                 targetEOF, targetSide, clientGot>>

ClientFinishes ==
  /\ clientEnd = "open" /\ ~clientFin
  /\ clientFin' = TRUE
  /\ UNCHANGED <<method, polite, proxy, up, down, buffered, response, clientSent, clientIn,
                 targetGot, targetEOF, targetSide, toClient, clientGot, clientEnd>>

ClientBreaks ==
  /\ clientEnd = "open"
  /\ clientEnd' = "reset"
  /\ clientIn' = <<>>
  /\ toClient' = <<>>
  /\ UNCHANGED <<method, polite, proxy, up, down, buffered, response, clientSent, clientFin,
                 targetGot, targetEOF, targetSide, clientGot>>

ClientReceives ==
  /\ clientEnd = "open" /\ toClient # <<>>
  /\ clientGot' = Append(clientGot, Head(toClient))
  /\ toClient' = Tail(toClient)
  /\ UNCHANGED <<method, polite, proxy, up, down, buffered, response, clientSide, targetGot,
                 targetEOF, targetSide, clientEnd>>

(* The client's read returns EOF: the proxy has closed its side.           *)
ClientSeesEnd ==
  /\ clientEnd = "open" /\ toClient = <<>>
  /\ down = "done" \/ proxy = "closed"
  /\ clientEnd' = "eof"
  /\ UNCHANGED <<method, polite, proxy, up, down, buffered, response, clientSide, targetGot,
                 targetEOF, targetSide, toClient, clientGot>>

TargetOpen == proxy \in {"connected", "relay", "collect"}

TargetSends ==
  /\ TargetOpen /\ targetCut = "no" /\ ~targetFin
  /\ targetSent < MaxPieces
  /\ targetSent' = targetSent + 1
  /\ targetIn' = Append(targetIn, targetSent')
  /\ UNCHANGED <<method, polite, proxy, up, down, buffered, response, clientSide, targetGot,
                 targetEOF, targetFin, targetCut, toClient, clientGot, clientEnd>>

TargetFinishes ==
  /\ TargetOpen /\ targetCut = "no" /\ ~targetFin
  /\ targetFin' = TRUE
  /\ UNCHANGED <<method, polite, proxy, up, down, buffered, response, clientSide, targetGot,
                 targetEOF, targetSent, targetIn, targetCut, toClient, clientGot, clientEnd>>

TargetBreaks ==
  /\ TargetOpen /\ targetCut = "no"
  /\ targetCut' = "reset"
  /\ targetIn' = <<>>
  /\ UNCHANGED <<method, polite, proxy, up, down, buffered, response, clientSide, targetGot,
                 targetEOF, targetSent, targetFin, toClient, clientGot, clientEnd>>

-----------------------------------------------------------------------------
(* handleHTTPProxy.                                                        *)

(* A write to the client, which does nothing if the connection is broken.  *)
Tell(pieces) == toClient' = IF clientEnd = "open" THEN toClient \o pieces ELSE toClient

(* handleHTTPProxy returns, and has written the pieces before; the         *)
(* deferred Close comes behind (CloseConnection).                          *)
Leave(pieces) ==
  /\ proxy' = "closing"
  /\ Tell(pieces)
  /\ clientEnd' = clientEnd

(* conn.Close().                                                           *)
CloseClient ==
  /\ proxy' = "closed"
  /\ IF clientEnd = "open" /\ clientIn # <<>>
       THEN clientEnd' = "reset" /\ toClient' = <<>>
       ELSE UNCHANGED <<clientEnd, toClient>>

(* Mutant: the reader looks ahead and takes nothing away.                  *)
MutantReadRequest ==
  /\ proxy = "header"
  /\ clientIn # <<>>
  /\ \E n \in 1..Len(clientIn) :
       /\ buffered' = SubSeq(clientIn, 2, n)
       /\ clientIn' = Tail(clientIn)
  /\ proxy' = "dial"
  /\ UNCHANGED <<method, polite, up, down, response, clientSent, clientFin, targetGot,
                 targetEOF, targetSide, toClient, clientGot, clientEnd>>

(* The header, with as much of what follows as the reader's buffer has     *)
(* taken in.                                                               *)
ReadRequest ==
  /\ proxy = "header"
  /\ clientIn # <<>>
  /\ \E n \in 1..Len(clientIn) :
       /\ buffered' = SubSeq(clientIn, 2, n)
       /\ clientIn' = SubSeq(clientIn, n + 1, Len(clientIn))
  /\ proxy' = "dial"
  /\ UNCHANGED <<method, polite, up, down, response, clientSent, clientFin, targetGot,
                 targetEOF, targetSide, toClient, clientGot, clientEnd>>

(* The connection ends before the header does, or there is no request line *)
(* of three parts; or there is no host, which is a 400.                    *)
RefuseRequest ==
  /\ \/ proxy = "header" /\ clientIn = <<>> /\ (clientFin \/ clientEnd = "reset")
        /\ Leave(<<>>)
     \/ proxy = "dial" /\ Leave(<<>>)
     \/ proxy = "dial" /\ method = "GET" /\ Leave(<<BadRequest>>)
  /\ UNCHANGED <<method, polite, up, down, buffered, response, clientSide, targetGot,
                 targetEOF, targetSide, clientGot>>

DialTarget ==
  /\ proxy = "dial"
  /\ proxy' = "connected"
  /\ UNCHANGED <<method, polite, up, down, buffered, response, clientSide, targetGot,
                 targetEOF, targetSide, toClient, clientGot, clientEnd>>

(* The dial fails, or the request cannot be written.                       *)
GatewayFails ==
  /\ \/ proxy = "dial"
     \/ proxy = "connected" /\ method = "GET" /\ targetCut = "reset"
  /\ Leave(<<BadGateway>>)
  /\ UNCHANGED <<method, polite, up, down, buffered, response, clientSide, targetGot,
                 targetEOF, targetSide, clientGot>>

(* The deferred Close, which resets a connection with unread input: of     *)
(* what was written, the client has as much as it has received by then.    *)
CloseConnection ==
  /\ proxy = "closing"
  /\ CloseClient
  /\ UNCHANGED <<method, polite, up, down, buffered, response, clientSide, targetGot,
                 targetEOF, targetSide, clientGot>>

-----------------------------------------------------------------------------
(* HandleCONNECT.                                                          *)

ConnectionEstablished ==
  /\ method = "CONNECT" /\ proxy = "connected"
  /\ IF clientEnd = "open"
       THEN /\ Tell(<<Established>>)
            /\ proxy' = "relay" /\ up' = "copy" /\ down' = "copy"
            /\ UNCHANGED <<targetEOF, clientEnd>>
       ELSE /\ Leave(<<>>)
            /\ targetEOF' = TRUE
            /\ UNCHANGED <<up, down>>
  /\ UNCHANGED <<method, polite, buffered, response, clientSide, targetGot, targetSide,
                 clientGot>>

(* io.Copy(targetConn, client).                                            *)
CopyUp ==
  /\ up = "copy" /\ clientIn # <<>>
  /\ clientIn' = Tail(clientIn)
  /\ IF targetCut = "reset"
       THEN up' = "done" /\ targetGot' = targetGot
       ELSE up' = up /\ targetGot' = Append(targetGot, Head(clientIn))
  /\ UNCHANGED <<method, polite, proxy, down, buffered, response, clientSent, clientFin,
                 targetEOF, targetSide, toClient, clientGot, clientEnd>>

(* Mutant: no CloseWrite.                                                  *)
MutantUpEnds ==
  /\ up = "copy" /\ clientIn = <<>>
  /\ clientFin \/ clientEnd = "reset"
  /\ up' = "done"
  /\ UNCHANGED <<method, polite, proxy, down, buffered, response, clientSide, targetGot,
                 targetEOF, targetSide, toClient, clientGot, clientEnd>>

UpEnds ==
  /\ up = "copy" /\ clientIn = <<>>
  /\ clientFin \/ clientEnd = "reset"
  /\ up' = "done"
  /\ targetEOF' = TRUE
  /\ UNCHANGED <<method, polite, proxy, down, buffered, response, clientSide, targetGot,
                 targetSide, toClient, clientGot, clientEnd>>

(* io.Copy(client, targetConn).                                            *)
CopyDown ==
  /\ down = "copy" /\ targetIn # <<>>
  /\ targetIn' = Tail(targetIn)
  /\ Tell(<<Head(targetIn)>>)
  /\ down' = IF clientEnd = "open" THEN down ELSE "done"
  /\ UNCHANGED <<method, polite, proxy, up, buffered, response, clientSide, targetGot,
                 targetEOF, targetSent, targetFin, targetCut, clientGot, clientEnd>>

DownEnds ==
  /\ down = "copy" /\ targetIn = <<>>
  /\ targetFin \/ targetCut = "reset"
  /\ down' = "done"
  /\ UNCHANGED <<method, polite, proxy, up, buffered, response, clientSide, targetGot,
                 targetEOF, targetSide, toClient, clientGot, clientEnd>>

(* Mutant: the first of the two that ends is enough.                       *)
MutantBothDone == up = "done" \/ down = "done"

(* wg.Wait().                                                              *)
BothDone == up = "done" /\ down = "done"

CloseBoth ==
  /\ proxy = "relay" /\ BothDone
  /\ CloseClient
  /\ targetEOF' = TRUE
  /\ UNCHANGED <<method, polite, up, down, buffered, response, clientSide, targetGot,
                 targetSide, clientGot>>

-----------------------------------------------------------------------------
(* ForwardRequest.                                                         *)

ForwardHeader ==
  /\ method = "GET" /\ proxy = "connected" /\ targetCut = "no"
  /\ proxy' = "collect"
  /\ UNCHANGED <<method, polite, up, down, buffered, response, clientSide, targetGot,
                 targetEOF, targetSide, toClient, clientGot, clientEnd>>

Collect ==
  /\ proxy = "collect" /\ targetIn # <<>>
  /\ response' = response \o targetIn
  /\ targetIn' = <<>>
  /\ UNCHANGED <<method, polite, proxy, up, down, buffered, clientSide, targetGot,
                 targetEOF, targetSent, targetFin, targetCut, toClient, clientGot, clientEnd>>

(* The read fails: EOF, a reset, or the target paused for five seconds.    *)
CollectEnds ==
  /\ proxy = "collect" /\ targetIn = <<>>
  /\ targetCut' = IF targetFin \/ targetCut = "reset" THEN targetCut ELSE "paused"
  /\ targetEOF' = TRUE
  /\ Leave(response)
  /\ UNCHANGED <<method, polite, up, down, buffered, response, clientSide, targetGot,
                 targetSent, targetFin, targetIn, clientGot>>

-----------------------------------------------------------------------------
HPInit ==
  /\ method \in Methods
  /\ polite \in BOOLEAN
  /\ proxy = "header"
  /\ up = "off" /\ down = "off"
  /\ buffered = <<>> /\ response = <<>>
  /\ clientSent = -1 /\ clientFin = FALSE /\ clientIn = <<>>
  /\ targetGot = <<>> /\ targetEOF = FALSE
  /\ targetSent = 0 /\ targetFin = FALSE /\ targetIn = <<>> /\ targetCut = "no"
  /\ toClient = <<>> /\ clientGot = <<>> /\ clientEnd = "open"

HandleHTTPProxy ==
  \/ ReadRequest
  \/ RefuseRequest
  \/ DialTarget
  \/ GatewayFails
  \/ CloseConnection
  \/ ConnectionEstablished
  \/ CloseBoth
  \/ ForwardHeader
  \/ Collect
  \/ CollectEnds

Up == CopyUp \/ UpEnds

Down == CopyDown \/ DownEnds

EitherEnd ==
  \/ ClientSends
  \/ ClientFinishes
  \/ ClientBreaks
  \/ ClientReceives
  \/ ClientSeesEnd
  \/ TargetSends
  \/ TargetFinishes
  \/ TargetBreaks

HPNext == HandleHTTPProxy \/ Up \/ Down \/ EitherEnd

HPSpec == HPInit /\ [][HPNext]_hpVars

(* The proxy's goroutines run; the two ends do what they like.             *)
HPFairSpec ==
  /\ HPSpec
  /\ WF_hpVars(HandleHTTPProxy)
  /\ WF_hpVars(Up)
  /\ WF_hpVars(Down)

-----------------------------------------------------------------------------
HPTypeOK ==
  /\ method \in Methods /\ polite \in BOOLEAN
  /\ proxy \in {"header", "dial", "connected", "relay", "collect", "closing", "closed"}
  /\ up \in {"off", "copy", "done"} /\ down \in {"off", "copy", "done"}
  /\ clientSent \in -1..MaxPieces /\ clientFin \in BOOLEAN
  /\ targetSent \in 0..MaxPieces /\ targetFin \in BOOLEAN
  /\ clientIn \in Seq(0..MaxPieces)
  /\ buffered \in Seq(1..MaxPieces) /\ targetGot \in Seq(1..MaxPieces)
  /\ targetIn \in Seq(1..MaxPieces) /\ response \in Seq(1..MaxPieces)
  /\ toClient \in Seq(BadRequest..MaxPieces) /\ clientGot \in Seq(BadRequest..MaxPieces)
  /\ targetEOF \in BOOLEAN
  /\ targetCut \in {"no", "reset", "paused"}
  /\ clientEnd \in {"open", "eof", "reset"}

(* Through a CONNECT everything gets to the target once and in order, but  *)
(* for what the reader of the header has taken in: HandleCONNECT reads     *)
(* from the connection and not from the reader.  Of a client that waits    *)
(* for the answer this is nothing.                                         *)
OnlyBufferedLost ==
  /\ proxy = "relay" /\ clientEnd # "reset" /\ targetCut = "no" =>
       buffered \o targetGot \o clientIn = Pieces(clientSent)
  /\ polite => buffered = <<>>

(* What the client of n pieces of a target's answer has got.               *)
AnswerOf(n) == (IF method = "CONNECT" THEN <<Established>> ELSE <<>>) \o Pieces(n)

(* The client sees the end of a connection only after it has got all the   *)
(* target has sent, even if it has finished itself long before: the end of *)
(* one direction does not cut the other off.  The target has finished by   *)
(* then, or paused for the five seconds of ForwardRequest, which passes on *)
(* for the end what it has.  A target's reset looks like an end, too: what *)
(* the client has then is a beginning of the answer without a gap, or a    *)
(* 502 and nothing of the answer.                                          *)
EndMeansWhole ==
  clientEnd = "eof" /\ targetSent > 0 =>
    \/ clientGot = AnswerOf(targetSent) /\ (targetFin \/ targetCut = "paused")
    \/ /\ targetCut = "reset"
       /\ clientGot = <<BadGateway>> \/ \E n \in 0..targetSent : clientGot = AnswerOf(n)

(* The target learns that the client has finished while it may still       *)
(* answer itself.                                                          *)
HalfClosePasses == (proxy = "relay" /\ clientFin) ~> (targetEOF \/ targetCut = "reset")
=============================================================================
