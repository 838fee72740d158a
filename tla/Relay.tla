------------------------------- MODULE Relay -------------------------------
(***************************************************************************)
(* One relayed connection from end to end:                                 *)
(*                                                                         *)
(*   visitor --TCP-- server --yamux stream-- client --TCP-- local service  *)
(*                                                                         *)
(* The server runs Relay(visitor, stream) and the client Relay(stream,     *)
(* local) (relay.go), each with two goroutines that copy one direction and *)
(* then, if the destination is a TCP connection, shut down its write side. *)
(* A relay closes its two connections when both goroutines are done.  The  *)
(* client dials the local service first (client.go, handleTCPStream).      *)
(*                                                                         *)
(* A direction is named by the end that it comes from.  In direction d the *)
(* bytes, numbered as they were sent, go through three buffers: d's own    *)
(* TCP connection, the stream, and the TCP connection of the other end.    *)
(* TCP and yamux (external) keep what is in a buffer; each buffer holds    *)
(* Window bytes and a writer waits for room.                               *)
(***************************************************************************)
EXTENDS Integers, Sequences

CONSTANTS
  MaxBytes,  \* bound on the bytes that either end sends
  Window     \* capacity of a buffer

ASSUME RelayAssumption == MaxBytes \in Nat /\ Window \in Nat \ {0}

Ends == {"visitor", "local"}
Other(d) == IF d = "visitor" THEN "local" ELSE "visitor"

VARIABLES
  sent,    \* sent[d]: how many bytes d has sent
  got,     \* got[d]: what the end opposite to d has read of them
  buffer,  \* buffer[d][h], h in 1..3: bytes between two processes
  fin,     \* fin[d][h]: the writer of that buffer has shut it down
  peer,    \* peer[d]: "open", "shut" (its write side) or "closed"
  copier,  \* copier[d][n]: the n-th goroutine that bytes from d meet, which
           \* is "off" (not started), in its "copy" or "done"
  stream,  \* "up", "lost" with the session, or "expired" by a timeout
  closed   \* closed[e]: the relay next to end e has closed both connections

vars == <<sent, got, buffer, fin, peer, copier, stream, closed>>

(* Buffer h is the yamux stream or belongs to the TCP connection of an end.*)
EndOf(d, h) == IF h = 1 THEN d ELSE Other(d)

(* A TCP connection is broken when its end has closed it and bytes arrive  *)
(* at it or are left in it.                                                *)
Broken(e) ==
  /\ peer[e] = "closed"
  /\ buffer[Other(e)][3] # <<>>

Works(d, h) == IF h = 2 THEN stream = "up" ELSE ~Broken(EndOf(d, h))

-----------------------------------------------------------------------------
(* The ends (external).                                                    *)

Connected(e) == copier[e][1] # "off"

Send(d) ==
  /\ Connected(d)
  /\ peer[d] = "open"
  /\ ~closed[d]
  /\ sent[d] < MaxBytes
  /\ Len(buffer[d][1]) < Window
  /\ sent' = [sent EXCEPT ![d] = @ + 1]
  /\ buffer' = [buffer EXCEPT ![d][1] = Append(@, sent'[d])]
  /\ UNCHANGED <<got, fin, peer, copier, stream, closed>>

Receive(e) ==
  /\ peer[e] # "closed"
  /\ buffer[Other(e)][3] # <<>>
  /\ got' = [got EXCEPT ![Other(e)] = Append(@, Head(buffer[Other(e)][3]))]
  /\ buffer' = [buffer EXCEPT ![Other(e)][3] = Tail(@)]
  /\ UNCHANGED <<sent, fin, peer, copier, stream, closed>>

(* The end e has read everything up to the end of the other's bytes.       *)
SeesEOF(e) == buffer[Other(e)][3] = <<>> /\ fin[Other(e)][3]

(* shutdown(SHUT_WR): an end has no more to say and still listens.         *)
Shut(d) ==
  /\ Connected(d)
  /\ peer[d] = "open"
  /\ peer' = [peer EXCEPT ![d] = "shut"]
  /\ fin' = [fin EXCEPT ![d][1] = TRUE]
  /\ UNCHANGED <<sent, got, buffer, copier, stream, closed>>

Close(d) ==
  /\ Connected(d)
  /\ peer[d] # "closed"
  /\ peer' = [peer EXCEPT ![d] = "closed"]
  /\ fin' = [fin EXCEPT ![d][1] = TRUE]
  /\ UNCHANGED <<sent, got, buffer, copier, stream, closed>>

-----------------------------------------------------------------------------
(* io.Copy, from buffer n to buffer n + 1.                                 *)

(* Mutants: the writer does not wait for room; the relay copies one        *)
(* direction and then the other.                                           *)
MutantCopy(d, n) ==
  /\ copier[d][n] = "copy"
  /\ buffer[d][n] # <<>>
  /\ Works(d, n + 1)
  /\ buffer' = [buffer EXCEPT ![d][n] = Tail(@),
                              ![d][n + 1] = Append(@, Head(buffer[d][n]))]
  /\ UNCHANGED <<sent, got, fin, peer, copier, stream, closed>>

MutantCopyInTurn(d, n) ==
  /\ d = "local" => copier["visitor"][3 - n] = "done"
  /\ Len(buffer[d][n + 1]) < Window
  /\ MutantCopy(d, n)

(* What is left in a connection that failed may still be read.             *)
Copy(d, n) ==
  /\ copier[d][n] = "copy"
  /\ buffer[d][n] # <<>>
  /\ Works(d, n + 1)
  /\ Len(buffer[d][n + 1]) < Window
  /\ buffer' = [buffer EXCEPT ![d][n] = Tail(@),
                              ![d][n + 1] = Append(@, Head(buffer[d][n]))]
  /\ UNCHANGED <<sent, got, fin, peer, copier, stream, closed>>

(* Mutant: the destination is not shut down.                               *)
MutantCopyEndsOpen(d, n) ==
  /\ copier[d][n] = "copy"
  /\ \/ buffer[d][n] = <<>> /\ fin[d][n]
     \/ ~Works(d, n)
     \/ buffer[d][n] # <<>> /\ ~Works(d, n + 1)
  /\ copier' = [copier EXCEPT ![d][n] = "done"]
  /\ UNCHANGED <<sent, got, buffer, fin, peer, stream, closed>>

(* io.Copy returns: the source has ended, or either connection fails.      *)
(* CloseWrite is called if the destination is a *net.TCPConn, which a      *)
(* yamux stream is not.                                                    *)
CopyEnds(d, n) ==
  /\ copier[d][n] = "copy"
  /\ \/ buffer[d][n] = <<>> /\ fin[d][n]
     \/ ~Works(d, n)
     \/ buffer[d][n] # <<>> /\ ~Works(d, n + 1)
  /\ copier' = [copier EXCEPT ![d][n] = "done"]
  /\ fin' = IF n = 2 THEN [fin EXCEPT ![d][3] = TRUE] ELSE fin
  /\ UNCHANGED <<sent, got, buffer, peer, stream, closed>>

(* Mutant: the relay waits for one goroutine only; the other one fails.    *)
MutantRelayReturns(e) ==
  /\ ~closed[e]
  /\ copier[e][1] = "done" \/ copier[Other(e)][2] = "done"
  /\ closed' = [closed EXCEPT ![e] = TRUE]
  /\ fin' = [fin EXCEPT ![e][2] = TRUE, ![Other(e)][3] = TRUE]
  /\ copier' = [copier EXCEPT ![e][1] = "done", ![Other(e)][2] = "done"]
  /\ UNCHANGED <<sent, got, buffer, peer, stream>>

(* wg.Wait() returns; a.Close() and b.Close() end both directions at their *)
(* other ends.                                                             *)
RelayReturns(e) ==
  /\ ~closed[e]
  /\ copier[e][1] = "done"
  /\ copier[Other(e)][2] = "done"
  /\ closed' = [closed EXCEPT ![e] = TRUE]
  /\ fin' = [fin EXCEPT ![e][2] = TRUE, ![Other(e)][3] = TRUE]
  /\ UNCHANGED <<sent, got, buffer, peer, copier, stream>>

(* handleTCPStream reaches the local service ...                           *)
DialLocal ==
  /\ ~Connected("local")
  /\ copier' = [copier EXCEPT !["local"][1] = "copy", !["visitor"][2] = "copy"]
  /\ UNCHANGED <<sent, got, buffer, fin, peer, stream, closed>>

(* ... or it does not, and closes the stream.                              *)
DialFails ==
  /\ ~Connected("local")
  /\ copier' = [copier EXCEPT !["local"][1] = "done", !["visitor"][2] = "done"]
  /\ peer' = [peer EXCEPT !["local"] = "closed"]
  /\ closed' = [closed EXCEPT !["local"] = TRUE]
  /\ fin' = [fin EXCEPT !["local"][2] = TRUE]
  /\ UNCHANGED <<sent, got, buffer, stream>>

(* yamux: the session ends, with what is in its buffers ...                *)
StreamEnds(how) ==
  /\ stream = "up"
  /\ stream' = how
  /\ buffer' = [d \in Ends |-> [buffer[d] EXCEPT ![2] = <<>>]]
  /\ UNCHANGED <<sent, got, fin, peer, copier, closed>>

SessionEnds == StreamEnds("lost")

(* ... or the peer of a closed stream does not close it in time            *)
(* (StreamCloseTimeout).                                                   *)
StreamTimesOut ==
  /\ closed["visitor"] # closed["local"]
  /\ StreamEnds("expired")

-----------------------------------------------------------------------------
Init ==
  /\ sent = [d \in Ends |-> 0]
  /\ got = [d \in Ends |-> <<>>]
  /\ buffer = [d \in Ends |-> [h \in 1..3 |-> <<>>]]
  /\ fin = [d \in Ends |-> [h \in 1..3 |-> FALSE]]
  /\ peer = [d \in Ends |-> "open"]
  /\ copier = [d \in Ends |-> [n \in 1..2 |->
                 IF (n = 1) = (d = "visitor") THEN "copy" ELSE "off"]]
  /\ stream = "up"
  /\ closed = [e \in Ends |-> FALSE]

Copier(d, n) == Copy(d, n) \/ CopyEnds(d, n)

Relays ==
  \/ \E d \in Ends, n \in 1..2 : Copier(d, n)
  \/ \E e \in Ends : RelayReturns(e)
  \/ DialLocal
  \/ DialFails

Next ==
  \/ Relays
  \/ \E e \in Ends : Send(e) \/ Receive(e) \/ Shut(e) \/ Close(e)
  \/ SessionEnds
  \/ StreamTimesOut

Spec == Init /\ [][Next]_vars

(* The goroutines run, a dial succeeds or times out, and so do streams;    *)
(* an end reads what it is sent and hangs up some time after it has seen   *)
(* the other hang up.                                                      *)
Fairness ==
  /\ \A d \in Ends, n \in 1..2 : WF_vars(Copier(d, n))
  /\ \A e \in Ends : WF_vars(RelayReturns(e)) /\ WF_vars(Receive(e))
  /\ \A e \in Ends : WF_vars(SeesEOF(e) /\ Close(e))
  /\ WF_vars(DialLocal \/ DialFails)
  /\ WF_vars(StreamTimesOut)

FairSpec == Spec /\ Fairness

-----------------------------------------------------------------------------
Bytes == 1..MaxBytes

TypeOK ==
  /\ sent \in [Ends -> 0..MaxBytes]
  /\ got \in [Ends -> Seq(Bytes)]
  /\ buffer \in [Ends -> [1..3 -> Seq(Bytes)]]
  /\ \A d \in Ends, h \in 1..3 : Len(buffer[d][h]) <= Window
  /\ fin \in [Ends -> [1..3 -> BOOLEAN]]
  /\ peer \in [Ends -> {"open", "shut", "closed"}]
  /\ copier \in [Ends -> [1..2 -> {"off", "copy", "done"}]]
  /\ stream \in {"up", "lost", "expired"}
  /\ closed \in [Ends -> BOOLEAN]

(* An end of file is no truncation: when an end reads one over a stream    *)
(* that works, it has read everything that the relay next to the other end *)
(* took from its connection, whatever shut down, broke or was closed in    *)
(* between.                                                                *)
EOFMeansAll ==
  \A e \in Ends :
    SeesEOF(e) /\ stream = "up" =>
      Len(got[Other(e)]) = sent[Other(e)] - Len(buffer[Other(e)][1])

(* Every byte arrives, although buffers fill up and either direction may   *)
(* be shut down while the other goes on, unless the session ends or an end *)
(* does not listen any more; no timeout of yamux cuts a direction short.   *)
BytesArrive ==
  \A d \in Ends, n \in Bytes :
    sent[d] >= n ~>
      \/ Len(got[d]) >= n
      \/ stream = "lost"
      \/ peer[Other(d)] = "closed" \/ Broken(d)

(* Once one relay is over or the stream is gone, nothing is left behind at *)
(* either side.                                                            *)
TornDown ==
  (stream # "up" \/ \E e \in Ends : closed[e]) ~> (\A e \in Ends : closed[e])

(* "Relay performs transparent bidirectional TCP copy between two          *)
(* connections" (relay.go:9): an end that shuts down or closes its         *)
(* connection is seen to have done so by the other end.                    *)
EOFArrives ==
  \A d \in Ends :
    peer[d] # "open" ~>
      (SeesEOF(Other(d)) \/ stream # "up" \/ peer[Other(d)] = "closed")
=============================================================================
