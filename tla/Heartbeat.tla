------------------------------ MODULE Heartbeat ------------------------------
(***************************************************************************)
(* The two ends of a heartbeat (heartbeat.go) on one connection: at the    *)
(* server a Monitor or ServerHeartbeat, which write pings, at the client   *)
(* ClientHeartbeat, which reads them and writes pongs.  Nothing in the     *)
(* package reads a pong.                                                   *)
(*                                                                         *)
(* TCP (external) keeps what was written and not read, InFlight messages   *)
(* each way.  A connection that is "lost" carries nothing any more, and    *)
(* both ends learn of it when TCP gives up: then it is "reset".            *)
(***************************************************************************)
EXTENDS Integers

CONSTANTS
  Senders,   \* who pings: subset of {"monitor", "server"}
  InFlight,    \* messages that fit into the buffers of one direction
  PongsRead, \* does the owner of the server's end read pongs? subset of BOOLEAN
  MaxStops   \* bound on calls of Monitor.Stop

ASSUME HeartbeatAssumption ==
  /\ Senders \subseteq {"monitor", "server"}
  /\ InFlight \in Nat \ {0}
  /\ PongsRead \subseteq BOOLEAN
  /\ MaxStops \in Nat

VARIABLES
  sender,     \* "monitor" or "server"
  pongsRead,  \* the owner reads pongs; chosen once, as sender is
  pinger,     \* its goroutine: "off", "ticking", "done"
  deadClosed, \* Monitor.Dead is closed
  stopClosed, \* Monitor.stopCh is closed
  closes,     \* calls of close() on the two
  stops,      \* calls of Monitor.Stop
  responder,  \* ClientHeartbeat: "off", "loop", "reading", "ponging", "done",
              \* or "hung" when its process does not run any more
  clientStop, \* ClientHeartbeat's stopCh is closed
  pings,      \* messages in the connection
  pongs,
  wire        \* "up", "lost", "reset"

hbVars == <<sender, pongsRead, pinger, deadClosed, stopClosed, closes, stops, responder,
            clientStop, pings, pongs, wire>>
monitorVars == <<deadClosed, stopClosed, closes, stops>>
clientVars == <<responder, clientStop>>

StartHeartbeat ==
  /\ pinger = "off"
  /\ pinger' = "ticking"
  /\ responder' = "loop"
  /\ UNCHANGED <<sender, pongsRead, monitorVars, clientStop, pings, pongs, wire>>

-----------------------------------------------------------------------------
(* The server's end.                                                       *)

(* A tick; the select may take it although stopCh is closed, too.          *)
SendPing ==
  /\ pinger = "ticking"
  /\ wire # "reset"
  /\ pings < InFlight
  /\ pings' = pings + 1
  /\ UNCHANGED <<sender, pongsRead, pinger, monitorVars, clientVars, pongs, wire>>

(* The client is about to read, or to write into a connection with room,   *)
(* and then to read.  A client that can go on is taken to make room within *)
(* the five seconds of a Monitor's write deadline.                         *)
ClientReads ==
  /\ wire = "up"
  /\ \/ responder = "loop" /\ ~clientStop
     \/ responder = "reading"
     \/ responder = "ponging" /\ (pongs < InFlight \/ pongsRead)

(* Mutant: the write has no deadline.                                      *)
MutantWriteFails == wire = "reset"

(* WriteMessage fails: the connection does, or, for a Monitor, it waited   *)
(* for five seconds.                                                       *)
WriteFails == wire = "reset" \/ (sender = "monitor" /\ pings = InFlight /\ ~ClientReads)

(* Mutant: the channel is closed by whoever comes.                         *)
MutantOnce(flag) ==
  /\ flag' = TRUE
  /\ closes' = closes + 1

(* once.Do(func() { close(channel) }), where the flag stands for it.       *)
Once(flag) ==
  IF closes = 0
    THEN flag' = TRUE /\ closes' = 1
    ELSE UNCHANGED <<flag, closes>>

PingFails ==
  /\ pinger = "ticking"
  /\ WriteFails
  /\ pinger' = "done"
  /\ IF sender = "monitor" THEN Once(deadClosed) ELSE UNCHANGED <<deadClosed, closes>>
  /\ UNCHANGED <<sender, pongsRead, stopClosed, stops, clientVars, pings, pongs, wire>>

StopMonitor ==
  /\ sender = "monitor"
  /\ pinger # "off"
  /\ stops < MaxStops
  /\ stops' = stops + 1
  /\ Once(stopClosed)
  /\ UNCHANGED <<sender, pongsRead, pinger, deadClosed, clientVars, pings, pongs, wire>>

MonitorStops ==
  /\ pinger = "ticking"
  /\ stopClosed
  /\ pinger' = "done"
  /\ UNCHANGED <<sender, pongsRead, monitorVars, clientVars, pings, pongs, wire>>

(* The owner of the connection.                                            *)
ReadPong ==
  /\ pongsRead
  /\ wire = "up"
  /\ pongs > 0
  /\ pongs' = pongs - 1
  /\ UNCHANGED <<sender, pongsRead, pinger, monitorVars, clientVars, pings, wire>>

-----------------------------------------------------------------------------
(* ClientHeartbeat.                                                        *)

LoopHead ==
  /\ responder = "loop"
  /\ responder' = IF clientStop THEN "done" ELSE "reading"
  /\ UNCHANGED <<sender, pongsRead, pinger, monitorVars, clientStop, pings, pongs, wire>>

ReadPing ==
  /\ responder = "reading"
  /\ wire = "up"
  /\ pings > 0
  /\ pings' = pings - 1
  /\ responder' = "ponging"
  /\ UNCHANGED <<sender, pongsRead, pinger, monitorVars, clientStop, pongs, wire>>

(* No deadline here.                                                       *)
WritePong ==
  /\ responder = "ponging"
  /\ wire # "reset"
  /\ pongs < InFlight
  /\ pongs' = pongs + 1
  /\ responder' = "loop"
  /\ UNCHANGED <<sender, pongsRead, pinger, monitorVars, clientStop, pings, wire>>

(* Mutant: no SetReadDeadline.                                             *)
MutantSilence == FALSE

(* The timeout is longer than the interval, so that it does not pass while *)
(* pings are sent and arrive.                                              *)
Silence == (pinger = "done" /\ pings = 0) \/ wire = "lost"

(* The read fails or times out, or the write fails.                        *)
ResponderFails ==
  /\ \/ responder = "reading" /\ (Silence \/ wire = "reset")
     \/ responder = "ponging" /\ wire = "reset"
  /\ responder' = "done"
  /\ UNCHANGED <<sender, pongsRead, pinger, monitorVars, clientStop, pings, pongs, wire>>

-----------------------------------------------------------------------------
(* The environment.                                                        *)

StopClient ==
  /\ responder # "off"
  /\ clientStop' = TRUE
  /\ UNCHANGED <<sender, pongsRead, pinger, monitorVars, responder, pings, pongs, wire>>

ClientHangs ==
  /\ responder \in {"loop", "reading", "ponging"}
  /\ responder' = "hung"
  /\ UNCHANGED <<sender, pongsRead, pinger, monitorVars, clientStop, pings, pongs, wire>>

WireBreaks ==
  /\ pinger # "off"
  /\ wire = "up"
  /\ wire' \in {"lost", "reset"}
  /\ UNCHANGED <<sender, pongsRead, pinger, monitorVars, clientVars, pings, pongs>>

(* Nothing written is acknowledged: TCP gives up after its retransmissions.*)
TCPGivesUp ==
  /\ wire = "lost"
  /\ wire' = "reset"
  /\ UNCHANGED <<sender, pongsRead, pinger, monitorVars, clientVars, pings, pongs>>

-----------------------------------------------------------------------------
HBInit ==
  /\ sender \in Senders
  /\ pongsRead \in PongsRead
  /\ pinger = "off"
  /\ deadClosed = FALSE
  /\ stopClosed = FALSE
  /\ closes = 0
  /\ stops = 0
  /\ responder = "off"
  /\ clientStop = FALSE
  /\ pings = 0
  /\ pongs = 0
  /\ wire = "up"

Pinger == SendPing \/ PingFails \/ MonitorStops

Responder == LoopHead \/ ReadPing \/ WritePong \/ ResponderFails

HBNext ==
  \/ StartHeartbeat
  \/ Pinger
  \/ StopMonitor
  \/ Responder
  \/ ReadPong
  \/ StopClient
  \/ ClientHangs
  \/ WireBreaks
  \/ TCPGivesUp

HBSpec == HBInit /\ [][HBNext]_hbVars

(* Both goroutines run, the monitor's select is fair, the owner reads the  *)
(* pongs if it does at all, and TCP gives up on a lost connection.         *)
HBFairSpec ==
  /\ HBSpec
  /\ WF_hbVars(Pinger)
  /\ WF_hbVars(MonitorStops)
  /\ WF_hbVars(Responder)
  /\ WF_hbVars(ReadPong)
  /\ WF_hbVars(TCPGivesUp)

-----------------------------------------------------------------------------
HBTypeOK ==
  /\ sender \in Senders /\ pongsRead \in PongsRead
  /\ pinger \in {"off", "ticking", "done"}
  /\ deadClosed \in BOOLEAN /\ stopClosed \in BOOLEAN
  /\ closes \in Nat
  /\ stops \in 0..MaxStops
  /\ responder \in {"off", "loop", "reading", "ponging", "done", "hung"}
  /\ clientStop \in BOOLEAN
  /\ pings \in 0..InFlight /\ pongs \in 0..InFlight
  /\ wire \in {"up", "lost", "reset"}

(* However calls of Stop and a failing write fall together, one channel is *)
(* closed, once: a second close() of either would be a panic.              *)
ClosedOnce ==
  closes = (IF deadClosed THEN 1 ELSE 0) + (IF stopClosed THEN 1 ELSE 0) /\ closes <= 1

(* A monitor reports a peer that is gone or does not run any more, or has  *)
(* been stopped, although it never looks for pongs: its pings fill the     *)
(* connection, and a write runs into its deadline.                         *)
MonitorNotices ==
  (sender = "monitor" /\ (wire # "up" \/ responder \in {"done", "hung"})) ~>
    (pinger = "done" /\ (deadClosed \/ stopClosed))

(* ClientHeartbeat returns when it is told to, the connection is gone or   *)
(* pings stay away, at the latest after its timeout; except that it stays  *)
(* in a write for as long as the connection lives, if nobody reads its     *)
(* pongs and they have filled the connection.                              *)
ResponderEnds ==
  (clientStop \/ wire # "up" \/ pinger = "done") ~>
    \/ responder \in {"done", "hung"}
    \/ responder = "ponging" /\ wire = "up" /\ ~pongsRead /\ pongs = InFlight
=============================================================================
