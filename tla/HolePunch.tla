------------------------------ MODULE HolePunch ------------------------------
(***************************************************************************)
(* Two peers that run ExchangeAndPunch (p2p.go) with each other: each asks *)
(* a STUN server for its external address, they exchange the addresses     *)
(* over a signaling connection, and each sends punches to the other's      *)
(* address until it receives one or has sent Attempts.                     *)
(*                                                                         *)
(* The NAT in front of a peer (external) gives a socket an external port.  *)
(* STUNDiscover closes its socket; the one for the punches is bound to the *)
(* local port with the number of the external one, and has the announced   *)
(* address only if the NAT keeps port numbers and the port is free.  A NAT *)
(* lets in what comes from an address that something was sent to before.   *)
(* Datagrams may be lost and overtake one another, and strangers send some,*)
(* too.                                                                    *)
(***************************************************************************)
EXTENDS Integers, Sequences

CONSTANTS
  Peers,
  Attempts,   \* punchAttempts
  MaxStrange  \* bound on the datagrams of strangers

ASSUME HolePunchAssumption ==
  /\ \A p \in Peers : \E q \in Peers : q # p
  /\ \A p, q, r \in Peers : p = q \/ q = r \/ r = p
  /\ Attempts \in Nat
  /\ MaxStrange \in Nat

VARIABLES
  natKeeps,  \* natKeeps[p]: its NAT keeps port numbers; chosen once
  peerAt,    \* peerAt[p]: where p is in ExchangeAndPunch
  announced, \* announced[p]: p's address is in the signaling connection
  bound,     \* bound[p]: p's socket has the announced address
  attempt,   \* attempt[p]: punches sent
  flying,    \* flying[p]: punches on their way to p
  inbox,     \* inbox[p]: datagrams in p's socket, by where they come from
  strange    \* datagrams of strangers so far

ppVars == <<natKeeps, peerAt, announced, bound, attempt, flying, inbox, strange>>

Partner(p) == CHOOSE q \in Peers : q # p

Punching == {"send", "await"}

-----------------------------------------------------------------------------
(* Before the punches.                                                     *)

Discover(p) ==
  /\ peerAt[p] = "start"
  /\ peerAt' = [peerAt EXCEPT ![p] = "announce"]
  /\ UNCHANGED <<natKeeps, announced, bound, attempt, flying, inbox, strange>>

(* No answer of the STUN server within stunTimeout, or none with an        *)
(* address in it; a Write or a Read of the signaling connection that       *)
(* fails; a short read of the peer's address, which then cannot be         *)
(* resolved (Read is not a full read); or no socket at all.                *)
ExchangeFails(p) ==
  /\ peerAt[p] \in {"start", "announce", "learn"}
  /\ peerAt' = [peerAt EXCEPT ![p] = "failed"]
  /\ UNCHANGED <<natKeeps, announced, bound, attempt, flying, inbox, strange>>

Announce(p) ==
  /\ peerAt[p] = "announce"
  /\ announced' = [announced EXCEPT ![p] = TRUE]
  /\ peerAt' = [peerAt EXCEPT ![p] = "learn"]
  /\ UNCHANGED <<natKeeps, bound, attempt, flying, inbox, strange>>

(* The peer's address is read, without a deadline, and a socket opened on  *)
(* the port that was discovered or, if it is taken, on any port.           *)
Learn(p) ==
  /\ peerAt[p] = "learn"
  /\ announced[Partner(p)]
  /\ \E b \in {natKeeps[p], FALSE} : bound' = [bound EXCEPT ![p] = b]
  /\ peerAt' = [peerAt EXCEPT ![p] = "send"]
  /\ UNCHANGED <<natKeeps, announced, attempt, flying, inbox, strange>>

-----------------------------------------------------------------------------
(* HolePunch.                                                              *)

(* Mutant: one too many.                                                   *)
MutantSendPunch(p) ==
  /\ peerAt[p] = "send"
  /\ attempt[p] <= Attempts
  /\ attempt' = [attempt EXCEPT ![p] = @ + 1]
  /\ flying' = [flying EXCEPT ![Partner(p)] = @ + 1]
  /\ peerAt' = [peerAt EXCEPT ![p] = "await"]
  /\ UNCHANGED <<natKeeps, announced, bound, inbox, strange>>

SendPunch(p) ==
  /\ peerAt[p] = "send"
  /\ attempt[p] < Attempts
  /\ attempt' = [attempt EXCEPT ![p] = @ + 1]
  /\ flying' = [flying EXCEPT ![Partner(p)] = @ + 1]
  /\ peerAt' = [peerAt EXCEPT ![p] = "await"]
  /\ UNCHANGED <<natKeeps, announced, bound, inbox, strange>>

(* Mutant: the sender is not compared.                                     *)
MutantReceivePunch(p) ==
  /\ peerAt[p] = "await"
  /\ inbox[p] # <<>>
  /\ inbox' = [inbox EXCEPT ![p] = Tail(@)]
  /\ peerAt' = [peerAt EXCEPT ![p] = "done"]
  /\ UNCHANGED <<natKeeps, announced, bound, attempt, flying, strange>>

(* A datagram from the peer's announced address ends the loop with success.*)
ReceivePunch(p) ==
  /\ peerAt[p] = "await"
  /\ inbox[p] # <<>>
  /\ Head(inbox[p]) = "announced"
  /\ inbox' = [inbox EXCEPT ![p] = Tail(@)]
  /\ peerAt' = [peerAt EXCEPT ![p] = "done"]
  /\ UNCHANGED <<natKeeps, announced, bound, attempt, flying, strange>>

(* Any other uses the attempt up, and so does the read's deadline; an      *)
(* empty datagram is an "other", wherever it comes from.                   *)
AttemptOver(p) ==
  /\ peerAt[p] = "await"
  /\ \/ inbox[p] = <<>> /\ inbox' = inbox
     \/ /\ inbox[p] # <<>>
        /\ Head(inbox[p]) = "other"
        /\ inbox' = [inbox EXCEPT ![p] = Tail(@)]
  /\ peerAt' = [peerAt EXCEPT ![p] = "send"]
  /\ UNCHANGED <<natKeeps, announced, bound, attempt, flying, strange>>

(* The loop ends, and ExchangeAndPunch closes the socket.                  *)
PunchFails(p) ==
  /\ peerAt[p] = "send"
  /\ attempt[p] = Attempts
  /\ peerAt' = [peerAt EXCEPT ![p] = "failed"]
  /\ inbox' = [inbox EXCEPT ![p] = <<>>]
  /\ UNCHANGED <<natKeeps, announced, bound, attempt, flying, strange>>

-----------------------------------------------------------------------------
(* The network (external).                                                 *)

SocketOpen(p) == peerAt[p] \in Punching \cup {"done"}

(* A punch comes to the announced address of p, which has to be that of    *)
(* p's socket, and from the announced address of its partner.  (Until p    *)
(* has sent one itself, its NAT keeps the punch out: PunchLost.)           *)
PunchArrives(p) ==
  /\ flying[p] > 0
  /\ SocketOpen(p) /\ bound[p] /\ bound[Partner(p)]
  /\ flying' = [flying EXCEPT ![p] = @ - 1]
  /\ inbox' = [inbox EXCEPT ![p] = Append(@, "announced")]
  /\ UNCHANGED <<natKeeps, peerAt, announced, bound, attempt, strange>>

(* A NAT that is not so strict lets in a punch from another port of the    *)
(* partner's, and datagrams of strangers.                                  *)
OtherArrives(p) ==
  /\ SocketOpen(p)
  /\ \/ /\ flying[p] > 0
        /\ bound[p] /\ ~bound[Partner(p)]
        /\ flying' = [flying EXCEPT ![p] = @ - 1]
        /\ strange' = strange
     \/ /\ strange < MaxStrange
        /\ strange' = strange + 1
        /\ flying' = flying
  /\ inbox' = [inbox EXCEPT ![p] = Append(@, "other")]
  /\ UNCHANGED <<natKeeps, peerAt, announced, bound, attempt>>

PunchLost(p) ==
  /\ flying[p] > 0
  /\ flying' = [flying EXCEPT ![p] = @ - 1]
  /\ UNCHANGED <<natKeeps, peerAt, announced, bound, attempt, inbox, strange>>

-----------------------------------------------------------------------------
PPInit ==
  /\ natKeeps \in [Peers -> BOOLEAN]
  /\ peerAt = [p \in Peers |-> "start"]
  /\ announced = [p \in Peers |-> FALSE]
  /\ bound = [p \in Peers |-> FALSE]
  /\ attempt = [p \in Peers |-> 0]
  /\ flying = [p \in Peers |-> 0]
  /\ inbox = [p \in Peers |-> <<>>]
  /\ strange = 0

PeerStep(p) ==
  \/ Discover(p)
  \/ ExchangeFails(p)
  \/ Announce(p)
  \/ Learn(p)
  \/ SendPunch(p)
  \/ ReceivePunch(p)
  \/ AttemptOver(p)
  \/ PunchFails(p)

NetworkStep(p) == PunchArrives(p) \/ OtherArrives(p) \/ PunchLost(p)

PPNext == \E p \in Peers : PeerStep(p) \/ NetworkStep(p)

PPSpec == PPInit /\ [][PPNext]_ppVars

-----------------------------------------------------------------------------
PPTypeOK ==
  /\ natKeeps \in [Peers -> BOOLEAN]
  /\ peerAt \in [Peers -> {"start", "announce", "learn", "done", "failed"} \cup Punching]
  /\ announced \in [Peers -> BOOLEAN]
  /\ bound \in [Peers -> BOOLEAN]
  /\ attempt \in [Peers -> 0..Attempts]
  /\ flying \in [Peers -> 0..Attempts]
  /\ inbox \in [Peers -> Seq({"announced", "other"})]
  /\ strange \in 0..MaxStrange

(* No peer takes a stranger, or a partner that its answers would not       *)
(* reach, for a success: both sockets have the addresses that were         *)
(* announced, and each has sent to the other, so that both NATs let the    *)
(* other's datagrams in.  (Whether the partner succeeds, too, is luck: who *)
(* has heard one punch sends no more.)                                     *)
SuccessIsReal ==
  \A p \in Peers :
    peerAt[p] = "done" =>
      /\ bound[p] /\ bound[Partner(p)]
      /\ attempt[p] > 0 /\ attempt[Partner(p)] > 0
=============================================================================
