----------------------------- MODULE LoadBalancer -----------------------------
(***************************************************************************)
(* A LoadBalancer (loadbalancer.go) that any number of goroutines share.   *)
(* A caller is in Connect: Next chooses a back end, then its counter goes  *)
(* up, then the dial succeeds or fails; a connected caller calls Release   *)
(* once.  The counters and the index are atomic, each access by itself.    *)
(*                                                                         *)
(* A uint64 has 2^64 values; an int has as many, or 2^32 on the arm and    *)
(* mips builds of the release workflow.                                    *)
(*                                                                         *)
(* There is a back end at least: without one Next and Connect return an    *)
(* error and change nothing.                                               *)
(***************************************************************************)
EXTENDS Integers, FiniteSets

CONSTANTS
  Callers,     \* goroutines that call Connect and Release
  N,           \* number of back ends
  Strategies,  \* subset of {"round_robin", "random", "least_conn"}
  IndexValues, \* how many values a uint64 has
  IntValues    \* how many values an int has

ASSUME LoadBalancerAssumption ==
  /\ IsFiniteSet(Callers)
  /\ N \in Nat \ {0}
  /\ IndexValues \in Nat \ {0} /\ IntValues \in Nat \ {0} /\ IntValues <= IndexValues
  /\ Strategies \subseteq {"round_robin", "random", "least_conn"}

Backends == 0..(N - 1)

VARIABLES
  strategy,    \* chosen once, by New
  index,       \* lb.index
  connections, \* lb.connections
  caller,      \* caller[c]: where c is
  choice,      \* choice[c]: its idx
  minConn,     \* minConn[c], scanned[c]: the loop of LeastConn
  scanned,
  moves,       \* history: moves[c]: changes of counters since c began to look,
               \* counted up to the number of callers
  last         \* history: the last choice of RoundRobin

lbVars == <<strategy, index, connections, caller, choice, minConn, scanned, moves, last>>

-----------------------------------------------------------------------------
(* Next.                                                                   *)

(* int(u) of an unsigned number, and Go's %, which has the sign of its     *)
(* left side.                                                              *)
AsInt(u) ==
  LET low == u % IntValues
  IN  IF low < IntValues \div 2 THEN low ELSE low - IntValues

Remainder(a) == IF a < 0 THEN -((-a) % N) ELSE a % N

(* Mutant: the index is not atomic, and the result of the addition is lost.*)
MutantTurn == index' = index

Turn == index' = (index + 1) % IndexValues

(* A choice that is no index of lb.backends is a panic, which ends the     *)
(* process.                                                                *)
NextRoundRobin(c) ==
  /\ strategy = "round_robin"
  /\ caller[c] = "idle"
  /\ Turn
  /\ choice' = [choice EXCEPT ![c] = Remainder(AsInt(index))]
  /\ caller' = [caller EXCEPT ![c] = IF choice'[c] \in Backends THEN "picked" ELSE "panic"]
  /\ last' = choice'[c]
  /\ UNCHANGED <<strategy, connections, minConn, scanned, moves>>

NextRandom(c) ==
  /\ strategy = "random"
  /\ caller[c] = "idle"
  /\ \E i \in Backends : choice' = [choice EXCEPT ![c] = i]
  /\ caller' = [caller EXCEPT ![c] = "picked"]
  /\ UNCHANGED <<strategy, index, connections, minConn, scanned, moves, last>>

(* Mutant: minConn begins as zero.                                         *)
MutantScanFirst(c) ==
  /\ strategy = "least_conn"
  /\ caller[c] = "idle"
  /\ choice' = [choice EXCEPT ![c] = 0]
  /\ minConn' = [minConn EXCEPT ![c] = 0]
  /\ scanned' = [scanned EXCEPT ![c] = 1]
  /\ moves' = [moves EXCEPT ![c] = 0]
  /\ caller' = [caller EXCEPT ![c] = "scanning"]
  /\ UNCHANGED <<strategy, index, connections, last>>

(* LeastConn reads the first counter ...                                   *)
ScanFirst(c) ==
  /\ strategy = "least_conn"
  /\ caller[c] = "idle"
  /\ choice' = [choice EXCEPT ![c] = 0]
  /\ minConn' = [minConn EXCEPT ![c] = connections[0]]
  /\ scanned' = [scanned EXCEPT ![c] = 1]
  /\ moves' = [moves EXCEPT ![c] = 0]
  /\ caller' = [caller EXCEPT ![c] = "scanning"]
  /\ UNCHANGED <<strategy, index, connections, last>>

(* ... and then the others, one after the other.                           *)
ScanNext(c) ==
  LET i == scanned[c]
      fewer == connections[i] < minConn[c]
  IN
  /\ caller[c] = "scanning"
  /\ i < N
  /\ choice' = IF fewer THEN [choice EXCEPT ![c] = i] ELSE choice
  /\ minConn' = IF fewer THEN [minConn EXCEPT ![c] = connections[i]] ELSE minConn
  /\ scanned' = [scanned EXCEPT ![c] = i + 1]
  /\ UNCHANGED <<strategy, index, connections, caller, moves, last>>

(* Next returns, and its variables are gone.                               *)
ScanDone(c) ==
  /\ caller[c] = "scanning"
  /\ scanned[c] = N
  /\ caller' = [caller EXCEPT ![c] = "picked"]
  /\ minConn' = [minConn EXCEPT ![c] = 0]
  /\ scanned' = [scanned EXCEPT ![c] = 0]
  /\ UNCHANGED <<strategy, index, connections, choice, moves, last>>

-----------------------------------------------------------------------------
(* Connect after Next, and Release.                                        *)

(* Between its first look at a counter and its own count.                  *)
Looks(c) == strategy = "least_conn" /\ caller[c] \in {"scanning", "picked"}

(* atomic.AddInt64(&lb.connections[idx], n).                               *)
AddConnections(c, n) ==
  /\ connections' = [connections EXCEPT ![choice[c]] = @ + n]
  /\ moves' = [d \in Callers |->
                 IF d = c \/ ~Looks(d) THEN 0
                 ELSE IF moves[d] < Cardinality(Callers) THEN moves[d] + 1 ELSE moves[d]]
  /\ UNCHANGED <<strategy, index, choice, minConn, scanned, last>>

CountIn(c) ==
  /\ caller[c] = "picked"
  /\ AddConnections(c, 1)
  /\ caller' = [caller EXCEPT ![c] = "dialing"]

DialBackend(c) ==
  /\ caller[c] = "dialing"
  /\ caller' = [caller EXCEPT ![c] = "connected"]
  /\ UNCHANGED <<strategy, index, connections, choice, minConn, scanned, moves, last>>

(* Mutant: the counter is left as it is.                                   *)
MutantDialBackendFails(c) ==
  /\ caller[c] = "dialing"
  /\ caller' = [caller EXCEPT ![c] = "idle"]
  /\ UNCHANGED <<strategy, index, connections, choice, minConn, scanned, moves, last>>

DialBackendFails(c) ==
  /\ caller[c] = "dialing"
  /\ AddConnections(c, -1)
  /\ caller' = [caller EXCEPT ![c] = "idle"]

Release(c) ==
  /\ caller[c] = "connected"
  /\ AddConnections(c, -1)
  /\ caller' = [caller EXCEPT ![c] = "idle"]

-----------------------------------------------------------------------------
LBInit ==
  /\ strategy \in Strategies
  /\ index = 0
  /\ connections = [i \in Backends |-> 0]
  /\ caller = [c \in Callers |-> "idle"]
  /\ choice = [c \in Callers |-> 0]
  /\ minConn = [c \in Callers |-> 0]
  /\ scanned = [c \in Callers |-> 0]
  /\ moves = [c \in Callers |-> 0]
  /\ last = -1

CallerStep(c) ==
  \/ NextRoundRobin(c)
  \/ NextRandom(c)
  \/ ScanFirst(c)
  \/ ScanNext(c)
  \/ ScanDone(c)
  \/ CountIn(c)
  \/ DialBackend(c)
  \/ DialBackendFails(c)
  \/ Release(c)

Panicked == \E c \in Callers : caller[c] = "panic"

LBNext == ~Panicked /\ \E c \in Callers : CallerStep(c)

LBSpec == LBInit /\ [][LBNext]_lbVars

-----------------------------------------------------------------------------
LBTypeOK ==
  /\ strategy \in Strategies
  /\ index \in 0..(IndexValues - 1)
  /\ connections \in [Backends -> Int]
  /\ caller \in [Callers ->
                   {"idle", "scanning", "picked", "dialing", "connected", "panic"}]
  /\ choice \in [Callers -> Int]
  /\ \A c \in Callers : caller[c] # "panic" => choice[c] \in Backends
  /\ minConn \in [Callers -> Int]
  /\ scanned \in [Callers -> 0..N]
  /\ moves \in [Callers -> 0..Cardinality(Callers)]
  /\ last \in Int

UsersOf(i) == {c \in Callers : caller[c] \in {"dialing", "connected"} /\ choice[c] = i}

(* No call, however it interleaves with others and whether its dial        *)
(* succeeds or fails, leaves a counter wrong: each is the number of        *)
(* callers that use the back end, so it is never negative and returns to   *)
(* zero.                                                                   *)
CountsMatch == \A i \in Backends : connections[i] = Cardinality(UsersOf(i))

(* LeastConn reads the counters one by one while others count in and out,  *)
(* and two callers may choose the same back end: its choice need not be    *)
(* the least.  But it is no worse than what has changed under it: each     *)
(* change of a counter since the caller began to look costs at most one    *)
(* connection of difference, and without one the choice is the least.      *)
LeastChosen ==
  \A c \in Callers :
    Looks(c) /\ caller[c] = "picked" =>
      \A i \in Backends : connections[choice[c]] <= connections[i] + moves[c]

(* Concurrent callers of RoundRobin take the back ends strictly in turn,   *)
(* none twice and none left out, and none of them panics, for as long as   *)
(* the index fits into an int.                                             *)
InTurn ==
  [][\A c \in Callers :
       /\ strategy = "round_robin"
       /\ caller[c] = "idle" /\ caller'[c] # "idle"
       /\ index < IntValues \div 2
       => caller'[c] = "picked" /\ choice'[c] = (last + 1) % N]_lbVars
=============================================================================
