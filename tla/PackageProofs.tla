---------------------------- MODULE PackageProofs ----------------------------
(***************************************************************************)
(* What holds of AutoCert, LoadBalancer and HolePunch for every value of   *)
(* their constants, and the types of all the packages when they run as one.*)
(***************************************************************************)
EXTENDS MCPackages, CopierProofs, FiniteSetTheorems

-----------------------------------------------------------------------------
(* AutoCert.  Whoever writes the files is on the way from OpenCert to      *)
(* EncodeKey, and has completed what is before it.                         *)
GenerationOrder ==
  /\ tlsServer \in Generating => interrupted
  /\ tlsServer \in {"openKey", "encodeKey"} => certFile = "whole"

CertInv == ACTypeOK /\ GenerationOrder /\ PairUnlessInterrupted

LEMMA CertInit == ACInit => CertInv
<1> SUFFICES ASSUME ACInit PROVE CertInv
    OBVIOUS
<1>1. ACTypeOK
  <2>1. daysLeft \in 0..ValidDays /\ kills \in 0..MaxKills
        BY AutoCertAssumption DEF AutoCertAssumption, ACInit
  <2> QED
      BY <2>1, Zenon DEF ACInit, ACTypeOK, FileStates
<1>2. GenerationOrder
      BY DEF ACInit, GenerationOrder, Generating
<1>3. PairUnlessInterrupted
      BY DEF ACInit, PairUnlessInterrupted
<1> QED
    BY <1>1, <1>2, <1>3 DEF CertInv

LEMMA CertStep == CertInv /\ [ACNext]_acVars => CertInv'
<1> USE AutoCertAssumption DEF AutoCertAssumption
<1> SUFFICES ASSUME CertInv, [ACNext]_acVars PROVE CertInv'
    OBVIOUS
<1> USE DEF CertInv, ACTypeOK, FileStates, Generating, GenerationOrder, PairUnlessInterrupted,
            Loads, Usable
<1>1. CASE StartServer
      BY <1>1 DEF StartServer
<1>2. CASE UseExisting
      BY <1>2 DEF UseExisting
<1>3. CASE GenerateSelfSigned
      BY <1>3 DEF GenerateSelfSigned
<1>4. CASE OpenCert
      BY <1>4 DEF OpenCert
<1>5. CASE EncodeCert
      BY <1>5 DEF EncodeCert
<1>6. CASE OpenKey
      BY <1>6 DEF OpenKey
<1>7. CASE EncodeKey
      BY <1>7 DEF EncodeKey
<1>8. CASE ListenTLS
      BY <1>8 DEF ListenTLS
<1>9. CASE Killed
      BY <1>9 DEF Killed
<1>10. CASE DayPasses
      BY <1>10 DEF DayPasses
<1>11. CASE UNCHANGED acVars
      BY <1>11 DEF acVars
<1> QED
    BY <1>1, <1>2, <1>3, <1>4, <1>5, <1>6, <1>7, <1>8, <1>9, <1>10, <1>11
    DEF ACNext, ServerProcess

LEMMA CertInvariant == ACSpec => []CertInv
BY CertInit, CertStep, PTL DEF ACSpec

(* Every start and every renewal that is not cut off leaves a pair that    *)
(* loads in the two files.                                                 *)
THEOREM FilesAreAPair == ACSpec => []PairUnlessInterrupted
BY CertInvariant, PTL DEF CertInv

-----------------------------------------------------------------------------
(* LoadBalancer.  A caller that scans has the least of the counters as it  *)
(* read them, and what has changed since is in moves.                      *)
ScanInv ==
  \A c \in Callers :
    caller[c] = "scanning" =>
      /\ strategy = "least_conn"
      /\ scanned[c] \in 1..N
      /\ minConn[c] \in 0..Cardinality(Callers)
      /\ connections[choice[c]] <= minConn[c] + moves[c]
      /\ \A i \in Backends :
           i < scanned[c] =>
             /\ minConn[c] <= connections[i] + moves[c]
             /\ connections[choice[c]] <= connections[i] + moves[c]

BalanceInv == LBTypeOK /\ ScanInv /\ LeastChosen /\ CountsMatch

LEMMA UsersFinite == \A i : IsFiniteSet(UsersOf(i))
<1> SUFFICES ASSUME NEW i PROVE IsFiniteSet(UsersOf(i))
    OBVIOUS
<1>1. IsFiniteSet(Callers)
      BY LoadBalancerAssumption DEF LoadBalancerAssumption
<1>2. UsersOf(i) \subseteq Callers
      BY DEF UsersOf
<1> QED
    BY <1>1, <1>2, FS_Subset

LEMMA BalanceInit == LBInit => BalanceInv
<1> SUFFICES ASSUME LBInit PROVE BalanceInv
    OBVIOUS
<1> USE LoadBalancerAssumption DEF LoadBalancerAssumption, LBInit
<1>1. 0 \in Backends /\ 0 \in 0..Cardinality(Callers)
      BY FS_CardinalityType DEF Backends
<1>2. LBTypeOK
      BY <1>1 DEF LBTypeOK
<1>3. ScanInv /\ LeastChosen
      BY DEF ScanInv, LeastChosen, Looks
<1>4. CountsMatch
  <2> SUFFICES ASSUME NEW i \in Backends PROVE connections[i] = Cardinality(UsersOf(i))
      BY DEF CountsMatch
  <2>1. UsersOf(i) = {}
        BY DEF UsersOf
  <2> QED
      BY <2>1, FS_EmptySet
<1> QED
    BY <1>2, <1>3, <1>4 DEF BalanceInv

(* Whatever a caller adds or takes away while it joins or leaves the users *)
(* of its back end, the counters stay right.                               *)
LEMMA CountsAfterJoin ==
  ASSUME BalanceInv, NEW c \in Callers, caller[c] = "picked",
         AddConnections(c, 1), caller' = [caller EXCEPT ![c] = "dialing"]
  PROVE  CountsMatch'
<1> USE DEF BalanceInv, LBTypeOK
<1> SUFFICES ASSUME NEW i \in Backends PROVE connections'[i] = Cardinality(UsersOf(i)')
    BY DEF CountsMatch
<1>1. choice' = choice /\ choice[c] \in Backends
      BY DEF AddConnections
<1>2. CASE i = choice[c]
  <2>1. UsersOf(i)' = UsersOf(i) \cup {c} /\ c \notin UsersOf(i)
        BY <1>1, <1>2 DEF UsersOf
  <2>2. Cardinality(UsersOf(i)') = Cardinality(UsersOf(i)) + 1
        BY <2>1, UsersFinite, FS_AddElement
  <2> QED
      BY <1>2, <2>2 DEF AddConnections, CountsMatch
<1>3. CASE i # choice[c]
  <2>1. UsersOf(i)' = UsersOf(i)
        BY <1>1, <1>3 DEF UsersOf
  <2> QED
      BY <1>1, <1>3, <2>1 DEF AddConnections, CountsMatch
<1> QED
    BY <1>2, <1>3

LEMMA CountsAfterLeave ==
  ASSUME BalanceInv, NEW c \in Callers, caller[c] \in {"dialing", "connected"},
         AddConnections(c, -1), caller' = [caller EXCEPT ![c] = "idle"]
  PROVE  CountsMatch'
<1> USE DEF BalanceInv, LBTypeOK
<1> SUFFICES ASSUME NEW i \in Backends PROVE connections'[i] = Cardinality(UsersOf(i)')
    BY DEF CountsMatch
<1>1. choice' = choice /\ choice[c] \in Backends
      BY DEF AddConnections
<1>2. CASE i = choice[c]
  <2>1. UsersOf(i)' = UsersOf(i) \ {c} /\ c \in UsersOf(i)
        BY <1>1, <1>2 DEF UsersOf
  <2>2. Cardinality(UsersOf(i)') = Cardinality(UsersOf(i)) - 1
        BY <2>1, UsersFinite, FS_RemoveElement
  <2> QED
      BY <1>2, <2>2 DEF AddConnections, CountsMatch
<1>3. CASE i # choice[c]
  <2>1. UsersOf(i)' = UsersOf(i)
        BY <1>1, <1>3 DEF UsersOf
  <2> QED
      BY <1>1, <1>3, <2>1 DEF AddConnections, CountsMatch
<1> QED
    BY <1>2, <1>3

(* The steps that change no counter.                                       *)
LEMMA CountsKept ==
  ASSUME BalanceInv, connections' = connections,
         \A i \in Backends : UsersOf(i)' = UsersOf(i)
  PROVE  CountsMatch'
BY DEF BalanceInv, CountsMatch

LEMMA CountersBounded ==
  ASSUME CountsMatch
  PROVE  /\ Cardinality(Callers) \in Nat
         /\ \A i \in Backends : connections[i] \in 0..Cardinality(Callers)
<1>1. IsFiniteSet(Callers)
      BY LoadBalancerAssumption DEF LoadBalancerAssumption
<1>2. ASSUME NEW i \in Backends PROVE Cardinality(UsersOf(i)) \in 0..Cardinality(Callers)
  <2>1. UsersOf(i) \subseteq Callers
        BY DEF UsersOf
  <2>2. /\ Cardinality(UsersOf(i)) \in Nat /\ Cardinality(Callers) \in Nat
        /\ Cardinality(UsersOf(i)) <= Cardinality(Callers)
        BY <1>1, <2>1, UsersFinite, FS_Subset, FS_CardinalityType
  <2> QED
      BY <2>2
<1> QED
    BY <1>1, <1>2, FS_CardinalityType DEF CountsMatch

(* A caller that counts in or out changes one counter by one, and whoever  *)
(* looks has one move more, or already as many as a counter can be.        *)
LEMMA MovesCover ==
  ASSUME BalanceInv, CountsMatch', NEW c \in Callers, NEW n \in {-1, 1}, AddConnections(c, n),
         choice[c] \in Backends, caller'[c] \notin {"scanning", "picked"},
         \A d \in Callers : d # c => caller'[d] = caller[d]
  PROVE  ScanInv' /\ LeastChosen'
<1> DEFINE M == Cardinality(Callers)
<1>1. M \in Nat /\ \A i \in Backends : connections[i] \in 0..M /\ connections'[i] \in 0..M
  <2>1. M \in Nat /\ \A i \in Backends : connections[i] \in 0..M
        BY CountersBounded DEF BalanceInv
  <2>2. \A i \in Backends : connections'[i] = Cardinality(UsersOf(i)')
        BY DEF CountsMatch
  <2>3. ASSUME NEW i \in Backends PROVE Cardinality(UsersOf(i)') \in 0..M
    <3>1. UsersOf(i)' \subseteq Callers /\ IsFiniteSet(Callers)
          BY LoadBalancerAssumption DEF UsersOf, LoadBalancerAssumption
    <3>2. /\ Cardinality(UsersOf(i)') \in Nat /\ Cardinality(UsersOf(i)') <= M
          BY <3>1, FS_Subset, FS_CardinalityType
    <3> QED
        BY <2>1, <3>2
  <2> QED
      BY <2>1, <2>2, <2>3
<1>2. ASSUME NEW i \in Backends, NEW j \in Backends
      PROVE  connections'[i] - connections'[j] <= connections[i] - connections[j] + 1
  <2>1. connections' = [connections EXCEPT ![choice[c]] = @ + n]
        BY DEF AddConnections
  <2>2. /\ connections'[i] = IF i = choice[c] THEN connections[i] + n ELSE connections[i]
        /\ connections'[j] = IF j = choice[c] THEN connections[j] + n ELSE connections[j]
        BY <2>1 DEF BalanceInv, LBTypeOK
  <2> QED
      BY <1>1, <2>2
<1>3. ASSUME NEW i \in Backends
      PROVE  /\ connections'[i] <= connections[i] + 1
             /\ connections[i] <= connections'[i] + 1
  <2>1. connections' = [connections EXCEPT ![choice[c]] = @ + n]
        BY DEF AddConnections
  <2>2. connections'[i] = IF i = choice[c] THEN connections[i] + n ELSE connections[i]
        BY <2>1 DEF BalanceInv, LBTypeOK
  <2> QED
      BY <1>1, <2>2
<1>4. ASSUME NEW d \in Callers, caller'[d] \in {"scanning", "picked"}, strategy = "least_conn"
      PROVE  /\ caller[d] = caller'[d] /\ choice'[d] \in Backends
             /\ strategy' = strategy /\ choice' = choice
             /\ minConn' = minConn /\ scanned' = scanned
             /\ moves[d] \in 0..M /\ moves'[d] \in 0..M
             /\ moves'[d] = moves[d] + 1 \/ moves'[d] = M
  <2>1. d # c /\ caller[d] = caller'[d]
        BY <1>4
  <2>2. choice'[d] \in Backends /\ moves[d] \in 0..M
        BY <1>4, <2>1 DEF AddConnections, BalanceInv, LBTypeOK
  <2>3. moves'[d] = IF moves[d] < M THEN moves[d] + 1 ELSE moves[d]
        BY <1>4, <2>1 DEF AddConnections, Looks
  <2> QED
      BY <1>1, <2>1, <2>2, <2>3 DEF AddConnections
<1> HIDE DEF M
<1>5. ASSUME NEW d \in Callers, caller'[d] = "scanning"
      PROVE  /\ strategy' = "least_conn"
             /\ scanned'[d] \in 1..N
             /\ minConn'[d] \in 0..M
             /\ connections'[choice'[d]] <= minConn'[d] + moves'[d]
             /\ \A i \in Backends :
                  i < scanned'[d] =>
                    /\ minConn'[d] <= connections'[i] + moves'[d]
                    /\ connections'[choice'[d]] <= connections'[i] + moves'[d]
  <2>1. /\ strategy = "least_conn" /\ scanned[d] \in 1..N /\ minConn[d] \in 0..M
        /\ connections[choice[d]] <= minConn[d] + moves[d]
        /\ \A i \in Backends :
             i < scanned[d] =>
               /\ minConn[d] <= connections[i] + moves[d]
               /\ connections[choice[d]] <= connections[i] + moves[d]
    <3>1. caller[d] = "scanning"
          BY <1>5 DEF BalanceInv, LBTypeOK
    <3> QED
        BY <3>1 DEF BalanceInv, ScanInv, M
  <2>2. /\ choice'[d] \in Backends /\ strategy' = strategy /\ choice' = choice
        /\ minConn' = minConn /\ scanned' = scanned
        /\ moves[d] \in 0..M /\ moves'[d] \in 0..M
        /\ moves'[d] = moves[d] + 1 \/ moves'[d] = M
        BY <1>4, <1>5, <2>1
  <2>3. connections'[choice'[d]] <= minConn'[d] + moves'[d]
        BY <1>1, <1>3, <2>1, <2>2
  <2>4. ASSUME NEW i \in Backends, i < scanned'[d]
        PROVE  /\ minConn'[d] <= connections'[i] + moves'[d]
               /\ connections'[choice'[d]] <= connections'[i] + moves'[d]
    <3>1. /\ minConn[d] <= connections[i] + moves[d]
          /\ connections[choice[d]] <= connections[i] + moves[d]
          BY <2>1, <2>2, <2>4
    <3>2. minConn'[d] <= connections'[i] + moves'[d]
          BY <1>1, <1>3, <2>1, <2>2, <3>1
    <3>3. /\ connections'[choice[d]] - connections'[i]
               <= connections[choice[d]] - connections[i] + 1
          /\ connections[choice[d]] \in 0..M /\ connections'[choice[d]] \in 0..M
          /\ connections[i] \in 0..M /\ connections'[i] \in 0..M
          BY <1>1, <1>2, <2>2
    <3>4. connections'[choice'[d]] <= connections'[i] + moves'[d]
          BY <1>1, <2>2, <3>1, <3>3
    <3> QED
        BY <3>2, <3>4
  <2> QED
      BY <2>1, <2>2, <2>3, <2>4
<1>6. ASSUME NEW d \in Callers, Looks(d)', caller'[d] = "picked", NEW i \in Backends
      PROVE  connections'[choice'[d]] <= connections'[i] + moves'[d]
  <2>1. strategy = "least_conn"
        BY <1>6 DEF AddConnections, Looks
  <2>2. /\ choice'[d] \in Backends /\ choice' = choice /\ caller[d] = "picked"
        /\ moves[d] \in 0..M /\ moves'[d] \in 0..M
        /\ moves'[d] = moves[d] + 1 \/ moves'[d] = M
        BY <1>4, <1>6, <2>1
  <2>3. connections[choice[d]] <= connections[i] + moves[d]
        BY <2>1, <2>2 DEF BalanceInv, LeastChosen, Looks
  <2>4. /\ connections'[choice[d]] - connections'[i] <= connections[choice[d]] - connections[i] + 1
        /\ connections[choice[d]] \in 0..M /\ connections'[choice[d]] \in 0..M
        /\ connections[i] \in 0..M /\ connections'[i] \in 0..M
        BY <1>1, <1>2, <2>2
  <2> QED
      BY <1>1, <2>2, <2>3, <2>4
<1> QED
    BY <1>5, <1>6 DEF ScanInv, LeastChosen, M

LEMMA RemainderType ==
  ASSUME NEW u \in Nat PROVE Remainder(AsInt(u)) \in Int
<1> USE LoadBalancerAssumption DEF LoadBalancerAssumption
<1>1. AsInt(u) \in Int
      BY DEF AsInt
<1>2. \A a \in Int : Remainder(a) \in Int
      BY DEF Remainder
<1> QED
    BY <1>1, <1>2

LEMMA BalanceStep == BalanceInv /\ [LBNext]_lbVars => BalanceInv'
<1> SUFFICES ASSUME BalanceInv, [LBNext]_lbVars PROVE BalanceInv'
    OBVIOUS
<1> USE LoadBalancerAssumption DEF LoadBalancerAssumption, BalanceInv
<1>1. ASSUME NEW c \in Callers, NextRoundRobin(c) PROVE BalanceInv'
  <2> USE <1>1 DEF NextRoundRobin
  <2>1. choice'[c] \in Int
        BY RemainderType DEF LBTypeOK
  <2>2. index' \in 0..(IndexValues - 1)
        BY DEF LBTypeOK, Turn
  <2>3. LBTypeOK'
        BY <2>1, <2>2 DEF LBTypeOK
  <2>4. ScanInv' /\ LeastChosen'
        BY DEF LBTypeOK, ScanInv, LeastChosen, Looks
  <2>5. CountsMatch'
        BY CountsKept DEF LBTypeOK, UsersOf
  <2> QED
      BY <2>3, <2>4, <2>5
<1>2. ASSUME NEW c \in Callers, NextRandom(c) PROVE BalanceInv'
  <2> USE <1>2 DEF NextRandom
  <2>1. LBTypeOK'
        BY DEF LBTypeOK, Backends
  <2>2. ScanInv' /\ LeastChosen'
        BY DEF LBTypeOK, ScanInv, LeastChosen, Looks
  <2>3. CountsMatch'
        BY CountsKept DEF LBTypeOK, UsersOf
  <2> QED
      BY <2>1, <2>2, <2>3
<1>3. ASSUME NEW c \in Callers, ScanFirst(c) PROVE BalanceInv'
  <2> USE <1>3 DEF ScanFirst
  <2>1. /\ Cardinality(Callers) \in Nat
        /\ \A i \in Backends : connections[i] \in 0..Cardinality(Callers)
        BY CountersBounded
  <2>2. 0 \in Backends
        BY DEF Backends
  <2>3. LBTypeOK'
        BY <2>1, <2>2 DEF LBTypeOK
  <2>4. ASSUME NEW d \in Callers, d # c
        PROVE  /\ caller'[d] = caller[d] /\ choice'[d] = choice[d] /\ scanned'[d] = scanned[d]
               /\ minConn'[d] = minConn[d] /\ moves'[d] = moves[d]
        BY <2>4 DEF LBTypeOK
  <2>5. /\ caller'[c] = "scanning" /\ choice'[c] = 0 /\ scanned'[c] = 1
        /\ minConn'[c] = connections[0] /\ moves'[c] = 0
        BY DEF LBTypeOK
  <2>6. \A i \in Backends : i < 1 => i = 0
        BY DEF Backends
  <2>7. ScanInv'
        BY <2>1, <2>2, <2>4, <2>5, <2>6 DEF ScanInv
  <2>8. LeastChosen'
        BY <2>4, <2>5 DEF LeastChosen, Looks
  <2>9. CountsMatch'
        BY CountsKept DEF LBTypeOK, UsersOf
  <2> QED
      BY <2>3, <2>7, <2>8, <2>9
<1>4. ASSUME NEW c \in Callers, ScanNext(c) PROVE BalanceInv'
  <2> USE <1>4 DEF ScanNext
  <2>1. scanned[c] \in Backends
        BY DEF LBTypeOK, ScanInv, Backends
  <2>2. LBTypeOK'
        BY <2>1 DEF LBTypeOK, Backends
  <2>3. ASSUME NEW d \in Callers, caller'[d] = "scanning"
        PROVE  /\ strategy' = "least_conn"
               /\ scanned'[d] \in 1..N
               /\ minConn'[d] \in 0..Cardinality(Callers)
               /\ connections'[choice'[d]] <= minConn'[d] + moves'[d]
               /\ \A i \in Backends :
                    i < scanned'[d] =>
                      /\ minConn'[d] <= connections'[i] + moves'[d]
                      /\ connections'[choice'[d]] <= connections'[i] + moves'[d]
    <3>1. CASE d # c
      <4>1. /\ scanned'[d] = scanned[d] /\ minConn'[d] = minConn[d] /\ choice'[d] = choice[d]
            /\ connections' = connections /\ caller'[d] = caller[d] /\ moves'[d] = moves[d]
            /\ strategy' = strategy
            BY <3>1 DEF LBTypeOK
      <4> QED
          BY ONLY BalanceInv, <2>3, <4>1 DEF BalanceInv, ScanInv
    <3>2. CASE d = c
      <4>1. /\ scanned[c] \in 1..N /\ scanned[c] < N /\ N \in Nat
            /\ scanned'[c] = scanned[c] + 1 /\ strategy = "least_conn"
            /\ \A i \in Backends : i \in Int
            /\ connections' = connections /\ moves' = moves /\ strategy' = strategy
            BY DEF LBTypeOK, ScanInv, Backends
      <4>2. /\ Cardinality(Callers) \in Nat
            /\ \A i \in Backends : connections[i] \in 0..Cardinality(Callers)
            /\ moves[c] \in 0..Cardinality(Callers) /\ choice[c] \in Backends
            BY CountersBounded DEF LBTypeOK
      <4>3. /\ minConn[c] \in 0..Cardinality(Callers)
            /\ connections[choice[c]] <= minConn[c] + moves[c]
            /\ \A i \in Backends :
                 i < scanned[c] =>
                   /\ minConn[c] <= connections[i] + moves[c]
                   /\ connections[choice[c]] <= connections[i] + moves[c]
            BY DEF ScanInv
      <4>4. \/ /\ connections[scanned[c]] < minConn[c]
               /\ choice'[c] = scanned[c] /\ minConn'[c] = connections[scanned[c]]
            \/ /\ ~(connections[scanned[c]] < minConn[c])
               /\ choice'[c] = choice[c] /\ minConn'[c] = minConn[c]
            BY DEF LBTypeOK
      <4>5. ASSUME NEW i \in Backends, i < scanned[c] + 1
            PROVE  /\ minConn'[c] <= connections[i] + moves[c]
                   /\ connections[choice'[c]] <= connections[i] + moves[c]
        <5>1. i < scanned[c] \/ i = scanned[c]
              BY <4>1, <4>5
        <5> QED
            BY ONLY <2>1, <4>2, <4>3, <4>4, <5>1
      <4>6. connections[choice'[c]] <= minConn'[c] + moves[c]
            BY ONLY <2>1, <4>2, <4>3, <4>4
      <4>7. minConn'[c] \in 0..Cardinality(Callers) /\ scanned'[c] \in 1..N
            BY ONLY <2>1, <4>1, <4>2, <4>3, <4>4
      <4> QED
          BY ONLY <3>2, <4>1, <4>5, <4>6, <4>7
    <3> QED
        BY <3>1, <3>2
  <2>4. ScanInv'
        BY <2>3 DEF ScanInv
  <2>5. LeastChosen'
    <3> SUFFICES ASSUME NEW d \in Callers, Looks(d)', caller'[d] = "picked", NEW i \in Backends
                 PROVE  connections'[choice'[d]] <= connections'[i] + moves'[d]
        BY DEF LeastChosen
    <3>1. d # c /\ choice'[d] = choice[d]
          BY DEF LBTypeOK
    <3> QED
        BY <3>1 DEF LeastChosen, Looks
  <2>6. CountsMatch'
        BY CountsKept DEF LBTypeOK, UsersOf
  <2> QED
      BY <2>2, <2>4, <2>5, <2>6
<1>5. ASSUME NEW c \in Callers, ScanDone(c) PROVE BalanceInv'
  <2> USE <1>5 DEF ScanDone
  <2>1. LBTypeOK'
        BY DEF LBTypeOK
  <2>2. ScanInv' /\ LeastChosen'
        BY DEF LBTypeOK, ScanInv, LeastChosen, Backends, Looks
  <2>3. CountsMatch'
        BY CountsKept DEF LBTypeOK, UsersOf
  <2> QED
      BY <2>1, <2>2, <2>3
<1>6. ASSUME NEW c \in Callers, CountIn(c) PROVE BalanceInv'
  <2>1. choice[c] \in Backends /\ Cardinality(Callers) \in Nat
        BY <1>6, CountersBounded DEF CountIn, LBTypeOK
  <2>2. LBTypeOK'
        BY <1>6, <2>1 DEF CountIn, AddConnections, LBTypeOK
  <2>3. CountsMatch'
        BY <1>6, CountsAfterJoin DEF CountIn
  <2>4. caller'[c] = "dialing" /\ \A d \in Callers : d # c => caller'[d] = caller[d]
        BY <1>6 DEF CountIn, LBTypeOK
  <2> QED
      BY <1>6, <2>1, <2>2, <2>3, <2>4, MovesCover DEF CountIn
<1>7. ASSUME NEW c \in Callers, DialBackend(c) PROVE BalanceInv'
  <2> USE <1>7 DEF DialBackend
  <2>1. LBTypeOK'
        BY DEF LBTypeOK
  <2>2. ScanInv' /\ LeastChosen'
        BY DEF LBTypeOK, ScanInv, LeastChosen, Looks
  <2>3. CountsMatch'
        BY CountsKept DEF LBTypeOK, UsersOf
  <2> QED
      BY <2>1, <2>2, <2>3
<1>8. ASSUME NEW c \in Callers, DialBackendFails(c) \/ Release(c) PROVE BalanceInv'
  <2>1. /\ caller[c] \in {"dialing", "connected"} /\ choice[c] \in Backends
        /\ AddConnections(c, -1) /\ caller' = [caller EXCEPT ![c] = "idle"]
        /\ Cardinality(Callers) \in Nat
        BY <1>8, CountersBounded DEF DialBackendFails, Release, LBTypeOK
  <2>2. LBTypeOK'
        BY <2>1 DEF AddConnections, LBTypeOK
  <2>3. CountsMatch'
        BY <2>1, CountsAfterLeave
  <2>4. caller'[c] = "idle" /\ \A d \in Callers : d # c => caller'[d] = caller[d]
        BY <2>1 DEF LBTypeOK
  <2> QED
      BY <2>1, <2>2, <2>3, <2>4, MovesCover
<1>9. CASE UNCHANGED lbVars
  <2>1. LBTypeOK'
        BY <1>9 DEF lbVars, LBTypeOK
  <2>2. ScanInv' /\ LeastChosen'
        BY <1>9 DEF lbVars, ScanInv, LeastChosen, Looks
  <2> QED
      BY <1>9, <2>1, <2>2, CountsKept DEF lbVars, UsersOf
<1> QED
    BY <1>1, <1>2, <1>3, <1>4, <1>5, <1>6, <1>7, <1>8, <1>9 DEF LBNext, CallerStep

LEMMA BalanceInvariant == LBSpec => []BalanceInv
BY BalanceInit, BalanceStep, PTL DEF LBSpec

(* However many callers there are, a counter never differs from the number *)
(* of those that use its back end.                                         *)
THEOREM CountersAreExact == LBSpec => []CountsMatch
BY BalanceInvariant, PTL DEF BalanceInv

(* However many callers scan, count in and count out at once, the back end *)
(* that LeastConn returns is at most as many connections from the least    *)
(* one as counters were changed during the call.                           *)
THEOREM LeastConnFindsLeast == LBSpec => []LeastChosen
BY BalanceInvariant, PTL DEF BalanceInv

(* RoundRobin takes the back ends in turn: last is the one before index,   *)
(* until index no longer fits into an int; and the index does not come     *)
(* back to zero, since a negative remainder, which ends the process, comes *)
(* first.                                                                  *)
TurnInv ==
  strategy = "round_robin" /\ N > 1 /\ ~Panicked =>
    /\ index < IntValues
    /\ index = 0 => last = -1
    /\ index > 0 /\ index <= IntValues \div 2 => last = (index - 1) % N

LEMMA Division ==
  ASSUME NEW a \in Nat, NEW n \in Nat \ {0}
  PROVE  (a % n) \in 0..(n - 1) /\ a \div n \in Nat /\ a = n * (a \div n) + (a % n)
OBVIOUS

LEMMA UniqueRemainder ==
  ASSUME NEW q \in Nat, NEW n \in Nat \ {0}, NEW r \in 0..(n - 1)
  PROVE  (n * q + r) % n = r
OBVIOUS

LEMMA NextRemainder ==
  ASSUME NEW a \in Nat, NEW n \in Nat \ {0}
  PROVE  ((a % n) + 1) % n = (a + 1) % n
<1> DEFINE r == a % n
           q == a \div n
<1>1. r \in 0..(n - 1) /\ q \in Nat /\ a = n * q + r
      BY Division
<1> HIDE DEF r, q
<1>2. CASE r = n - 1
  <2>1. a + 1 = n * (q + 1) + 0 /\ r + 1 = n * 1 + 0
        BY <1>1, <1>2
  <2>2. (n * (q + 1) + 0) % n = 0 /\ (n * 1 + 0) % n = 0
        BY <1>1, UniqueRemainder
  <2> QED
      BY <2>1, <2>2 DEF r
<1>3. CASE r # n - 1
  <2>1. a + 1 = n * q + (r + 1) /\ r + 1 = n * 0 + (r + 1) /\ r + 1 \in 0..(n - 1)
        BY <1>1, <1>3
  <2>2. (n * q + (r + 1)) % n = r + 1 /\ (n * 0 + (r + 1)) % n = r + 1
        BY <1>1, <2>1, UniqueRemainder
  <2> QED
      BY <2>1, <2>2 DEF r
<1> QED
    BY <1>2, <1>3

(* As long as the index fits into an int, the choice is its remainder.     *)
LEMMA ChoiceInTurn ==
  ASSUME NEW i \in Nat, i < IntValues \div 2
  PROVE  Remainder(AsInt(i)) = i % N /\ i % N \in Backends
<1> USE LoadBalancerAssumption DEF LoadBalancerAssumption
<1>1. i < IntValues /\ AsInt(i) = i
      BY DEF AsInt
<1>2. Remainder(i) = i % N
      BY DEF Remainder
<1>3. i % N \in Backends
      BY Division DEF Backends
<1> QED
    BY <1>1, <1>2, <1>3

(* The last index of the int's range is -1, whose remainder is -1.         *)
LEMMA LastIndexPanics ==
  ASSUME NEW i \in Nat, i = IntValues - 1, N > 1
  PROVE  Remainder(AsInt(i)) \notin Backends
<1> USE LoadBalancerAssumption DEF LoadBalancerAssumption
<1>1. i % IntValues = i /\ ~(i < IntValues \div 2)
      OBVIOUS
<1>2. PICK m \in Int : m = AsInt(i) /\ m + 1 = 0
      BY <1>1 DEF AsInt
<1>3. Remainder(m) + 1 = 0
  <2>1. PICK k \in Nat : k = 1 /\ -m = k
        BY <1>2
  <2>2. k % N = k
        BY <2>1
  <2>3. Remainder(m) = -(k % N)
        BY <1>2, <2>1 DEF Remainder
  <2> QED
      BY <2>1, <2>2, <2>3
<1> QED
    BY <1>2, <1>3 DEF Backends

LEMMA TurnInit == LBInit => TurnInv
BY LoadBalancerAssumption DEF LoadBalancerAssumption, LBInit, TurnInv

LEMMA TurnStep ==
  ASSUME BalanceInv, TurnInv, [LBNext]_lbVars
  PROVE  TurnInv'
<1> USE LoadBalancerAssumption DEF LoadBalancerAssumption, BalanceInv
<1>1. ASSUME NEW c \in Callers, NextRoundRobin(c), ~Panicked PROVE TurnInv'
  <2> SUFFICES ASSUME N > 1, ~Panicked' PROVE TurnInv'
      BY DEF TurnInv
  <2>1. /\ index \in Nat /\ index < IntValues
        /\ last' = Remainder(AsInt(index)) /\ index' = (index + 1) % IndexValues
        BY <1>1 DEF NextRoundRobin, Turn, LBTypeOK, TurnInv
  <2>2. Remainder(AsInt(index)) \in Backends
        BY <1>1 DEF NextRoundRobin, LBTypeOK, Panicked
  <2>3. index # IntValues - 1
        BY <2>1, <2>2, LastIndexPanics
  <2>4. index' = index + 1 /\ index' < IntValues
        BY <2>1, <2>3
  <2>5. CASE index < IntValues \div 2
        BY <2>1, <2>4, <2>5, ChoiceInTurn DEF TurnInv
  <2>6. CASE ~(index < IntValues \div 2)
        BY <2>1, <2>4, <2>6 DEF TurnInv
  <2> QED
      BY <2>5, <2>6
<1>2. ASSUME NEW c \in Callers, CallerStep(c), ~NextRoundRobin(c), ~Panicked PROVE TurnInv'
  <2>1. index' = index /\ last' = last /\ strategy' = strategy
        BY <1>2 DEF CallerStep, NextRandom, ScanFirst, ScanNext, ScanDone, CountIn, DialBackend,
                    DialBackendFails, Release, AddConnections
  <2> QED
      BY <1>2, <2>1 DEF TurnInv
<1>3. CASE UNCHANGED lbVars
      BY <1>3 DEF lbVars, TurnInv, Panicked
<1> QED
    BY <1>1, <1>2, <1>3 DEF LBNext

(* However many callers of RoundRobin interleave, they take the back ends  *)
(* strictly in turn, and none panics before the index has outgrown an int  *)
(* (Next in loadbalancer.go); neither does the index come round to zero    *)
(* and begin a turn in its middle: a negative choice comes first.          *)
THEOREM RoundRobinInTurn == LBSpec => InTurn
<1>1. BalanceInv /\ TurnInv /\ [LBNext]_lbVars => TurnInv'
      BY TurnStep
<1>2. BalanceInv /\ TurnInv /\ [LBNext]_lbVars =>
        [\A c \in Callers :
           /\ strategy = "round_robin"
           /\ caller[c] = "idle" /\ caller'[c] # "idle"
           /\ index < IntValues \div 2
           => caller'[c] = "picked" /\ choice'[c] = (last + 1) % N]_lbVars
  <2> USE LoadBalancerAssumption DEF LoadBalancerAssumption, BalanceInv
  <2> SUFFICES ASSUME BalanceInv, TurnInv, LBNext, NEW c \in Callers,
                      strategy = "round_robin",
                      caller[c] = "idle", caller'[c] # "idle", index < IntValues \div 2
               PROVE  caller'[c] = "picked" /\ choice'[c] = (last + 1) % N
      OBVIOUS
  <2>1. ~Panicked /\ NextRoundRobin(c)
        BY DEF LBNext, CallerStep, NextRoundRobin, NextRandom, ScanFirst, ScanNext, ScanDone,
               CountIn, DialBackend, DialBackendFails, Release, LBTypeOK
  <2>2. index \in Nat
        BY DEF LBTypeOK
  <2>3. Remainder(AsInt(index)) = index % N /\ index % N \in Backends
        BY <2>2, ChoiceInTurn
  <2>4. caller'[c] = "picked" /\ choice'[c] = index % N
        BY <2>1, <2>3 DEF NextRoundRobin, LBTypeOK
  <2>5. (last + 1) % N = index % N
    <3>1. CASE N = 1
          BY <2>2, <3>1 DEF LBTypeOK
    <3>2. CASE N > 1 /\ index = 0
          BY <2>1, <3>2 DEF TurnInv
    <3>3. CASE N > 1 /\ index > 0
      <4>1. PICK a \in Nat : index = a + 1
            BY <2>2, <3>3
      <4>2. last = a % N
            BY <2>1, <3>3, <4>1 DEF TurnInv
      <4>3. ((a % N) + 1) % N = (a + 1) % N
            BY NextRemainder
      <4> QED
          BY <4>1, <4>2, <4>3
    <3> QED
        BY <2>2, <3>1, <3>2, <3>3
  <2> QED
      BY <2>4, <2>5
<1> QED
    BY TurnInit, BalanceInvariant, <1>1, <1>2, PTL DEF LBSpec, InTurn

-----------------------------------------------------------------------------
(* Heartbeat.                                                              *)
LEMMA BeatInit == HBInit => HBTypeOK
<1> SUFFICES ASSUME HBInit PROVE HBTypeOK
    OBVIOUS
<1>1. closes \in Nat /\ stops \in 0..MaxStops /\ pings \in 0..InFlight /\ pongs \in 0..InFlight
      BY HeartbeatAssumption DEF HeartbeatAssumption, HBInit
<1> QED
    BY <1>1, Zenon DEF HBInit, HBTypeOK

(* What once.Do(close) leaves, for either flag.                            *)
LEMMA OnceTypes ==
  ASSUME closes \in Nat, NEW flag \in BOOLEAN, NEW flagNext, NEW closesNext,
         IF closes = 0
           THEN flagNext = TRUE /\ closesNext = 1
           ELSE flagNext = flag /\ closesNext = closes
  PROVE  flagNext \in BOOLEAN /\ closesNext \in Nat
<1>1. 1 \in Nat
      OBVIOUS
<1> QED
    BY <1>1, Zenon

LEMMA BeatStep == HBTypeOK /\ [HBNext]_hbVars => HBTypeOK'
<1> USE HeartbeatAssumption DEF HeartbeatAssumption, HBTypeOK, monitorVars, clientVars
<1> SUFFICES ASSUME HBTypeOK, [HBNext]_hbVars PROVE HBTypeOK'
    OBVIOUS
<1>1. CASE StartHeartbeat
      BY <1>1 DEF StartHeartbeat
<1>2. CASE SendPing
      BY <1>2 DEF SendPing
<1>3. CASE PingFails
  <2> USE <1>3 DEF PingFails
  <2>1. Once(deadClosed) \/ UNCHANGED <<deadClosed, closes>>
        BY Zenon
  <2>2. deadClosed' \in BOOLEAN /\ closes' \in Nat
        BY <2>1, OnceTypes DEF Once
  <2> QED
      BY <2>2
<1>4. CASE MonitorStops
      BY <1>4 DEF MonitorStops
<1>5. CASE StopMonitor
  <2>1. stopClosed' \in BOOLEAN /\ closes' \in Nat
        BY <1>5, OnceTypes DEF StopMonitor, Once
  <2> QED
      BY <1>5, <2>1 DEF StopMonitor
<1>6. CASE LoopHead
      BY <1>6 DEF LoopHead
<1>7. CASE ReadPing
      BY <1>7 DEF ReadPing
<1>8. CASE WritePong
      BY <1>8 DEF WritePong
<1>9. CASE ResponderFails
      BY <1>9 DEF ResponderFails
<1>10. CASE ReadPong
  <2>1. pongs > 0 /\ pongs' = pongs - 1
        BY <1>10, Zenon DEF ReadPong
  <2>2. pongs' \in 0..InFlight
        BY <2>1
  <2> QED
      BY <1>10, <2>2, Zenon DEF ReadPong
<1>11. CASE StopClient \/ ClientHangs
      BY <1>11 DEF StopClient, ClientHangs
<1>12. CASE WireBreaks
      BY <1>12 DEF WireBreaks
<1>13. CASE TCPGivesUp
      BY <1>13 DEF TCPGivesUp
<1>14. CASE UNCHANGED hbVars
      BY <1>14 DEF hbVars
<1> QED
    BY <1>1, <1>2, <1>3, <1>4, <1>5, <1>6, <1>7, <1>8, <1>9, <1>10, <1>11, <1>12, <1>13,
       <1>14
    DEF HBNext, Pinger, Responder

LEMMA BeatInvariant == HBSpec => []HBTypeOK
BY BeatInit, BeatStep, PTL DEF HBSpec

-----------------------------------------------------------------------------
(* HolePunch.  A socket's address is settled before the first punch, so    *)
(* that what arrives at one from the announced address of the partner was  *)
(* sent from there, and can be answered.                                   *)
BeforeSocket == {"start", "announce", "learn"}

PunchInv ==
  /\ PPTypeOK
  /\ \A p \in Peers :
       /\ peerAt[p] \in BeforeSocket => attempt[p] = 0 /\ inbox[p] = <<>>
       /\ peerAt[p] \in {"await", "done"} => attempt[p] > 0
       /\ flying[p] <= attempt[Partner(p)]
       /\ \A i \in 1..Len(inbox[p]) :
            inbox[p][i] = "announced" =>
              bound[p] /\ bound[Partner(p)] /\ attempt[Partner(p)] > 0

LEMMA PartnerOf ==
  ASSUME NEW p \in Peers
  PROVE  /\ Partner(p) \in Peers /\ Partner(p) # p
         /\ \A q \in Peers : q # p => q = Partner(p) /\ p = Partner(q)
<1> USE HolePunchAssumption DEF HolePunchAssumption
<1>1. \A q \in Peers : Partner(q) \in Peers /\ Partner(q) # q
      BY DEF Partner
<1> QED
    BY <1>1

LEMMA PunchInit == PPInit => PunchInv /\ SuccessIsReal
<1> SUFFICES ASSUME PPInit PROVE PunchInv /\ SuccessIsReal
    OBVIOUS
<1>1. PPTypeOK
      BY HolePunchAssumption DEF HolePunchAssumption, PPInit, PPTypeOK
<1>2. PunchInv
      BY <1>1, PartnerOf DEF PPInit, PunchInv
<1> QED
    BY <1>2 DEF PPInit, SuccessIsReal

LEMMA PunchStep == PunchInv /\ SuccessIsReal /\ [PPNext]_ppVars => PunchInv' /\ SuccessIsReal'
<1> SUFFICES ASSUME PunchInv, SuccessIsReal, [PPNext]_ppVars
             PROVE  PunchInv' /\ SuccessIsReal'
    OBVIOUS
<1> USE HolePunchAssumption, PartnerOf
    DEF HolePunchAssumption, PunchInv, PPTypeOK, SuccessIsReal, BeforeSocket, Punching, SocketOpen
<1>1. ASSUME NEW p \in Peers, Discover(p) PROVE PunchInv' /\ SuccessIsReal'
      BY <1>1 DEF Discover
<1>2. ASSUME NEW p \in Peers, ExchangeFails(p) PROVE PunchInv' /\ SuccessIsReal'
      BY <1>2 DEF ExchangeFails
<1>3. ASSUME NEW p \in Peers, Announce(p) PROVE PunchInv' /\ SuccessIsReal'
      BY <1>3 DEF Announce
<1>4. ASSUME NEW p \in Peers, Learn(p) PROVE PunchInv' /\ SuccessIsReal'
  <2>1. PICK b \in {natKeeps[p], FALSE} : bound' = [bound EXCEPT ![p] = b]
        BY <1>4, Zenon DEF Learn
  <2>2. bound' \in [Peers -> BOOLEAN]
    <3>1. natKeeps[p] \in BOOLEAN
          BY Zenon
    <3>2. b \in BOOLEAN
          BY <2>1, <3>1, Zenon
    <3> QED
        BY <2>1, <3>2
  <2>3. inbox[p] = <<>> /\ attempt[p] = 0
        BY <1>4 DEF Learn
  <2>4. ASSUME NEW q \in Peers, NEW i \in 1..Len(inbox[q]), inbox[q][i] = "announced"
        PROVE  q # p /\ Partner(q) # p
        BY <2>3, <2>4
  <2> QED
      BY <1>4, <2>1, <2>2, <2>3, <2>4 DEF Learn
<1>5. ASSUME NEW p \in Peers, SendPunch(p) PROVE PunchInv' /\ SuccessIsReal'
      BY <1>5 DEF SendPunch
<1>6. ASSUME NEW p \in Peers, ReceivePunch(p) PROVE PunchInv' /\ SuccessIsReal'
      BY <1>6 DEF ReceivePunch
<1>7. ASSUME NEW p \in Peers, AttemptOver(p) PROVE PunchInv' /\ SuccessIsReal'
  <2>1. CASE inbox' = inbox
        BY <1>7, <2>1 DEF AttemptOver
  <2>2. CASE inbox[p] # <<>> /\ inbox' = [inbox EXCEPT ![p] = Tail(@)]
        BY <1>7, <2>2 DEF AttemptOver
  <2> QED
      BY <1>7, <2>1, <2>2 DEF AttemptOver
<1>8. ASSUME NEW p \in Peers, PunchFails(p) PROVE PunchInv' /\ SuccessIsReal'
      BY <1>8 DEF PunchFails
<1>9. ASSUME NEW p \in Peers, PunchArrives(p) PROVE PunchInv' /\ SuccessIsReal'
      BY <1>9 DEF PunchArrives
<1>10. ASSUME NEW p \in Peers, OtherArrives(p) PROVE PunchInv' /\ SuccessIsReal'
  <2>1. inbox' = [inbox EXCEPT ![p] = Append(@, "other")]
        BY <1>10 DEF OtherArrives
  <2>2. /\ flying' \in [Peers -> 0..Attempts]
        /\ \A q \in Peers : flying'[q] <= flying[q]
    <3>1. \/ flying' = flying
          \/ flying[p] > 0 /\ flying' = [flying EXCEPT ![p] = @ - 1]
          BY <1>10, Zenon DEF OtherArrives
    <3> QED
        BY <3>1
  <2>3. PPTypeOK'
    <3>1. inbox' \in [Peers -> Seq({"announced", "other"})]
          BY <2>1
    <3>2. strange' \in 0..MaxStrange
          BY <1>10 DEF OtherArrives
    <3> QED
        BY <1>10, <2>2, <3>1, <3>2 DEF OtherArrives
  <2>4. ASSUME NEW q \in Peers, NEW i \in 1..Len(inbox'[q]), inbox'[q][i] = "announced"
        PROVE  i \in 1..Len(inbox[q]) /\ inbox[q][i] = "announced"
        BY <2>1, <2>4
  <2>5. UNCHANGED <<natKeeps, peerAt, announced, bound, attempt>> /\ SocketOpen(p)
        BY <1>10 DEF OtherArrives
  <2>6. ASSUME NEW q \in Peers
        PROVE  /\ peerAt[q] \in BeforeSocket => attempt[q] = 0 /\ inbox'[q] = <<>>
               /\ peerAt[q] \in {"await", "done"} => attempt[q] > 0
    <3>1. CASE q = p
          BY <2>5, <3>1
    <3>2. CASE q # p
          BY <2>1, <3>2
    <3> QED
        BY <3>1, <3>2
  <2>7. ASSUME NEW q \in Peers
        PROVE  flying'[q] <= attempt[Partner(q)]
    <3>1. /\ flying[q] \in Nat /\ flying'[q] \in Nat /\ attempt[Partner(q)] \in Nat
          /\ flying[q] <= attempt[Partner(q)]
          BY <2>2
    <3> QED
        BY <2>2, <3>1
  <2>8. PunchInv'
        BY <2>3, <2>4, <2>5, <2>6, <2>7
  <2> QED
      BY <2>5, <2>8
<1>11. ASSUME NEW p \in Peers, PunchLost(p) PROVE PunchInv' /\ SuccessIsReal'
      BY <1>11 DEF PunchLost
<1>12. CASE UNCHANGED ppVars
      BY <1>12 DEF ppVars
<1> QED
    BY <1>1, <1>2, <1>3, <1>4, <1>5, <1>6, <1>7, <1>8, <1>9, <1>10, <1>11, <1>12
    DEF PPNext, PeerStep, NetworkStep

LEMMA PunchInvariant == PPSpec => [](PunchInv /\ SuccessIsReal)
BY PunchInit, PunchStep, PTL DEF PPSpec

(* A peer that takes the hole for punched can send and receive through it. *)
THEOREM PunchedHolesAreReal == PPSpec => []SuccessIsReal
BY PunchInvariant, PTL

-----------------------------------------------------------------------------
(* All the packages.  A step of MCNext is a step of one package that       *)
(* leaves the variables of the others alone.                               *)
LEMMA PackagesRun == MCSpec => ACSpec /\ LBSpec /\ HBSpec /\ PPSpec /\ HPSpec /\ Spec
<1>1. MCInit => ACInit /\ LBInit /\ HBInit /\ PPInit /\ HPInit /\ Init
      BY DEF MCInit
<1>2. [MCNext]_allVars =>
        /\ [ACNext]_acVars /\ [LBNext]_lbVars /\ [HBNext]_hbVars
        /\ [PPNext]_ppVars /\ [HPNext]_hpVars /\ [Next]_vars
      BY DEF MCNext, allVars, InAutoCert, InLoadBalancer, InHeartbeat, InP2P, InHttpProxy, InRelay,
             InFraming
<1> QED
    BY <1>1, <1>2, PTL DEF MCSpec, ACSpec, LBSpec, HBSpec, PPSpec, HPSpec, Spec

(* Whatever the packages do at once, their variables keep their types: an  *)
(* idx that does not panic is a back end (loadbalancer.go), no more pings  *)
(* or pongs are on their way than fit there (heartbeat.go), no peer        *)
(* punches more often than it may (p2p.go).                                *)
THEOREM TypesAreCorrect == MCSpec => []TypesOK
<1>1. CertInv /\ BalanceInv /\ HBTypeOK /\ PunchInv /\ HPTypeOK /\ TypeOK => TypesOK
      BY DEF CertInv, BalanceInv, PunchInv, TypesOK
<1> QED
    BY PackagesRun, CertInvariant, BalanceInvariant, BeatInvariant, PunchInvariant, ProxyTypes,
       TypeCorrect, <1>1, PTL
================================================================================
