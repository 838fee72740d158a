--------------------------- MODULE FairPoolProofs ---------------------------
(***************************************************************************)
(* Proofs about SessionPool and FairPool, for any sets of sessions and of  *)
(* handlers.                                                               *)
(***************************************************************************)
EXTENDS FairPool, PoolOpsProofs

-----------------------------------------------------------------------------
(* The inductive invariant.  QueueOrder needs NoDuplicates: a second copy  *)
(* of the session that pick() moves to the end would stay in front.        *)
IInv ==
  /\ HTypeOK
  /\ NoDuplicates
  /\ QueueOrder

LEMMA IInvInit == HInit => IInv
<1> SUFFICES ASSUME HInit PROVE IInv
  OBVIOUS
<1> USE DEF HInit, Init, NothingSince
<1>1. HTypeOK
  BY DEF HTypeOK, TypeOK
<1>2. NoDuplicates /\ QueueOrder
  BY DEF NoDuplicates, QueueOrder
<1> QED
  BY <1>1, <1>2 DEF IInv

LEMMA AddKeepsIInv ==
  ASSUME IInv, NEW s \in Sessions, HAdd(s)
  PROVE  IInv'
<1> USE DEF IInv, HTypeOK, TypeOK, HAdd, Add
<1>0. /\ pool \in Seq(Sessions)
      /\ pool' = Added(pool, s)
  OBVIOUS
<1>1. /\ pool' \in Seq(Sessions)
      /\ Len(pool) \in Nat
      /\ Len(pool') = Len(pool) + 1
      /\ \A i \in 1..Len(pool) : pool'[i] = pool[i]
      /\ pool'[Len(pool) + 1] = s
  <2> HIDE DEF IInv, HTypeOK, TypeOK, HAdd, Add
  <2>1. Len(pool) \in Nat
    BY <1>0, LenProperties
  <2>2. /\ Added(pool, s) \in Seq(Sessions)
        /\ Len(Added(pool, s)) = Len(pool) + 1
        /\ \A i \in 1..Len(pool) : Added(pool, s)[i] = pool[i]
        /\ Added(pool, s)[Len(pool) + 1] = s
    BY <1>0, AddedProperties
  <2> QED
    BY <1>0, <2>1, <2>2
<1>2. \A i \in 1..Len(pool) : pool[i] \in Sessions /\ pool[i] # s
  BY ElementOfSeq DEF Referenced, Members
<1>3. HTypeOK'
  BY <1>1
<1>4. NoDuplicates'
  <2> SUFFICES ASSUME NEW i \in 1..(Len(pool) + 1), NEW j \in 1..(Len(pool) + 1),
                      pool'[i] = pool'[j]
               PROVE  i = j
    BY <1>1 DEF NoDuplicates
  <2>1. CASE i = Len(pool) + 1 \/ j = Len(pool) + 1
    BY <1>1, <1>2, <2>1
  <2>2. CASE i # Len(pool) + 1 /\ j # Len(pool) + 1
    BY <1>1, <2>2 DEF NoDuplicates
  <2> QED
    BY <2>1, <2>2
<1>5. QueueOrder'
  <2> SUFFICES ASSUME NEW i \in 1..(Len(pool) + 1), NEW j \in 1..(Len(pool) + 1),
                      pool'[j] \in since'[pool'[i]]
               PROVE  i < j
    BY <1>1 DEF QueueOrder
  <2>1. CASE i = Len(pool) + 1
    BY <1>1, <2>1
  <2>2. CASE i # Len(pool) + 1 /\ j = Len(pool) + 1
    BY <1>1, <2>2
  <2>3. CASE i # Len(pool) + 1 /\ j # Len(pool) + 1
    BY <1>1, <1>2, <2>3 DEF QueueOrder
  <2> QED
    BY <2>1, <2>2, <2>3
<1> QED
  BY <1>3, <1>4, <1>5

LEMMA PickKeepsIInv ==
  ASSUME IInv, NEW h \in Handlers, NEW k \in 1..Len(pool), HPick(h, k)
  PROVE  IInv'
<1> USE DEF IInv, HTypeOK, TypeOK, HPick, Pick
<1> DEFINE m == Len(pool) - k
<1>1. /\ pool' \in Seq(Sessions)
      /\ Len(pool') = m + 1
      /\ \A i \in 1..m : pool'[i] = pool[i + k]
      /\ pool'[m + 1] = pool[k]
  BY RotatedProperties
<1>2. /\ m \in Nat
      /\ Len(pool) \in Nat
      /\ \A i \in 1..Len(pool) : pool[i] \in Sessions
      /\ \A i \in 1..m : i + k \in 1..Len(pool) /\ i + k # k
  BY ElementOfSeq, LenProperties
<1> HIDE DEF m
<1>3. HTypeOK'
  BY <1>1, <1>2
<1>4. \A i \in 1..m : pool'[i] # pool[k]
  BY <1>1, <1>2 DEF NoDuplicates
<1>5. NoDuplicates'
  <2> SUFFICES ASSUME NEW i \in 1..(m + 1), NEW j \in 1..(m + 1),
                      pool'[i] = pool'[j]
               PROVE  i = j
    BY <1>1 DEF NoDuplicates
  <2>1. CASE i \in 1..m /\ j \in 1..m
    BY <1>1, <1>2, <2>1 DEF NoDuplicates
  <2>2. CASE i = m + 1 \/ j = m + 1
    BY <1>1, <1>2, <1>4, <2>2
  <2> QED
    BY <1>2, <2>1, <2>2
<1>6. QueueOrder'
  <2> SUFFICES ASSUME NEW i \in 1..(m + 1), NEW j \in 1..(m + 1),
                      pool'[j] \in since'[pool'[i]]
               PROVE  i < j
    BY <1>1 DEF QueueOrder
  <2>1. CASE i = m + 1
    <3>1. since'[pool'[i]] = {}
      BY <1>1, <1>2, <2>1
    <3> QED
      BY <3>1
  <2>2. CASE i \in 1..m /\ j = m + 1
    BY <1>2, <2>2
  <2>3. CASE i \in 1..m /\ j \in 1..m
    <3>1. pool[j + k] \in since[pool[i + k]]
      BY <1>1, <1>2, <1>4, <2>3
    <3>2. i + k < j + k
      BY <1>2, <2>3, <3>1 DEF QueueOrder
    <3> QED
      BY <1>2, <2>3, <3>2
  <2> QED
    BY <1>2, <2>1, <2>2, <2>3
<1> QED
  BY <1>3, <1>5, <1>6

LEMMA OtherKeepsIInv ==
  ASSUME IInv, HOther
  PROVE  IInv'
<1> USE DEF IInv, HTypeOK, TypeOK, HOther
<1>1. ASSUME NEW h \in Handlers, Opened(h)
      PROVE  IInv'
  BY <1>1 DEF Opened, NoDuplicates, QueueOrder
<1>2. ASSUME NEW h \in Handlers, OpenFailed(h)
      PROVE  IInv'
  <2>1. CASE pool' = pool
    BY <1>2, <2>1 DEF OpenFailed, NoDuplicates, QueueOrder
  <2>2. CASE Removed(pool, held[h], pool')
    <3>1. pool' \in Seq(Sessions)
      BY <2>2, RemovedProperties
    <3>2. PICK f \in [1..Len(pool') -> 1..Len(pool)] :
              /\ \A i \in 1..Len(pool') : pool'[i] = pool[f[i]]
              /\ \A i, j \in 1..Len(pool') : f[i] < f[j] => i < j
              /\ \A i, j \in 1..Len(pool') : f[i] = f[j] => i = j
      BY <2>2, RemovedProperties
    <3>3. HTypeOK'
      BY <1>2, <3>1 DEF OpenFailed
    <3>4. NoDuplicates'
      BY <3>2 DEF NoDuplicates
    <3>5. QueueOrder'
      BY <3>2 DEF QueueOrder
    <3> QED
      BY <3>3, <3>4, <3>5
  <2> QED
    BY <1>2, <2>1, <2>2 DEF OpenFailed
<1>3. CASE SessionsChange
  BY <1>3 DEF SessionsChange, NoDuplicates, QueueOrder
<1> QED
  BY <1>1, <1>2, <1>3

LEMMA IInvStep == IInv /\ [HNext]_hvars => IInv'
<1> SUFFICES ASSUME IInv, [HNext]_hvars PROVE IInv'
  OBVIOUS
<1>1. ASSUME NEW s \in Sessions, HAdd(s) PROVE IInv'
  BY <1>1, AddKeepsIInv
<1>2. ASSUME NEW h \in Handlers, NEW k \in 1..Len(pool), HPick(h, k) PROVE IInv'
  BY <1>2, PickKeepsIInv
<1>3. ASSUME NEW h \in Handlers, HPickNone(h) PROVE IInv'
  BY <1>3 DEF HPickNone, PickNone, IInv, HTypeOK, TypeOK, NoDuplicates, QueueOrder
<1>4. CASE HOther
  BY <1>4, OtherKeepsIInv
<1>5. CASE HRestart
  <2>1. HTypeOK'
    BY <1>5 DEF HRestart, Restart, NothingSince, IInv, HTypeOK, TypeOK
  <2>2. NoDuplicates' /\ QueueOrder'
    BY <1>5 DEF HRestart, Restart, NoDuplicates, QueueOrder
  <2> QED
    BY <2>1, <2>2 DEF IInv
<1>6. CASE UNCHANGED hvars
  BY <1>6 DEF hvars, IInv, HTypeOK, TypeOK, NoDuplicates, QueueOrder
<1> QED
  BY <1>1, <1>2, <1>3, <1>4, <1>5, <1>6 DEF HNext

LEMMA IInvAlways == HSpec => []IInv
BY IInvInit, IInvStep, PTL DEF HSpec

(* The variables of the pool and its history keep their types.             *)
THEOREM TypeCorrect == HSpec => []HTypeOK
BY IInvAlways, PTL DEF IInv

(* No session is in a pool twice: what pick() re-appends it has popped,    *)
(* and a client handler adds a session of its own.                         *)
THEOREM PoolHasNoDuplicates == HSpec => []NoDuplicates
BY IInvAlways, PTL DEF IInv

(* The list stays sorted by the last turn of its sessions.                 *)
THEOREM PoolIsAQueue == HSpec => []QueueOrder
BY IInvAlways, PTL DEF IInv

-----------------------------------------------------------------------------
(* No operation loses a live session.                                      *)
THEOREM LiveSessionsStay == HSpec => OnlyDeadLeave
<1> DEFINE Kept == \A s \in Members(pool) : s \notin Members(pool') => s \in closed'
<1>1. ASSUME IInv, [HNext]_hvars PROVE [Kept]_vars
  <2> USE DEF IInv, HTypeOK, TypeOK
  <2>1. ASSUME NEW s \in Sessions, HAdd(s) PROVE Kept
    BY <1>1, <2>1, AddedMembers DEF HAdd, Add
  <2>2. ASSUME NEW h \in Handlers, NEW k \in 1..Len(pool), HPick(h, k) PROVE Kept
    BY <1>1, <2>2, RotatedMembers DEF HPick, Pick
  <2>3. ASSUME NEW h \in Handlers, HPickNone(h) PROVE Kept
    BY <2>3 DEF HPickNone, PickNone, NoneLive, Members
  <2>4. ASSUME NEW h \in Handlers, Opened(h) PROVE Kept
    BY <2>4 DEF Opened
  <2>5. ASSUME NEW h \in Handlers, OpenFailed(h) PROVE Kept
    BY <1>1, <2>5, RemovedProperties DEF OpenFailed
  <2>6. CASE SessionsChange
    BY <2>6 DEF SessionsChange
  <2>7. CASE HRestart
    <3>1. Members(pool) \subseteq Sessions
      BY <1>1, ElementOfSeq DEF Members
    <3> QED
      BY <2>7, <3>1 DEF HRestart, Restart
  <2>8. CASE UNCHANGED hvars
    BY <2>8 DEF hvars, vars
  <2> QED
    BY <1>1, <2>1, <2>2, <2>3, <2>4, <2>5, <2>6, <2>7, <2>8 DEF HNext, HOther
<1> QED
  BY <1>1, IInvAlways, PTL DEF HSpec, OnlyDeadLeave

-----------------------------------------------------------------------------
(* The pool implements the Dispatcher.                                     *)

LEMMA InitRefines == HInit => D!DInit
BY DEF HInit, Init, NothingSince, D!DInit, Ready, ReadySince, Members

LEMMA AddRefines ==
  ASSUME IInv, NEW s \in Sessions, HAdd(s)
  PROVE  [D!DNext]_(D!dvars)
<1> USE DEF IInv, HTypeOK, TypeOK, HAdd, Add
<1>1. Members(pool') = Members(pool) \cup {s}
  BY AddedMembers
<1>2. s \notin Ready
  BY DEF Ready, Referenced
<1>3. ReadySince' = ReadySince
  BY <1>1, <1>2 DEF Ready, ReadySince
<1>4. CASE s \in closed
  BY <1>1, <1>3, <1>4 DEF Ready, D!dvars
<1>5. CASE s \notin closed
  <2>1. D!Register(s)
    BY <1>1, <1>2, <1>3, <1>5 DEF Ready, D!Register
  <2> QED
    BY <2>1 DEF D!DNext
<1> QED
  BY <1>4, <1>5

LEMMA PickRefines ==
  ASSUME IInv, NEW h \in Handlers, NEW k \in 1..Len(pool), HPick(h, k)
  PROVE  D!DNext
<1> USE DEF IInv, HTypeOK, TypeOK, HPick, Pick
<1> DEFINE y == pool[k]
<1>1. /\ y \in Sessions
      /\ y \in Ready
  BY ElementOfSeq DEF FirstLive, Ready, Members
<1>2. Ready' = Ready
  BY RotatedMembers DEF Ready
<1>3. ASSUME NEW x \in Ready PROVE y \notin since[x]
  <2>1. PICK i \in 1..Len(pool) : pool[i] = x
    BY DEF Ready, Members
  <2>2. SUFFICES ASSUME y \in since[x] PROVE FALSE
    OBVIOUS
  <2>3. i < k
    BY <2>1, <2>2 DEF QueueOrder
  <2>4. x \in closed
    BY <2>1, <2>3, LenProperties DEF FirstLive
  <2> QED
    BY <2>4 DEF Ready
<1> HIDE DEF y
<1>4. since' = [x \in Sessions |-> IF x = y THEN {} ELSE since[x] \cup {y}]
  BY DEF y
<1>5. answer' = y
  BY DEF y
<1>6. Ready \subseteq Sessions
  BY ElementOfSeq DEF Ready, Members
<1> HIDE DEF IInv, HTypeOK, TypeOK, HPick, Pick
<1>7. ReadySince' = [x \in Sessions |-> IF x \in Ready \ {y}
                                          THEN ReadySince[x] \cup {y} ELSE {}]
  <2>1. ReadySince' = [x \in Sessions |-> IF x \in Ready THEN since'[x] \cap Ready
                                                         ELSE {}]
    BY <1>2 DEF ReadySince
  <2>2. ASSUME NEW x \in Sessions
        PROVE  (IF x \in Ready THEN since'[x] \cap Ready ELSE {})
                 = IF x \in Ready \ {y} THEN ReadySince[x] \cup {y} ELSE {}
    BY <1>1, <1>4 DEF ReadySince
  <2> QED
    BY <2>1, <2>2
<1>8. \A x \in Ready : y \notin ReadySince[x]
  BY <1>3, <1>6 DEF ReadySince
<1>9. D!Serve(y)
  BY <1>1, <1>2, <1>5, <1>7, <1>8 DEF D!Serve
<1> QED
  BY <1>1, <1>9 DEF D!DNext

LEMMA PickNoneRefines ==
  ASSUME IInv, NEW h \in Handlers, HPickNone(h)
  PROVE  D!DNext
<1>1. Ready = {} /\ Ready' = {}
  BY DEF HPickNone, PickNone, NoneLive, Ready, Members
<1>2. ReadySince' = ReadySince
  BY <1>1 DEF ReadySince
<1>3. D!Refuse
  BY <1>1, <1>2 DEF D!Refuse, HPickNone
<1> QED
  BY <1>3 DEF D!DNext

LEMMA OtherRefines ==
  ASSUME IInv, HOther
  PROVE  [D!DNext]_(D!dvars)
<1> USE DEF IInv, HTypeOK, TypeOK, HOther
<1>1. CASE Ready' = Ready
  BY <1>1 DEF ReadySince, D!dvars
<1>2. CASE SessionsChange
  <2> DEFINE S == Ready \ Ready'
  <2>1. Ready' = Ready \ S
    BY <1>2 DEF SessionsChange, Ready, Referenced
  <2>2. ReadySince' = [x \in Sessions |-> IF x \in S THEN {} ELSE ReadySince[x] \ S]
    BY <2>1 DEF ReadySince
  <2>3. D!Withdraw(S)
    BY <2>1, <2>2 DEF D!Withdraw
  <2> QED
    BY <2>3 DEF D!DNext
<1>3. ASSUME NEW h \in Handlers, Opened(h) PROVE Ready' = Ready
  BY <1>3 DEF Opened, Ready
<1>4. ASSUME NEW h \in Handlers, OpenFailed(h) PROVE Ready' = Ready
  BY <1>4, RemovedProperties DEF OpenFailed, Ready
<1> QED
  BY <1>1, <1>2, <1>3, <1>4

LEMMA RestartRefines ==
  ASSUME HRestart
  PROVE  D!DNext
<1>1. Ready' = {}
  BY DEF HRestart, Restart, Ready, Members
<1>2. ReadySince' = [x \in Sessions |-> IF x \in Ready THEN {} ELSE ReadySince[x] \ Ready]
  BY <1>1 DEF ReadySince
<1>3. D!Withdraw(Ready)
  BY <1>1, <1>2 DEF D!Withdraw, HRestart
<1> QED
  BY <1>3 DEF D!DNext

LEMMA StepRefines == IInv /\ [HNext]_hvars => [D!DNext]_(D!dvars)
<1> SUFFICES ASSUME IInv, [HNext]_hvars PROVE [D!DNext]_(D!dvars)
  OBVIOUS
<1>1. CASE UNCHANGED hvars
  BY <1>1 DEF hvars, D!dvars, Ready, ReadySince
<1>2. CASE HNext
  BY <1>2, AddRefines, PickRefines, PickNoneRefines, OtherRefines, RestartRefines
     DEF HNext
<1> QED
  BY <1>1, <1>2

(* Round robin over the live sessions, and a refusal only when none is     *)
(* live, for any number of sessions and handlers.                          *)
THEOREM PoolIsADispatcher == HSpec => ImplementsDispatcher
BY IInvAlways, InitRefines, StepRefines, PTL DEF HSpec, ImplementsDispatcher, D!DSpec
=============================================================================
