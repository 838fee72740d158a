---------------------------- MODULE PoolOpsProofs ----------------------------
(***************************************************************************)
(* Lemmas about the list operations of a session pool.                     *)
(***************************************************************************)
EXTENDS PoolOps, SequenceTheorems, TLAPS

-----------------------------------------------------------------------------
(* What the list operations return.                                        *)

(* add() keeps the list and puts the session behind it.                    *)
LEMMA AddedProperties ==
  ASSUME NEW S, NEW p \in Seq(S), NEW s \in S
  PROVE  /\ Added(p, s) \in Seq(S)
         /\ Len(Added(p, s)) = Len(p) + 1
         /\ \A i \in 1..Len(p) : Added(p, s)[i] = p[i]
         /\ Added(p, s)[Len(p) + 1] = s
BY AppendProperties DEF Added

(* pick() drops the first k sessions and puts the k-th one at the end.     *)
LEMMA RotatedProperties ==
  ASSUME NEW S, NEW p \in Seq(S), NEW k \in 1..Len(p)
  PROVE  /\ Rotated(p, k) \in Seq(S)
         /\ Len(Rotated(p, k)) = Len(p) - k + 1
         /\ \A i \in 1..(Len(p) - k) : Rotated(p, k)[i] = p[i + k]
         /\ Rotated(p, k)[Len(p) - k + 1] = p[k]
<1> DEFINE q == SubSeq(p, k + 1, Len(p))
<1>1. /\ Len(p) \in Nat
      /\ k \in Int
      /\ p[k] \in S
      /\ \A i \in (k + 1)..Len(p) : p[i] \in S
  BY ElementOfSeq, LenProperties
<1>2. /\ q \in Seq(S)
      /\ Len(q) = IF k + 1 <= Len(p) THEN Len(p) - (k + 1) + 1 ELSE 0
      /\ \A i \in 1..(Len(p) - (k + 1) + 1) : q[i] = p[(k + 1) + i - 1]
  BY <1>1, SubSeqProperties
<1>3. Rotated(p, k) = Append(q, p[k])
  BY DEF Rotated
<1> HIDE DEF q
<1>4. /\ Append(q, p[k]) \in Seq(S)
      /\ Len(Append(q, p[k])) = Len(q) + 1
      /\ \A i \in 1..Len(q) : Append(q, p[k])[i] = q[i]
      /\ Append(q, p[k])[Len(q) + 1] = p[k]
  BY <1>1, <1>2, AppendProperties
<1>5. Len(q) = Len(p) - k
  BY <1>1, <1>2
<1>6. \A i \in 1..(Len(p) - k) : q[i] = p[i + k]
  BY <1>1, <1>2
<1> QED
  BY <1>1, <1>2, <1>3, <1>4, <1>5, <1>6

(* remove() cuts out position i and closes the gap.                        *)
LEMMA WithoutProperties ==
  ASSUME NEW S, NEW p \in Seq(S), NEW i \in 1..Len(p)
  PROVE  /\ Without(p, i) \in Seq(S)
         /\ Len(Without(p, i)) = Len(p) - 1
         /\ \A j \in 1..(Len(p) - 1) :
              Without(p, i)[j] = IF j < i THEN p[j] ELSE p[j + 1]
<1> DEFINE a == SubSeq(p, 1, i - 1)
           b == SubSeq(p, i + 1, Len(p))
<1>1. /\ Len(p) \in Nat
      /\ i \in Int
      /\ \A j \in 1..(i - 1) : p[j] \in S
      /\ \A j \in (i + 1)..Len(p) : p[j] \in S
  BY ElementOfSeq, LenProperties
<1>2. /\ a \in Seq(S)
      /\ Len(a) = IF 1 <= i - 1 THEN (i - 1) - 1 + 1 ELSE 0
      /\ \A j \in 1..((i - 1) - 1 + 1) : a[j] = p[1 + j - 1]
  BY <1>1, SubSeqProperties
<1>3. /\ b \in Seq(S)
      /\ Len(b) = IF i + 1 <= Len(p) THEN Len(p) - (i + 1) + 1 ELSE 0
      /\ \A j \in 1..(Len(p) - (i + 1) + 1) : b[j] = p[(i + 1) + j - 1]
  BY <1>1, SubSeqProperties
<1>4. Without(p, i) = a \o b
  BY DEF Without
<1> HIDE DEF a, b
<1>5. /\ a \o b \in Seq(S)
      /\ Len(a \o b) = Len(a) + Len(b)
      /\ \A j \in 1..(Len(a) + Len(b)) :
           (a \o b)[j] = IF j <= Len(a) THEN a[j] ELSE b[j - Len(a)]
  BY <1>2, <1>3, ConcatProperties
<1>6. Len(a) = i - 1 /\ Len(b) = Len(p) - i
  BY <1>1, <1>2, <1>3
<1>7. ASSUME NEW j \in 1..(Len(p) - 1)
      PROVE  (a \o b)[j] = IF j < i THEN p[j] ELSE p[j + 1]
  <2>1. CASE j < i
    <3>1. j \in 1..((i - 1) - 1 + 1) /\ j <= Len(a) /\ j \in 1..(Len(a) + Len(b))
      BY <1>1, <1>6, <2>1
    <3>2. 1 + j - 1 = j
      BY <1>1
    <3> QED
      BY <1>2, <1>5, <2>1, <3>1, <3>2
  <2>2. CASE ~(j < i)
    <3>1. /\ ~(j <= Len(a))
          /\ j \in 1..(Len(a) + Len(b))
          /\ j - Len(a) \in 1..(Len(p) - (i + 1) + 1)
      BY <1>1, <1>6, <2>2
    <3>2. (i + 1) + (j - Len(a)) - 1 = j + 1
      BY <1>1, <1>6
    <3> QED
      BY <1>3, <1>5, <2>2, <3>1, <3>2
  <2> QED
    BY <2>1, <2>2
<1> QED
  BY <1>1, <1>4, <1>5, <1>6, <1>7

(* Whatever remove() returns, a position of it is an earlier or equal      *)
(* position of the old list, in the same order.                            *)
LEMMA RemovedProperties ==
  ASSUME NEW S, NEW p \in Seq(S), NEW s, NEW q, Removed(p, s, q)
  PROVE  /\ q \in Seq(S)
         /\ Members(q) \subseteq Members(p)
         /\ \A x \in Members(p) : x \in Members(q) \/ x = s
         /\ \E f \in [1..Len(q) -> 1..Len(p)] :
              /\ \A i \in 1..Len(q) : q[i] = p[f[i]]
              /\ \A i, j \in 1..Len(q) : f[i] < f[j] => i < j
              /\ \A i, j \in 1..Len(q) : f[i] = f[j] => i = j
<1>0. Len(p) \in Nat
  BY LenProperties
<1>1. CASE s \notin Members(p) /\ q = p
  <2> DEFINE f == [i \in 1..Len(q) |-> i]
  <2>1. f \in [1..Len(q) -> 1..Len(p)]
    BY <1>1
  <2> QED
    BY <1>0, <1>1, <2>1
<1>2. ASSUME NEW n \in 1..Len(p), FirstAt(p, s, n), q = Without(p, n)
      PROVE  /\ q \in Seq(S)
             /\ Members(q) \subseteq Members(p)
             /\ \A x \in Members(p) : x \in Members(q) \/ x = s
             /\ \E f \in [1..Len(q) -> 1..Len(p)] :
                  /\ \A i \in 1..Len(q) : q[i] = p[f[i]]
                  /\ \A i, j \in 1..Len(q) : f[i] < f[j] => i < j
                  /\ \A i, j \in 1..Len(q) : f[i] = f[j] => i = j
  <2> DEFINE f == [i \in 1..Len(q) |-> IF i < n THEN i ELSE i + 1]
  <2>1. /\ q \in Seq(S)
        /\ Len(q) = Len(p) - 1
        /\ \A j \in 1..(Len(p) - 1) : q[j] = IF j < n THEN p[j] ELSE p[j + 1]
    BY <1>2, WithoutProperties
  <2>2. f \in [1..Len(q) -> 1..Len(p)]
    BY <1>0, <2>1
  <2>3. /\ \A i \in 1..Len(q) : q[i] = p[f[i]]
        /\ \A i, j \in 1..Len(q) : f[i] < f[j] => i < j
        /\ \A i, j \in 1..Len(q) : f[i] = f[j] => i = j
    BY <1>0, <2>1
  <2>4. Members(q) \subseteq Members(p)
    BY <2>2, <2>3 DEF Members
  <2>5. ASSUME NEW x \in Members(p), x # s
        PROVE  x \in Members(q)
    <3>1. PICK i \in 1..Len(p) : p[i] = x
      BY DEF Members
    <3>2. i # n
      BY <1>2, <2>5, <3>1 DEF FirstAt
    <3>3. CASE i < n
      <4>1. i \in 1..Len(q) /\ q[i] = p[i]
        BY <1>0, <2>1, <3>3
      <4> QED
        BY <3>1, <4>1 DEF Members
    <3>4. CASE i > n
      <4>1. i - 1 \in 1..Len(q) /\ q[i - 1] = p[i]
        BY <1>0, <2>1, <3>4
      <4> QED
        BY <3>1, <4>1 DEF Members
    <3> QED
      BY <3>2, <3>3, <3>4
  <2> QED
    BY <2>1, <2>2, <2>3, <2>4, <2>5
<1> QED
  BY <1>1, <1>2 DEF Removed

-----------------------------------------------------------------------------
(* What the list operations do to the set of members.                      *)

LEMMA AddedMembers ==
  ASSUME NEW S, NEW p \in Seq(S), NEW s \in S
  PROVE  Members(Added(p, s)) = Members(p) \cup {s}
<1>1. /\ Len(p) \in Nat
      /\ Len(Added(p, s)) = Len(p) + 1
      /\ \A i \in 1..Len(p) : Added(p, s)[i] = p[i]
      /\ Added(p, s)[Len(p) + 1] = s
  BY AddedProperties, LenProperties
<1>2. \A x : x \in Members(Added(p, s)) <=>
             \E i \in 1..(Len(p) + 1) : x = Added(p, s)[i]
  BY <1>1 DEF Members
<1>3. \A x : x \in Members(p) <=> \E i \in 1..Len(p) : x = p[i]
  BY DEF Members
<1>4. 1..(Len(p) + 1) = 1..Len(p) \cup {Len(p) + 1}
  BY <1>1
<1> QED
  BY <1>1, <1>2, <1>3, <1>4

(* pick() loses exactly the dead sessions in front of the one it returns.  *)
LEMMA RotatedMembers ==
  ASSUME NEW S, NEW p \in Seq(S), NEW dead, NEW k \in 1..Len(p),
         FirstLive(p, dead, k)
  PROVE  /\ Members(Rotated(p, k)) \subseteq Members(p)
         /\ \A x \in Members(p) : x \in Members(Rotated(p, k)) \/ x \in dead
<1> DEFINE r == Rotated(p, k)
<1>1. /\ k \in 1..Len(p)
      /\ Len(p) \in Nat
      /\ p[k] \notin dead
      /\ \A j \in 1..(k - 1) : p[j] \in dead
  BY LenProperties DEF FirstLive
<1>2. /\ Len(r) = Len(p) - k + 1
      /\ \A i \in 1..(Len(p) - k) : r[i] = p[i + k]
      /\ r[Len(p) - k + 1] = p[k]
  BY <1>1, RotatedProperties
<1> HIDE DEF r
<1>3. Members(r) \subseteq Members(p)
  <2> SUFFICES ASSUME NEW i \in 1..Len(r) PROVE r[i] \in Members(p)
    BY DEF Members
  <2>0. Len(r) \in Nat /\ i \in Int /\ i <= Len(p) - k + 1 /\ 1 <= i
    BY <1>1, <1>2
  <2>1. CASE i = Len(p) - k + 1
    BY <1>1, <1>2, <2>1 DEF Members
  <2>2. CASE i # Len(p) - k + 1
    <3>1. i \in 1..(Len(p) - k)
      BY <1>1, <2>0, <2>2
    <3>2. i + k \in 1..Len(p) /\ r[i] = p[i + k]
      BY <1>1, <1>2, <3>1
    <3> QED
      BY <3>2 DEF Members
  <2> QED
    BY <2>1, <2>2
<1>4. ASSUME NEW x \in Members(p), x \notin dead PROVE x \in Members(r)
  <2>1. PICK i \in 1..Len(p) : p[i] = x
    BY DEF Members
  <2>2. ~(i < k)
    BY <1>1, <1>4, <2>1
  <2>3. CASE i = k
    <3>1. Len(p) - k + 1 \in 1..Len(r)
      BY <1>1, <1>2
    <3> QED
      BY <1>2, <2>1, <2>3, <3>1 DEF Members
  <2>4. CASE i > k
    <3>1. i - k \in 1..Len(r) /\ i - k \in 1..(Len(p) - k) /\ (i - k) + k = i
      BY <1>1, <1>2, <2>4
    <3> QED
      BY <1>2, <2>1, <3>1 DEF Members
  <2> QED
    BY <1>1, <2>2, <2>3, <2>4
<1> QED
  BY <1>3, <1>4 DEF r
=============================================================================
