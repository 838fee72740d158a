---------------------------- MODULE FramingProofs ----------------------------
(***************************************************************************)
(* A connection through WSConn is a stream, for all sizes of messages,     *)
(* frames and buffers and any number of pings, provided that no proxy      *)
(* pings the server (whose frames are masked); the types; and the control  *)
(* message over either transport.                                          *)
(*                                                                         *)
(* WSConn's wire is always cut into whole frames (Framed): starts are the  *)
(* places where one begins, and the end; base[i] is the number of bytes of *)
(* data in front of the place i.  What was read, the read buffer and the   *)
(* data on the wire are together what was written (WSInv).                 *)
(*                                                                         *)
(* The types need, beside WSInv, where writer and reader are (Phases), how *)
(* many pings there are (PingInv) and that a header on noise's wire never  *)
(* announces more than follows it (NoiseShape); the control message needs  *)
(* its two frames to be whole (NoiseControl).                              *)
(***************************************************************************)
EXTENDS Framing, FiniteSetTheorems, SequenceTheorems, TLAPS

USE FramingAssumption DEF FramingAssumption

(* The item in front of the data of the frame at i, and the next frame.    *)
Before(w, i) == i + (IF w[i].masked THEN 1 ELSE 0)
Next1(w, i) == Before(w, i) + w[i].length + 1

FrameAt(w, i, b) ==
  /\ w[i].type = "header" /\ w[i].masked \in BOOLEAN /\ w[i].length \in Nat
  /\ \/ w[i].opcode = "data" /\ \A j \in 1..w[i].length : w[Before(w, i) + j] = Byte(b + j)
     \/ w[i].opcode = "ping" /\ ~w[i].masked

DataSize(w, i) == IF w[i].opcode = "data" THEN w[i].length ELSE 0

Cut(w, starts, base, lo, hi) ==
  /\ starts \subseteq 1..(Len(w) + 1) /\ 1 \in starts /\ Len(w) + 1 \in starts
  /\ base \in [starts -> Nat] /\ base[1] = lo /\ base[Len(w) + 1] = hi
  /\ \A i \in starts : i <= Len(w) =>
       /\ FrameAt(w, i, base[i])
       /\ Next1(w, i) \in starts
       /\ base[Next1(w, i)] = base[i] + DataSize(w, i)

Framed(w, lo, hi) == \E starts, base : Cut(w, starts, base, lo, hi)

WSTypes ==
  /\ written \in 0..MaxWritten /\ payload \in Nat /\ want \in Nat
  /\ items \in Seq(Items) /\ readBuf \in Seq(Items) /\ bytesRead \in Seq(Nat)

WSInv ==
  kind = "ws" =>
    /\ WSTypes
    /\ Transparent
    /\ \A i \in 1..Len(readBuf) : readBuf[i] = Byte(Len(bytesRead) + i)
    /\ Framed(items, Len(bytesRead) + Len(readBuf), written)

-----------------------------------------------------------------------------
(* The wire.                                                               *)

LEMMA EmptyFramed ==
  ASSUME NEW n \in Nat
  PROVE  Framed(<<>>, n, n)
<1>1. Cut(<<>>, {1}, [i \in {1} |-> n], n, n)
      BY DEF Cut
<1> QED
    BY <1>1 DEF Framed

(* A whole frame, f, is written.                                           *)
LEMMA AppendFramed ==
  ASSUME NEW w \in Seq(Items), NEW f \in Seq(Items), NEW lo \in Nat, NEW hi \in Nat,
         Framed(w, lo, hi), FrameAt(f, 1, hi), Len(f) = Before(f, 1) + f[1].length
  PROVE  Framed(w \o f, lo, hi + DataSize(f, 1))
<1> DEFINE v == w \o f
           m == Len(w)
           k == IF f[1].masked THEN 1 ELSE 0
           n == f[1].length
           top == hi + DataSize(f, 1)
<1>0. /\ k \in {0, 1} /\ n \in Nat /\ Len(f) = 1 + k + n
      /\ Before(f, 1) = 1 + k /\ f[1].length = n
      BY DEF FrameAt, Before
<1>t. DataSize(f, 1) \in Nat
      BY <1>0 DEF DataSize
<1> HIDE DEF k, n
<1>1. /\ m \in Nat /\ v \in Seq(Items) /\ Len(v) = m + 1 + k + n
      /\ \A i \in 1..m : v[i] = w[i]
      /\ \A i \in 1..(1 + k + n) : v[m + i] = f[i]
      /\ top \in Nat
  <2>0. v \in Seq(Items)
        BY ConcatProperties
  <2>1. /\ m \in Nat /\ Len(v) = m + Len(f)
        /\ \A i \in 1..(m + Len(f)) : v[i] = IF i <= m THEN w[i] ELSE f[i - m]
        BY ConcatProperties, LenProperties
  <2> HIDE DEF v, m
  <2> QED
      BY <1>0, <1>t, <2>0, <2>1
<1>2. PICK starts, base : Cut(w, starts, base, lo, hi)
      BY DEF Framed
<1> DEFINE more == starts \cup {Len(v) + 1}
           up == [i \in more |-> IF i = Len(v) + 1 THEN top ELSE base[i]]
<1>3. /\ starts \subseteq 1..(m + 1) /\ 1 \in starts /\ m + 1 \in starts
      /\ base \in [starts -> Nat] /\ base[1] = lo /\ base[m + 1] = hi
      BY <1>2 DEF Cut
<1> HIDE DEF v, m, top
<1>4. /\ \A i \in starts : i \in Int /\ i # Len(v) + 1 /\ i <= m + 1 /\ 1 <= i
      /\ \A i \in starts : up[i] = base[i]
      /\ up[Len(v) + 1] = top
      /\ up \in [more -> Nat]
      /\ more \subseteq 1..(Len(v) + 1)
      BY <1>0, <1>1, <1>3
<1> HIDE DEF more, up
<1>5. ASSUME NEW i \in starts, i <= m
      PROVE  FrameAt(v, i, up[i]) /\ Next1(v, i) \in more
             /\ up[Next1(v, i)] = up[i] + DataSize(v, i)
  <2>1. i \in 1..m /\ v[i] = w[i]
        BY <1>1, <1>4, <1>5
  <2>2. /\ FrameAt(w, i, base[i]) /\ Next1(w, i) \in starts
        /\ base[Next1(w, i)] = base[i] + DataSize(w, i)
        BY <1>2, <1>5 DEF Cut, m
  <2>3. /\ Before(v, i) = Before(w, i) /\ Next1(v, i) = Next1(w, i)
        /\ DataSize(v, i) = DataSize(w, i)
        BY <2>1 DEF Before, Next1, DataSize
  <2>4. /\ Before(w, i) \in Nat /\ w[i].length \in Nat
        /\ Before(w, i) >= 1 /\ Before(w, i) + w[i].length <= m
    <3>1. w[i].masked \in BOOLEAN /\ w[i].length \in Nat
          BY <2>2 DEF FrameAt
    <3>2. Before(w, i) \in Nat /\ Before(w, i) >= 1
          BY <2>1, <3>1 DEF Before
    <3>3. Before(w, i) + w[i].length + 1 <= m + 1
          BY <1>4, <2>2 DEF Next1
    <3> QED
        BY <1>1, <3>1, <3>2, <3>3
  <2>5. \A j \in 1..w[i].length : v[Before(w, i) + j] = w[Before(w, i) + j]
    <3> SUFFICES ASSUME NEW j \in 1..w[i].length
                 PROVE  v[Before(w, i) + j] = w[Before(w, i) + j]
        OBVIOUS
    <3>1. Before(w, i) + j \in 1..m
      <4>1. m \in Nat
            BY <1>1
      <4> QED
          BY <2>4, <4>1
    <3> QED
        BY <1>1, <3>1
  <2>6. FrameAt(v, i, up[i])
        BY <1>4, <2>1, <2>2, <2>3, <2>5 DEF FrameAt
  <2> QED
      BY <1>4, <2>2, <2>3, <2>6 DEF more
<1>6. FrameAt(v, m + 1, up[m + 1]) /\ Next1(v, m + 1) = Len(v) + 1
      /\ top = hi + DataSize(v, m + 1)
  <2>1. v[m + 1] = f[1] /\ up[m + 1] = hi
        BY <1>0, <1>1, <1>3, <1>4
  <2>2. Before(v, m + 1) = m + 1 + k
        BY <1>1, <2>1 DEF Before, k
  <2>3. \A j \in 1..n : v[Before(v, m + 1) + j] = f[Before(f, 1) + j]
    <3> SUFFICES ASSUME NEW j \in 1..n
                 PROVE  v[Before(v, m + 1) + j] = f[Before(f, 1) + j]
        OBVIOUS
    <3>1. 1 + k + j \in 1..(1 + k + n) /\ m + (1 + k + j) = (m + 1 + k) + j
          BY <1>0, <1>1
    <3> QED
        BY <1>0, <1>1, <2>2, <3>1
  <2>4. FrameAt(v, m + 1, up[m + 1])
        BY <1>0, <2>1, <2>3 DEF FrameAt
  <2>5. Next1(v, m + 1) = Len(v) + 1
        BY <1>0, <1>1, <2>1, <2>2 DEF Next1
  <2>6. DataSize(v, m + 1) = DataSize(f, 1)
        BY <2>1 DEF DataSize
  <2> QED
      BY <2>4, <2>5, <2>6 DEF top
<1>7. Cut(v, more, up, lo, top)
  <2>1. 1 \in more /\ Len(v) + 1 \in more /\ up[1] = lo
        BY <1>3, <1>4 DEF more
  <2>2. ASSUME NEW i \in more, i <= Len(v)
        PROVE  FrameAt(v, i, up[i]) /\ Next1(v, i) \in more
               /\ up[Next1(v, i)] = up[i] + DataSize(v, i)
    <3>1. i \in starts
          BY <1>1, <2>2 DEF more
    <3>2. i <= m \/ i = m + 1
          BY <1>1, <1>4, <3>1
    <3>3. up[m + 1] = hi
          BY <1>3, <1>4
    <3> QED
        BY <1>4, <1>5, <1>6, <2>1, <3>1, <3>2, <3>3
  <2> QED
      BY <1>4, <2>1, <2>2 DEF Cut
<1> QED
    BY <1>7 DEF Framed, v, top

(* The first frame is taken away.                                          *)
Rest(w) == SubSeq(w, Next1(w, 1), Len(w))

LEMMA DropFramed ==
  ASSUME NEW w \in Seq(Items), w # <<>>, NEW lo \in Nat, NEW hi \in Nat, Framed(w, lo, hi)
  PROVE  /\ FrameAt(w, 1, lo)
         /\ Next1(w, 1) \in 2..(Len(w) + 1)
         /\ Rest(w) \in Seq(Items)
         /\ Rest(w) # <<>> => Rest(w)[1].type = "header"
         /\ Framed(Rest(w), lo + DataSize(w, 1), hi)
<1> DEFINE m == Len(w)
           d == Next1(w, 1) - 1
           v == Rest(w)
<1>1. m \in Nat /\ m >= 1
      BY EmptySeq, LenProperties
<1>2. PICK starts, base : Cut(w, starts, base, lo, hi)
      BY DEF Framed
<1>3. /\ starts \subseteq 1..(m + 1) /\ 1 \in starts /\ m + 1 \in starts
      /\ base \in [starts -> Nat] /\ base[1] = lo /\ base[m + 1] = hi
      /\ FrameAt(w, 1, lo) /\ d + 1 \in starts /\ base[d + 1] = lo + DataSize(w, 1)
  <2>1. Next1(w, 1) = d + 1
    <3>1. w[1].masked \in BOOLEAN /\ w[1].length \in Nat
          BY <1>1, <1>2 DEF Cut, FrameAt
    <3> QED
        BY <3>1 DEF Next1, Before
  <2> HIDE DEF d
  <2> QED
      BY <1>1, <1>2, <2>1 DEF Cut
<1>4. d \in 1..m /\ Next1(w, 1) = d + 1
  <2>1. w[1].masked \in BOOLEAN /\ w[1].length \in Nat
        BY <1>3 DEF FrameAt
  <2>2. d \in Nat /\ d >= 1 /\ Next1(w, 1) = d + 1
        BY <2>1 DEF Next1, Before
  <2> HIDE DEF d
  <2> QED
      BY <1>1, <1>3, <2>2
<1> HIDE DEF d
<1>5. v \in Seq(Items) /\ Len(v) = m - d /\ \A i \in 1..(m - d) : v[i] = w[i + d]
  <2>1. \A i \in (d + 1)..m : w[i] \in Items
        BY <1>1, <1>4, ElementOfSeq
  <2>2. v = SubSeq(w, d + 1, m)
        BY <1>4 DEF Rest
  <2>3. /\ v \in Seq(Items)
        /\ Len(v) = IF d + 1 <= m THEN m - (d + 1) + 1 ELSE 0
        /\ \A i \in 1..(m - (d + 1) + 1) : v[i] = w[(d + 1) + i - 1]
    <3> HIDE DEF v, m
    <3> QED
        BY <1>1, <1>4, <2>1, <2>2, SubSeqProperties
  <2> HIDE DEF v, m
  <2> QED
      BY <1>1, <1>4, <2>3
<1> DEFINE left == {i \in 1..(Len(v) + 1) : i + d \in starts}
           down == [i \in left |-> base[i + d]]
<1> HIDE DEF v, m
<1>6. /\ left \subseteq 1..(Len(v) + 1) /\ 1 \in left /\ Len(v) + 1 \in left
      /\ down \in [left -> Nat]
      /\ down[1] = lo + DataSize(w, 1) /\ down[Len(v) + 1] = hi
  <2>1. 1 + d = d + 1 /\ Len(v) + 1 + d = m + 1 /\ 1 <= Len(v) + 1 /\ Len(v) \in Nat
        BY <1>1, <1>4, <1>5
  <2>2. 1 \in left /\ Len(v) + 1 \in left
        BY <1>3, <2>1
  <2> QED
      BY <1>3, <2>1, <2>2
<1>7. ASSUME NEW i \in left, i <= Len(v)
      PROVE  FrameAt(v, i, down[i]) /\ Next1(v, i) \in left
             /\ down[Next1(v, i)] = down[i] + DataSize(v, i)
  <2>1. /\ i \in 1..(m - d) /\ v[i] = w[i + d] /\ i + d \in starts /\ i + d <= m
        /\ down[i] = base[i + d]
        BY <1>1, <1>4, <1>5, <1>7
  <2>2. /\ FrameAt(w, i + d, base[i + d])
        /\ Next1(w, i + d) \in starts
        /\ base[Next1(w, i + d)] = base[i + d] + DataSize(w, i + d)
        BY <1>2, <2>1 DEF Cut, m
  <2>3. w[i + d].masked \in BOOLEAN /\ w[i + d].length \in Nat
        BY <2>2 DEF FrameAt
  <2>4. /\ Before(v, i) + d = Before(w, i + d) /\ Next1(v, i) + d = Next1(w, i + d)
        /\ DataSize(v, i) = DataSize(w, i + d)
        /\ Before(v, i) \in Nat /\ Before(v, i) >= 1
        /\ Next1(v, i) = Before(v, i) + v[i].length + 1
    <3> DEFINE k == IF w[i + d].masked THEN 1 ELSE 0
    <3>1. k \in Nat /\ i \in Nat /\ i >= 1 /\ d \in Nat
          BY <1>1, <1>4, <2>1
    <3>2. Before(v, i) = i + k /\ Before(w, i + d) = (i + d) + k
          BY <2>1 DEF Before
    <3>3. /\ Next1(v, i) = Before(v, i) + w[i + d].length + 1
          /\ Next1(w, i + d) = Before(w, i + d) + w[i + d].length + 1
          BY <2>1 DEF Next1
    <3>4. DataSize(v, i) = DataSize(w, i + d)
          BY <2>1 DEF DataSize
    <3> HIDE DEF k
    <3> QED
        BY <2>1, <2>3, <3>1, <3>2, <3>3, <3>4
  <2>5. Next1(v, i) \in 1..(Len(v) + 1)
    <3>1. Next1(w, i + d) <= m + 1
      <4>1. \A x \in starts : x <= m + 1
            BY <1>1, <1>3
      <4> QED
          BY <2>2, <4>1
    <3>2. Len(v) = m - d /\ m \in Nat /\ d \in Nat
          BY <1>1, <1>4, <1>5
    <3>3. v[i].length \in Nat
          BY <2>1, <2>3
    <3>4. \A x, y \in Nat : x + y + 1 \in Nat /\ x + y + 1 >= 1
          OBVIOUS
    <3>5. Next1(v, i) \in Nat /\ Next1(v, i) >= 1
          BY <2>4, <3>3, <3>4
    <3>6. \A x \in Nat : x >= 1 /\ x + d <= m + 1 => x \in 1..((m - d) + 1)
          BY <3>2
    <3>7. Next1(v, i) + d <= m + 1
          BY <2>4, <3>1
    <3> QED
        BY <3>2, <3>5, <3>6, <3>7
  <2>6. Next1(v, i) \in left
        BY <2>2, <2>4, <2>5
  <2>7. \A j \in 1..v[i].length : v[Before(v, i) + j] = w[Before(w, i + d) + j]
    <3> SUFFICES ASSUME NEW j \in 1..v[i].length
                 PROVE  v[Before(v, i) + j] = w[Before(w, i + d) + j]
        OBVIOUS
    <3>1. /\ Before(v, i) + j \in 1..(m - d)
          /\ Before(v, i) + j + d = Before(w, i + d) + j
      <4>1. Len(v) = m - d /\ m \in Nat /\ d \in Nat
            BY <1>1, <1>4, <1>5
      <4>2. v[i].length \in Nat
            BY <2>1, <2>3
      <4>3. \A x, y, z \in Nat : x + d = y => x + z + d = y + z
            BY <4>1
      <4>4. Before(v, i) + j \in 1..(m - d)
        <5>1. Before(v, i) + v[i].length + 1 \in 1..((m - d) + 1)
              BY <2>4, <2>5, <4>1
        <5>2. Before(v, i) \in Nat /\ Before(v, i) >= 1 /\ j \in 1..v[i].length
              BY <2>4
        <5>3. PICK x \in Nat : x = Before(v, i)
              BY <5>2
        <5>4. PICK y \in Nat : y = v[i].length
              BY <4>2
        <5>5. x >= 1 /\ j \in 1..y /\ x + y + 1 \in 1..((m - d) + 1)
              BY <5>1, <5>2, <5>3, <5>4
        <5> QED
            BY <4>1, <5>3, <5>5
      <4>5. Before(w, i + d) \in Nat /\ j \in Nat
            BY <2>4, <4>1, <4>2
      <4> QED
          BY <2>4, <4>3, <4>4, <4>5
    <3> QED
        BY <1>5, <3>1
  <2>8. FrameAt(v, i, down[i])
        BY <2>1, <2>2, <2>7 DEF FrameAt
  <2> QED
      BY <2>1, <2>2, <2>4, <2>6, <2>8
<1> HIDE DEF left, down
<1>8. Framed(v, lo + DataSize(w, 1), hi)
  <2>1. Cut(v, left, down, lo + DataSize(w, 1), hi)
        BY <1>6, <1>7 DEF Cut
  <2> QED
      BY <2>1 DEF Framed
<1>9. v # <<>> => v[1].type = "header"
  <2> SUFFICES ASSUME v # <<>> PROVE v[1].type = "header"
      OBVIOUS
  <2>1. 1 <= Len(v)
        BY <1>5, EmptySeq, LenProperties
  <2> QED
      BY <1>6, <1>7, <2>1 DEF FrameAt
<1> QED
    BY <1>1, <1>3, <1>4, <1>5, <1>8, <1>9 DEF v, m

-----------------------------------------------------------------------------
(* What is written.                                                        *)

FrameOf(op, b, t) == <<Header(op, b, Len(t))>> \o MaskOf(b) \o t

LEMMA FrameShape ==
  ASSUME NEW op \in {"data", "ping"}, NEW b \in BOOLEAN, NEW t \in Seq(Items), NEW lo \in Nat,
         op = "data" => \A j \in 1..Len(t) : t[j] = Byte(lo + j),
         op = "ping" => ~b
  PROVE  /\ FrameOf(op, b, t) \in Seq(Items)
         /\ FrameAt(FrameOf(op, b, t), 1, lo)
         /\ Len(FrameOf(op, b, t)) = Before(FrameOf(op, b, t), 1) + FrameOf(op, b, t)[1].length
         /\ DataSize(FrameOf(op, b, t), 1) = IF op = "data" THEN Len(t) ELSE 0
<1> DEFINE f == FrameOf(op, b, t)
           h == Header(op, b, Len(t))
           n == Len(t)
           k == IF b THEN 1 ELSE 0
           x == <<h>>
           y == MaskOf(b)
           g == x \o y
<1>0. /\ n \in Nat /\ k \in {0, 1} /\ h \in Items
      /\ h.type = "header" /\ h.opcode = op /\ h.masked = b /\ h.length = n
      BY LenProperties DEF Header, Items
<1>1. y \in Seq(Items) /\ Len(y) = k
  <2>1. CASE b
    <3>1. MaskKey \in Items
          BY DEF Items
    <3> QED
        BY <2>1, <3>1 DEF MaskOf
  <2>2. CASE ~b
        BY <2>2 DEF MaskOf
  <2> QED
      BY <2>1, <2>2, Zenon
<1>2. x \in Seq(Items) /\ Len(x) = 1 /\ x[1] = h
      BY <1>0
<1>3. f = g \o t
      BY DEF FrameOf
<1>k. k = IF b THEN 1 ELSE 0
      OBVIOUS
<1> HIDE DEF f, x, y, k, n, h
<1>4. g \in Seq(Items) /\ Len(g) = 1 + k /\ g[1] = h
  <2>1. /\ g \in Seq(Items) /\ Len(g) = Len(x) + Len(y)
        /\ \A i \in 1..(Len(x) + Len(y)) : g[i] = IF i <= Len(x) THEN x[i] ELSE y[i - Len(x)]
        BY <1>1, <1>2, ConcatProperties
  <2> HIDE DEF g
  <2> QED
      BY <1>0, <1>1, <1>2, <2>1
<1> HIDE DEF g
<1>5. /\ f \in Seq(Items) /\ Len(f) = Len(g) + Len(t)
      /\ \A i \in 1..(Len(g) + Len(t)) : f[i] = IF i <= Len(g) THEN g[i] ELSE t[i - Len(g)]
  <2>1. /\ g \o t \in Seq(Items) /\ Len(g \o t) = Len(g) + Len(t)
        /\ \A i \in 1..(Len(g) + Len(t)) :
             (g \o t)[i] = IF i <= Len(g) THEN g[i] ELSE t[i - Len(g)]
        BY <1>4, ConcatProperties
  <2> QED
      BY <1>3, <2>1
<1>6. f \in Seq(Items) /\ Len(f) = 1 + k + n /\ f[1] = h
      BY <1>0, <1>4, <1>5 DEF n
<1>7. \A j \in 1..n : f[1 + k + j] = t[j]
  <2> SUFFICES ASSUME NEW j \in 1..n PROVE f[1 + k + j] = t[j]
      OBVIOUS
  <2>1. /\ 1 + k + j \in 1..(1 + k + n) /\ ~(1 + k + j <= 1 + k)
        /\ 1 + k + j - (1 + k) = j
        BY <1>0
  <2> QED
      BY <1>4, <1>5, <2>1 DEF n
<1>8. Before(f, 1) = 1 + k
      BY <1>0, <1>6, <1>k DEF Before
<1>9. FrameAt(f, 1, lo)
  <2>1. /\ f[1].type = "header" /\ f[1].masked \in BOOLEAN /\ f[1].length = n
        /\ f[1].opcode = op
        BY <1>0, <1>6
  <2>2. CASE op = "data"
    <3>1. \A j \in 1..n : f[Before(f, 1) + j] = Byte(lo + j)
          BY <1>7, <1>8, <2>2 DEF n
    <3> QED
        BY <1>0, <2>1, <2>2, <3>1 DEF FrameAt
  <2>3. CASE op = "ping"
    <3>1. ~f[1].masked
          BY <1>0, <1>6, <2>3, Zenon
    <3> QED
        BY <1>0, <2>1, <2>3, <3>1 DEF FrameAt
  <2> QED
      BY <2>2, <2>3
<1> QED
    BY <1>0, <1>6, <1>8, <1>9 DEF DataSize, n, f

(* A Write adds a whole frame.                                             *)
LEMMA WriteFramed ==
  ASSUME kind = "ws", WSTypes, NEW lo \in Nat, Framed(items, lo, written),
         NEW n \in Nat, Write(n)
  PROVE  /\ written' \in 0..MaxWritten /\ items' \in Seq(Items)
         /\ Framed(items', lo, written')
<1> DEFINE t == Data(n)
           f == <<Header("data", Masked, n)>> \o MaskOf(Masked) \o t
<1>1. /\ written \in 0..MaxWritten /\ written \in Nat /\ items \in Seq(Items)
      /\ written' = written + n /\ written + n <= MaxWritten
      /\ items' = items \o f
      BY DEF WSTypes, Write, WSFrame
<1>2. /\ t \in Seq(Items) /\ Len(t) = n /\ \A j \in 1..n : t[j] = Byte(written + j)
  <2>1. ASSUME NEW j \in 1..n PROVE Byte(written + j) \in Items
        BY <1>1 DEF Byte, Items
  <2>2. t \in [1..n -> Items] /\ \A j \in 1..n : t[j] = Byte(written + j)
        BY <2>1 DEF Data
  <2> HIDE DEF t
  <2> QED
      BY <2>2
<1> HIDE DEF t
<1>3. Masked \in BOOLEAN
      BY DEF Masked
<1>4. f = FrameOf("data", Masked, t)
      BY <1>2 DEF FrameOf
<1> HIDE DEF f
<1>5. /\ f \in Seq(Items) /\ FrameAt(f, 1, written)
      /\ Len(f) = Before(f, 1) + f[1].length
      /\ DataSize(f, 1) = n
      BY <1>1, <1>2, <1>3, <1>4, FrameShape
<1>6. Framed(items \o f, lo, written + DataSize(f, 1))
      BY <1>1, <1>5, AppendFramed
<1>7. items \o f \in Seq(Items)
      BY <1>1, <1>5, ConcatProperties
<1> QED
    BY <1>1, <1>5, <1>6, <1>7

-----------------------------------------------------------------------------
(* What is read: n bytes of buf, which are the next ones, and the rest     *)
(* goes to the read buffer.                                                *)

LEMMA TakeBytes ==
  ASSUME WSTypes, Transparent, NEW buf \in Seq(Items),
         \A i \in 1..Len(buf) : buf[i] = Byte(Len(bytesRead) + i),
         NEW n \in 0..Len(buf), Returns(SubSeq(buf, 1, n)),
         readBuf' = SubSeq(buf, n + 1, Len(buf))
  PROVE  /\ bytesRead' \in Seq(Nat) /\ want' \in Nat /\ readBuf' \in Seq(Items)
         /\ \A i \in 1..Len(bytesRead') : bytesRead'[i] = i
         /\ \A i \in 1..Len(readBuf') : readBuf'[i] = Byte(Len(bytesRead') + i)
         /\ Len(bytesRead') + Len(readBuf') = Len(bytesRead) + Len(buf)
<1> DEFINE m == Len(buf)
           g == Len(bytesRead)
           bytes == SubSeq(buf, 1, n)
           ns == [i \in 1..Len(bytes) |-> bytes[i].n]
<1>1. /\ m \in Nat /\ g \in Nat /\ bytesRead \in Seq(Nat) /\ want \in Nat /\ payload \in Nat
      /\ \A i \in 1..g : bytesRead[i] = i
      /\ n \in 0..m
      BY LenProperties DEF WSTypes, Transparent
<1>2. /\ bytes \in Seq(Items) /\ Len(bytes) = n /\ \A i \in 1..n : bytes[i] = buf[i]
  <2>1. \A i \in 1..n : buf[i] \in Items
        BY <1>1, ElementOfSeq
  <2> QED
      BY <1>1, <2>1, SubSeqProperties
<1>3. /\ readBuf' \in Seq(Items) /\ Len(readBuf') = m - n
      /\ \A i \in 1..(m - n) : readBuf'[i] = buf[n + i]
  <2>1. \A i \in (n + 1)..m : buf[i] \in Items
        BY <1>1, ElementOfSeq
  <2>2. /\ readBuf' \in Seq(Items)
        /\ Len(readBuf') = IF n + 1 <= m THEN m - (n + 1) + 1 ELSE 0
        /\ \A i \in 1..(m - (n + 1) + 1) : readBuf'[i] = buf[(n + 1) + i - 1]
    <3> HIDE DEF m
    <3>1. readBuf' = SubSeq(buf, n + 1, m)
          BY DEF m
    <3> QED
        BY <1>1, <2>1, <3>1, SubSeqProperties DEF m
  <2> HIDE DEF m
  <2> QED
      BY <1>1, <2>2
<1> HIDE DEF m, g
<1>4. /\ bytesRead' = bytesRead \o ns /\ want' \in Nat
      BY <1>1, <1>2 DEF Returns
<1> HIDE DEF bytes
<1>5. ns \in Seq(Nat) /\ Len(ns) = n /\ \A i \in 1..n : ns[i] = g + i
  <2>1. ASSUME NEW i \in 1..n PROVE bytes[i].n = g + i /\ g + i \in Nat
    <3>1. i \in 1..m /\ bytes[i] = buf[i] /\ g + i \in Nat
          BY <1>1, <1>2
    <3>2. buf[i] = Byte(g + i)
          BY <3>1 DEF m, g
    <3> QED
        BY <3>1, <3>2 DEF Byte
  <2>2. ns \in [1..n -> Nat] /\ \A i \in 1..n : ns[i] = g + i
        BY <1>2, <2>1
  <2> HIDE DEF ns
  <2> QED
      BY <1>1, <2>2
<1> HIDE DEF ns
<1>6. /\ bytesRead' \in Seq(Nat) /\ Len(bytesRead') = g + n
      /\ \A i \in 1..(g + n) : bytesRead'[i] = IF i <= g THEN bytesRead[i] ELSE ns[i - g]
      BY <1>1, <1>4, <1>5, ConcatProperties DEF g
<1>7. \A i \in 1..(g + n) : bytesRead'[i] = i
  <2> SUFFICES ASSUME NEW i \in 1..(g + n) PROVE bytesRead'[i] = i
      OBVIOUS
  <2>1. CASE i <= g
        BY <1>1, <1>6, <2>1
  <2>2. CASE ~(i <= g)
    <3>1. i - g \in 1..n /\ g + (i - g) = i
          BY <1>1, <2>2
    <3> QED
        BY <1>5, <1>6, <2>2, <3>1
  <2> QED
      BY <2>1, <2>2
<1>8. \A i \in 1..(m - n) : readBuf'[i] = Byte(g + n + i)
  <2> SUFFICES ASSUME NEW i \in 1..(m - n) PROVE readBuf'[i] = Byte(g + n + i)
      OBVIOUS
  <2>1. n + i \in 1..m /\ g + (n + i) = g + n + i
        BY <1>1
  <2>2. buf[n + i] = Byte(g + (n + i))
        BY <2>1 DEF m, g
  <2> QED
      BY <1>3, <2>1, <2>2
<1>9. Len(bytesRead') + Len(readBuf') = g + m
  <2>1. g + n + (m - n) = g + m
        BY <1>1
  <2> QED
      BY <1>3, <1>6, <2>1
<1> QED
    BY <1>3, <1>4, <1>6, <1>7, <1>8, <1>9 DEF m, g

LEMMA SmallerInside ==
  ASSUME NEW a \in Nat, NEW b \in Nat
  PROVE  Smaller(a, b) \in 0..b
BY DEF Smaller

LEMMA FrameAccess ==
  ASSUME NEW w \in Seq(Items), w # <<>>, w[1].masked \in BOOLEAN, w[1].length \in Nat
  PROVE  /\ Head(w) = w[1]
         /\ 1 + Len(MaskOf(w[1].masked)) = Before(w, 1)
         /\ 2 + Len(MaskOf(w[1].masked)) + w[1].length = Next1(w, 1)
         /\ Before(w, 1) \in Nat /\ Before(w, 1) >= 1
         /\ Next1(w, 1) = Before(w, 1) + w[1].length + 1
         /\ ~w[1].masked => 2 + w[1].length = Next1(w, 1)
<1>1. Head(w) = w[1]
      OBVIOUS
<1> DEFINE k == IF w[1].masked THEN 1 ELSE 0
<1>2. k \in {0, 1} /\ (~w[1].masked => k = 0)
      OBVIOUS
<1>3. Len(MaskOf(w[1].masked)) = k
  <2>1. CASE w[1].masked
        BY <2>1 DEF MaskOf
  <2>2. CASE ~w[1].masked
        BY <2>2 DEF MaskOf
  <2> QED
      BY <2>1, <2>2, Zenon
<1>4. Before(w, 1) = 1 + k /\ Next1(w, 1) = Before(w, 1) + w[1].length + 1
      BY DEF Before, Next1
<1> HIDE DEF k
<1> QED
    BY <1>1, <1>2, <1>3, <1>4

-----------------------------------------------------------------------------
(* The invariant.                                                          *)

LEMMA WSInvInit == FRInit => WSInv
<1> SUFFICES ASSUME FRInit PROVE WSInv
    OBVIOUS
<1>1. /\ written = 0 /\ items = <<>> /\ payload = 0 /\ want = HeaderSize
      /\ readBuf = <<>> /\ bytesRead = <<>> /\ garbled = FALSE
      BY DEF FRInit
<1>2. WSTypes /\ Transparent
      BY <1>1 DEF WSTypes, Transparent
<1>3. Framed(<<>>, 0, 0)
      BY EmptyFramed
<1>4. Framed(items, Len(bytesRead) + Len(readBuf), written)
      BY <1>1, <1>3
<1> QED
    BY <1>1, <1>2, <1>4 DEF WSInv

LEMMA WriteKeeps ==
  ASSUME WSInv, kind = "ws", NEW n \in Nat, Write(n), payload' \in Nat,
         UNCHANGED <<kind, reader, readerVars>>
  PROVE  WSInv'
<1>1. /\ WSTypes /\ Transparent
      /\ \A i \in 1..Len(readBuf) : readBuf[i] = Byte(Len(bytesRead) + i)
      /\ Framed(items, Len(bytesRead) + Len(readBuf), written)
      BY DEF WSInv
<1>2. /\ want' = want /\ readBuf' = readBuf /\ bytesRead' = bytesRead /\ garbled' = garbled
      BY DEF readerVars
<1>3. Len(bytesRead) + Len(readBuf) \in Nat
      BY <1>1, LenProperties DEF WSTypes
<1>4. /\ written' \in 0..MaxWritten /\ items' \in Seq(Items)
      /\ Framed(items', Len(bytesRead) + Len(readBuf), written')
      BY <1>1, <1>3, WriteFramed
<1>5. WSTypes'
      BY <1>1, <1>2, <1>4 DEF WSTypes
<1>6. Transparent'
      BY <1>1, <1>2 DEF Transparent
<1> QED
    BY <1>1, <1>2, <1>4, <1>5, <1>6 DEF WSInv

LEMMA PingKeeps ==
  ASSUME "server" \notin Pinged, WSInv, kind = "ws", NEW n \in 0..1, Ping(n)
  PROVE  WSInv'
<1> DEFINE t == [i \in 1..n |-> Byte(0)]
           f == FrameOf("ping", Masked, t)
           lo == Len(bytesRead) + Len(readBuf)
<1>1. /\ WSTypes /\ Transparent
      /\ \A i \in 1..Len(readBuf) : readBuf[i] = Byte(Len(bytesRead) + i)
      /\ Framed(items, lo, written)
      BY DEF WSInv
<1>2. /\ written' = written /\ payload' = payload
      /\ want' = want /\ readBuf' = readBuf /\ bytesRead' = bytesRead /\ garbled' = garbled
      BY DEF readerVars, Ping
<1>3. lo \in Nat /\ written \in Nat /\ items \in Seq(Items)
      BY <1>1, LenProperties DEF WSTypes
<1>4. Masked \in BOOLEAN /\ ~Masked
      BY DEF Ping, Masked
<1>5. t \in Seq(Items) /\ Len(t) = n
  <2>1. Byte(0) \in Items
        BY DEF Byte, Items
  <2> QED
      BY <2>1
<1>6. items' = items \o f
      BY <1>5 DEF Ping, FrameOf
<1> HIDE DEF t, lo
<1>7. /\ f \in Seq(Items) /\ FrameAt(f, 1, written)
      /\ Len(f) = Before(f, 1) + f[1].length
      /\ DataSize(f, 1) = 0
      BY <1>3, <1>4, <1>5, FrameShape
<1> HIDE DEF f
<1>8. Framed(items \o f, lo, written + DataSize(f, 1))
      BY <1>1, <1>3, <1>7, AppendFramed
<1>9. items' \in Seq(Items) /\ Framed(items', lo, written)
  <2>1. written + DataSize(f, 1) = written
        BY <1>3, <1>7
  <2> QED
      BY <1>3, <1>6, <1>7, <1>8, <2>1, ConcatProperties
<1>10. WSTypes'
      BY <1>1, <1>2, <1>9 DEF WSTypes
<1>11. Transparent'
      BY <1>1, <1>2 DEF Transparent
<1> QED
    BY <1>1, <1>2, <1>9, <1>10, <1>11 DEF WSInv, lo

LEMMA BufferedKeeps ==
  ASSUME WSInv, WSReadBuffered
  PROVE  WSInv'
<1> DEFINE n == Smaller(Space, Len(readBuf))
<1>1. /\ kind = "ws" /\ Returns(SubSeq(readBuf, 1, n))
      /\ readBuf' = SubSeq(readBuf, n + 1, Len(readBuf))
      /\ items' = items /\ garbled' = garbled /\ written' = written /\ payload' = payload
      BY DEF WSReadBuffered, writerVars
<1>2. /\ WSTypes /\ Transparent
      /\ \A i \in 1..Len(readBuf) : readBuf[i] = Byte(Len(bytesRead) + i)
      /\ Framed(items, Len(bytesRead) + Len(readBuf), written)
      BY <1>1 DEF WSInv
<1>3. n \in 0..Len(readBuf) /\ readBuf \in Seq(Items)
      BY <1>2, LenProperties, SmallerInside DEF WSTypes, Space
<1> HIDE DEF n
<1>4. /\ bytesRead' \in Seq(Nat) /\ want' \in Nat /\ readBuf' \in Seq(Items)
      /\ \A i \in 1..Len(bytesRead') : bytesRead'[i] = i
      /\ \A i \in 1..Len(readBuf') : readBuf'[i] = Byte(Len(bytesRead') + i)
      /\ Len(bytesRead') + Len(readBuf') = Len(bytesRead) + Len(readBuf)
      BY <1>1, <1>2, <1>3, TakeBytes
<1>5. WSTypes'
      BY <1>1, <1>2, <1>4 DEF WSTypes
<1>6. Transparent'
      BY <1>1, <1>2, <1>4 DEF Transparent
<1>7. Framed(items, Len(bytesRead) + Len(readBuf), written)'
      BY <1>1, <1>2, <1>4
<1> QED
    BY <1>4, <1>5, <1>6, <1>7 DEF WSInv

(* The first frame on the wire, and what is behind it.                     *)
LEMMA FrameFront ==
  ASSUME WSInv, kind = "ws", readBuf = <<>>, FrameReady
  PROVE  /\ Next1(items, 1) \in 2..(Len(items) + 1)
         /\ items[1].type = "header" /\ items[1].opcode = "data" /\ items[1].length \in Nat
         /\ AfterFrame = Rest(items) /\ Rest(items) \in Seq(Items)
         /\ Framed(Rest(items), Len(bytesRead) + items[1].length, written)
         /\ FrameData \in Seq(Items) /\ Len(FrameData) = items[1].length
         /\ \A j \in 1..Len(FrameData) : FrameData[j] = Byte(Len(bytesRead) + j)
<1> DEFINE lo == Len(bytesRead)
           len == items[1].length
<1>2. /\ WSTypes /\ Transparent /\ lo \in Nat /\ items \in Seq(Items) /\ written \in Nat
      /\ Framed(items, lo, written)
      BY LenProperties DEF WSInv, WSTypes
<1> HIDE DEF lo
<1>3. items # <<>> /\ Head(items) = items[1] /\ items[1].opcode = "data"
      BY <1>2 DEF FrameReady
<1>4. /\ FrameAt(items, 1, lo) /\ Next1(items, 1) \in 2..(Len(items) + 1)
      /\ Rest(items) \in Seq(Items)
      /\ Framed(Rest(items), lo + len, written)
  <2>1. DataSize(items, 1) = len
        BY <1>3 DEF DataSize
  <2> QED
      BY <1>2, <1>3, <2>1, DropFramed
<1>5. /\ items[1].masked \in BOOLEAN /\ len \in Nat
      /\ \A j \in 1..len : items[Before(items, 1) + j] = Byte(lo + j)
      BY <1>3, <1>4 DEF FrameAt
<1>6. /\ 1 + Len(MaskOf(items[1].masked)) = Before(items, 1)
      /\ 2 + Len(MaskOf(items[1].masked)) + len = Next1(items, 1)
      /\ Before(items, 1) \in Nat /\ Before(items, 1) >= 1
      /\ Next1(items, 1) = Before(items, 1) + len + 1
      BY <1>2, <1>3, <1>5, FrameAccess
<1>7. AfterFrame = Rest(items)
      BY <1>3, <1>6 DEF AfterFrame, Rest
<1>8. FrameData = SubSeq(items, Before(items, 1) + 1, Before(items, 1) + len)
      BY <1>3, <1>6 DEF FrameData
<1>9. /\ FrameData \in Seq(Items) /\ Len(FrameData) = len
      /\ \A j \in 1..len : FrameData[j] = items[Before(items, 1) + j]
  <2> DEFINE a == Before(items, 1)
  <2>1. a \in Nat /\ a >= 1 /\ a + len <= Len(items) /\ Len(items) \in Nat
        BY <1>2, <1>4, <1>5, <1>6, LenProperties
  <2> HIDE DEF a, len
  <2>2. \A i \in (a + 1)..(a + len) : items[i] \in Items
        BY <1>2, <1>5, <2>1, ElementOfSeq
  <2>3. /\ SubSeq(items, a + 1, a + len) \in Seq(Items)
        /\ Len(SubSeq(items, a + 1, a + len)) = len
        /\ \A j \in 1..len : SubSeq(items, a + 1, a + len)[j] = items[a + j]
    <3>1. /\ SubSeq(items, a + 1, a + len) \in Seq(Items)
          /\ Len(SubSeq(items, a + 1, a + len))
               = IF a + 1 <= a + len THEN a + len - (a + 1) + 1 ELSE 0
          /\ \A j \in 1..(a + len - (a + 1) + 1) :
               SubSeq(items, a + 1, a + len)[j] = items[(a + 1) + j - 1]
          BY <1>5, <2>1, <2>2, SubSeqProperties
    <3>2. /\ a + len - (a + 1) + 1 = len
          /\ (IF a + 1 <= a + len THEN len ELSE 0) = len
          /\ \A j \in 1..len : (a + 1) + j - 1 = a + j
          BY <1>5, <2>1
    <3> QED
        BY <3>1, <3>2
  <2> QED
      BY <1>8, <2>3 DEF a, len
<1>10. \A j \in 1..Len(FrameData) : FrameData[j] = Byte(lo + j)
       BY <1>5, <1>9
<1> QED
    BY <1>3, <1>4, <1>5, <1>7, <1>9, <1>10 DEF lo, FrameAt

LEMMA FrameKeeps ==
  ASSUME WSInv, WSReadFrame
  PROVE  WSInv'
<1> DEFINE n == Smaller(Space, Len(FrameData))
           lo == Len(bytesRead)
           len == items[1].length
<1>1. /\ kind = "ws" /\ readBuf = <<>> /\ FrameReady /\ items' = AfterFrame
      /\ Returns(SubSeq(FrameData, 1, n))
      /\ readBuf' = SubSeq(FrameData, n + 1, Len(FrameData))
      /\ garbled' = garbled /\ written' = written /\ payload' = payload
      BY DEF WSReadFrame, writerVars
<1>2. WSTypes /\ Transparent
      BY <1>1 DEF WSInv
<1> HIDE DEF n, lo, len
<1>3. /\ len \in Nat /\ items' \in Seq(Items) /\ Framed(items', lo + len, written)
      /\ FrameData \in Seq(Items) /\ Len(FrameData) = len
      /\ \A j \in 1..Len(FrameData) : FrameData[j] = Byte(lo + j)
      BY <1>1, FrameFront DEF lo, len
<1>4. n \in 0..Len(FrameData)
      BY <1>2, <1>3, SmallerInside DEF WSTypes, Space, n
<1>5. /\ bytesRead' \in Seq(Nat) /\ want' \in Nat /\ readBuf' \in Seq(Items)
      /\ \A i \in 1..Len(bytesRead') : bytesRead'[i] = i
      /\ \A i \in 1..Len(readBuf') : readBuf'[i] = Byte(Len(bytesRead') + i)
      /\ Len(bytesRead') + Len(readBuf') = lo + len
      BY <1>1, <1>2, <1>3, <1>4, TakeBytes DEF lo
<1>6. WSTypes'
      BY <1>1, <1>2, <1>3, <1>5 DEF WSTypes
<1>7. Transparent'
      BY <1>1, <1>2, <1>5 DEF Transparent
<1>8. Framed(items, Len(bytesRead) + Len(readBuf), written)'
      BY <1>1, <1>3, <1>5
<1> QED
    BY <1>5, <1>6, <1>7, <1>8 DEF WSInv

LEMMA PongKeeps ==
  ASSUME WSInv, WSReadPing
  PROVE  WSInv'
<1> DEFINE lo == Len(bytesRead) + Len(readBuf)
<1>1. /\ kind = "ws" /\ items # <<>> /\ Head(items).opcode = "ping" /\ items' = PingRest
      /\ garbled' = Garbles(PingRest)
      /\ written' = written /\ payload' = payload
      /\ want' = want /\ readBuf' = readBuf /\ bytesRead' = bytesRead
      BY DEF WSReadPing, writerVars
<1>2. /\ WSTypes /\ Transparent /\ lo \in Nat /\ items \in Seq(Items) /\ written \in Nat
      /\ \A i \in 1..Len(readBuf) : readBuf[i] = Byte(Len(bytesRead) + i)
      /\ Framed(items, lo, written)
      BY <1>1, LenProperties DEF WSInv, WSTypes
<1> HIDE DEF lo
<1>3. Head(items) = items[1] /\ items[1].opcode = "ping"
      BY <1>1, <1>2
<1>4. /\ FrameAt(items, 1, lo) /\ Rest(items) \in Seq(Items)
      /\ Rest(items) # <<>> => Rest(items)[1].type = "header"
      /\ Framed(Rest(items), lo, written)
  <2>1. lo + DataSize(items, 1) = lo
        BY <1>2, <1>3 DEF DataSize
  <2> QED
      BY <1>1, <1>2, <2>1, DropFramed
<1>5. items[1].masked \in BOOLEAN /\ items[1].length \in Nat /\ ~items[1].masked
      BY <1>3, <1>4 DEF FrameAt
<1>6. 2 + items[1].length = Next1(items, 1)
      BY <1>1, <1>2, <1>5, FrameAccess
<1>7. PingRest = Rest(items)
      BY <1>3, <1>6 DEF PingRest, Rest
<1>8. garbled' = FALSE
  <2>1. Rest(items) # <<>> => Head(Rest(items)).type = "header"
        BY <1>4
  <2> QED
      BY <1>1, <1>7, <2>1 DEF Garbles
<1>9. WSTypes'
      BY <1>1, <1>2, <1>4, <1>7 DEF WSTypes
<1>10. Transparent'
       BY <1>1, <1>2, <1>8 DEF Transparent
<1>11. Framed(items, Len(bytesRead) + Len(readBuf), written)'
       BY <1>1, <1>4, <1>7 DEF lo
<1> QED
    BY <1>1, <1>2, <1>9, <1>10, <1>11 DEF WSInv

LEMMA WSInvStep ==
  ASSUME "server" \notin Pinged, WSInv, payload \in Nat, [FRNext]_frVars
  PROVE  WSInv' /\ payload' \in Nat
<1>1. CASE UNCHANGED frVars
  <2>1. /\ kind' = kind /\ written' = written /\ items' = items /\ payload' = payload
        /\ want' = want /\ readBuf' = readBuf /\ bytesRead' = bytesRead /\ garbled' = garbled
        BY <1>1 DEF frVars
  <2> QED
      BY <2>1 DEF WSInv, WSTypes, Transparent
<1>2. ASSUME NEW n \in PayloadSizes, WriteHeader(n) PROVE WSInv' /\ payload' \in Nat
  <2>1. n \in Nat /\ payload' = n /\ HeaderSize \in Nat /\ Write(HeaderSize)
        /\ kind' = kind /\ reader' = reader /\ UNCHANGED readerVars
        BY <1>2 DEF WriteHeader
  <2>2. CASE kind = "ws"
        BY <2>1, <2>2, WriteKeeps
  <2> QED
      BY <2>1, <2>2 DEF WSInv
<1>3. CASE WritePayload
  <2>1. payload' = payload /\ Write(payload)
        /\ kind' = kind /\ reader' = reader /\ UNCHANGED readerVars
        BY <1>3 DEF WritePayload
  <2>2. CASE kind = "ws"
        BY <2>1, <2>2, WriteKeeps
  <2> QED
      BY <2>1, <2>2 DEF WSInv
<1>4. ASSUME NEW n \in MuxSizes, WriteMux(n) PROVE WSInv' /\ payload' \in Nat
  <2>1. n \in Nat /\ payload' = payload /\ Write(n)
        /\ kind' = kind /\ reader' = reader /\ UNCHANGED readerVars
        BY <1>4 DEF WriteMux
  <2>2. CASE kind = "ws"
        BY <2>1, <2>2, WriteKeeps
  <2> QED
      BY <2>1, <2>2 DEF WSInv
<1>5. ASSUME NEW n \in 0..1, Ping(n) PROVE WSInv' /\ payload' \in Nat
      BY <1>5, PingKeeps DEF Ping
<1>6. CASE NoiseRead
      BY <1>6 DEF NoiseRead, writerVars, WSInv
<1>7. CASE WSReadBuffered
      BY <1>7, BufferedKeeps DEF WSReadBuffered, writerVars
<1>8. CASE WSReadFrame
      BY <1>8, FrameKeeps DEF WSReadFrame, writerVars
<1>9. CASE WSReadPing
      BY <1>9, PongKeeps DEF WSReadPing, writerVars
<1> QED
    BY <1>1, <1>2, <1>3, <1>4, <1>5, <1>6, <1>7, <1>8, <1>9 DEF FRNext, Writer, Reader

(* However writes, frames and reads line up, for all sizes of messages,    *)
(* frames and buffers and any number of pings, WSConn (wsframe.go) gives   *)
(* out the bytes in the order in which they were written, none lost and    *)
(* none twice, unless a proxy pings the server, whose frames are masked.   *)
THEOREM WSIsAStream ==
  ASSUME "server" \notin Pinged
  PROVE  FRSpec => []WSTransparent
<1>1. FRInit => WSInv /\ payload \in Nat
      BY WSInvInit DEF FRInit
<1>2. (WSInv /\ payload \in Nat) /\ [FRNext]_frVars => (WSInv /\ payload \in Nat)'
      BY WSInvStep
<1>3. WSInv => WSTransparent
      BY DEF WSInv, WSTransparent
<1> QED
    BY <1>1, <1>2, <1>3, PTL DEF FRSpec

-----------------------------------------------------------------------------
(* The control message, and the number of pings.  Where writer and reader  *)
(* are: nothing is read before the header is written, which settles the    *)
(* size of the payload.                                                    *)
Phases ==
  /\ writing = "header" =>
       /\ written = 0 /\ payload = 0
       /\ reading = "header" /\ bytesRead = <<>> /\ readBuf = <<>>
  /\ writing = "payload" => written = HeaderSize
  /\ writing # "header" => payload \in PayloadSizes
  /\ reading = "header" => want > 0 /\ Len(bytesRead) + want = HeaderSize
  /\ reading = "payload" => want > 0 /\ Len(bytesRead) + want = HeaderSize + payload
  /\ reading = "mux" => want = 0 /\ Len(bytesRead) >= HeaderSize + payload

(* No pong without a ping; and nothing but pings before the header.        *)
PingPlaces(w) == {i \in 1..Len(w) : w[i].type = "header" /\ w[i].opcode = "ping"}
Pings(w) == Cardinality(PingPlaces(w))
OnlyPings(w) == \A i \in 1..Len(w) : w[i].type = "header" => w[i].opcode = "ping"

PingInv ==
  /\ pongsSent + Pings(items) <= pingsSent
  /\ kind = "ws" /\ writing = "header" => OnlyPings(items)

(* A header on noise's wire may announce less than there is (the length    *)
(* has two bytes), but never more, and the wire begins with one unless the *)
(* reader is lost already.                                                 *)
Announced(w) ==
  \A i \in 1..Len(w) : w[i].type = "header" =>
    /\ w[i].opcode = "data" /\ ~w[i].masked
    /\ i + w[i].length <= Len(w)
    /\ \A j \in 1..w[i].length : w[i + j].type = "byte"

NoiseShape ==
  kind = "noise" =>
    /\ Announced(items)
    /\ ~garbled => items = <<>> \/ items[1].type = "header"
    /\ writing = "header" => items = <<>>
    /\ readBuf = <<>>

FrameInv == FRTypeOK /\ WSInv /\ Phases /\ PingInv /\ NoiseShape

-----------------------------------------------------------------------------
(* How many pings are on the wire.                                         *)

LEMMA ShiftedPlaces ==
  ASSUME NEW S, IsFiniteSet(S), NEW T, NEW k \in Int, T \subseteq Int, S \subseteq Int,
         \A t \in T : t + k \in S
  PROVE  IsFiniteSet(T) /\ Cardinality(T) <= Cardinality(S)
<1> DEFINE f == [t \in T |-> t + k]
<1>1. f \in [T -> S]
      OBVIOUS
<1>2. \A a, b \in T : f[a] = f[b] => a = b
      OBVIOUS
<1>3. f \in Injection(T, S)
      BY <1>1, <1>2 DEF Injection, IsInjective
<1> QED
    BY <1>3, FS_Injection

LEMMA PlacesFinite ==
  ASSUME NEW w \in Seq(Items)
  PROVE  IsFiniteSet(PingPlaces(w)) /\ Pings(w) \in Nat
<1>1. Len(w) \in Nat
      BY LenProperties
<1>2. IsFiniteSet(1..Len(w))
      BY <1>1, FS_Interval
<1>3. PingPlaces(w) \in SUBSET (1..Len(w))
      BY DEF PingPlaces
<1>4. IsFiniteSet(PingPlaces(w))
      BY <1>2, <1>3, FS_Subset
<1> QED
    BY <1>4, FS_CardinalityType DEF Pings

LEMMA PingsNone ==
  ASSUME NEW w \in Seq(Items), \A i \in 1..Len(w) : w[i].type # "header" \/ w[i].opcode # "ping"
  PROVE  Pings(w) = 0
<1>1. PingPlaces(w) = {}
      BY DEF PingPlaces
<1> QED
    BY <1>1, FS_EmptySet DEF Pings

LEMMA PingsConcat ==
  ASSUME NEW s \in Seq(Items), NEW t \in Seq(Items)
  PROVE  Pings(s \o t) <= Pings(s) + Pings(t)
<1> DEFINE v == s \o t
           m == Len(s)
           A == PingPlaces(s)
           C == PingPlaces(v) \ A
<1>1. /\ m \in Nat /\ Len(t) \in Nat /\ v \in Seq(Items) /\ Len(v) = m + Len(t)
      /\ \A i \in 1..(m + Len(t)) : v[i] = IF i <= m THEN s[i] ELSE t[i - m]
      BY LenProperties, ConcatProperties
<1>2. /\ IsFiniteSet(A) /\ Cardinality(A) \in Nat
      /\ IsFiniteSet(PingPlaces(v)) /\ Cardinality(PingPlaces(v)) \in Nat
      /\ IsFiniteSet(PingPlaces(t)) /\ Cardinality(PingPlaces(t)) \in Nat
      BY <1>1, PlacesFinite DEF Pings
<1> HIDE DEF v, m
<1>3. \A i \in C : i \in Int /\ i - m \in PingPlaces(t)
  <2> SUFFICES ASSUME NEW i \in C PROVE i \in Int /\ i - m \in PingPlaces(t)
      OBVIOUS
  <2>1. i \in 1..(m + Len(t)) /\ v[i].type = "header" /\ v[i].opcode = "ping"
        BY <1>1 DEF PingPlaces
  <2>2. ~(i <= m)
    <3> SUFFICES ASSUME i <= m PROVE FALSE
        OBVIOUS
    <3>1. i \in 1..m /\ v[i] = s[i]
          BY <1>1, <2>1
    <3>2. i \in A
          BY <2>1, <3>1 DEF PingPlaces, m
    <3> QED
        BY <3>2
  <2>3. i - m \in 1..Len(t) /\ v[i] = t[i - m]
        BY <1>1, <2>1, <2>2
  <2> QED
      BY <2>1, <2>3 DEF PingPlaces
<1>4. IsFiniteSet(C) /\ Cardinality(C) <= Cardinality(PingPlaces(t)) /\ Cardinality(C) \in Nat
  <2>1. C \subseteq Int /\ PingPlaces(t) \subseteq Int /\ -m \in Int
        BY <1>1, <1>3 DEF PingPlaces
  <2>2. \A i \in C : i + (-m) \in PingPlaces(t)
        BY <1>1, <1>3
  <2> HIDE DEF C
  <2>3. IsFiniteSet(C) /\ Cardinality(C) <= Cardinality(PingPlaces(t))
        BY <1>2, <2>1, <2>2, ShiftedPlaces
  <2> QED
      BY <2>3, FS_CardinalityType
<1>5. PingPlaces(v) \subseteq A \cup C
      OBVIOUS
<1> HIDE DEF C, A
<1>6. /\ IsFiniteSet(A \cup C) /\ Cardinality(A \cap C) \in Nat
      /\ Cardinality(A \cup C) = Cardinality(A) + Cardinality(C) - Cardinality(A \cap C)
  <2>1. A \cap C \in SUBSET A
        OBVIOUS
  <2> QED
      BY <1>2, <1>4, <2>1, FS_Union, FS_Subset, FS_CardinalityType
<1>7. Cardinality(PingPlaces(v)) <= Cardinality(A \cup C) /\ Cardinality(A \cup C) \in Nat
  <2>1. PingPlaces(v) \in SUBSET (A \cup C)
        BY <1>5
  <2> QED
      BY <1>6, <2>1, FS_Subset, FS_CardinalityType
<1>8. Cardinality(PingPlaces(v)) <= Cardinality(A) + Cardinality(PingPlaces(t))
      BY <1>2, <1>4, <1>6, <1>7
<1> QED
    BY <1>8 DEF Pings, A, v

(* The wire from the place k on.                                           *)
LEMMA SuffixOf ==
  ASSUME NEW w \in Seq(Items), NEW k \in 1..(Len(w) + 1)
  PROVE  /\ SubSeq(w, k, Len(w)) \in Seq(Items)
         /\ Len(SubSeq(w, k, Len(w))) = Len(w) - k + 1
         /\ \A i \in 1..(Len(w) - k + 1) : SubSeq(w, k, Len(w))[i] = w[k + i - 1]
<1> DEFINE m == Len(w)
<1>1. m \in Nat /\ k \in Int
      BY LenProperties
<1>2. \A i \in k..m : w[i] \in Items
      BY <1>1, ElementOfSeq
<1> HIDE DEF m
<1>3. /\ SubSeq(w, k, m) \in Seq(Items)
      /\ Len(SubSeq(w, k, m)) = IF k <= m THEN m - k + 1 ELSE 0
      /\ \A i \in 1..(m - k + 1) : SubSeq(w, k, m)[i] = w[k + i - 1]
      BY <1>1, <1>2, SubSeqProperties
<1>4. (IF k <= m THEN m - k + 1 ELSE 0) = m - k + 1
      BY <1>1 DEF m
<1> QED
    BY <1>3, <1>4 DEF m

LEMMA PingsSuffix ==
  ASSUME NEW w \in Seq(Items), NEW k \in 1..(Len(w) + 1)
  PROVE  /\ Pings(SubSeq(w, k, Len(w))) <= Pings(w)
         /\ 1 \in PingPlaces(w) /\ k > 1 => Pings(SubSeq(w, k, Len(w))) + 1 <= Pings(w)
<1> DEFINE v == SubSeq(w, k, Len(w))
           A == PingPlaces(w)
<1>1. /\ Len(w) \in Nat /\ v \in Seq(Items) /\ Len(v) = Len(w) - k + 1
      /\ \A i \in 1..(Len(w) - k + 1) : v[i] = w[k + i - 1]
      BY SuffixOf, LenProperties
<1>2. IsFiniteSet(A) /\ Cardinality(A) \in Nat /\ A \subseteq Int
      BY PlacesFinite DEF Pings, PingPlaces
<1> HIDE DEF v
<1>3. PingPlaces(v) \subseteq Int
      BY DEF PingPlaces
<1>4. \A i \in PingPlaces(v) : i + (k - 1) \in A /\ i + (k - 1) >= k
  <2> SUFFICES ASSUME NEW i \in PingPlaces(v) PROVE i + (k - 1) \in A /\ i + (k - 1) >= k
      OBVIOUS
  <2>1. i \in 1..(Len(w) - k + 1) /\ v[i].type = "header" /\ v[i].opcode = "ping"
        BY <1>1 DEF PingPlaces
  <2>2. i + (k - 1) \in 1..Len(w) /\ i + (k - 1) >= k /\ v[i] = w[i + (k - 1)]
    <3>1. k + i - 1 = i + (k - 1)
          BY <2>1
    <3> QED
        BY <1>1, <2>1, <3>1
  <2> QED
      BY <2>1, <2>2 DEF PingPlaces
<1>5. k - 1 \in Int
      OBVIOUS
<1> HIDE DEF A
<1>6. Cardinality(PingPlaces(v)) <= Cardinality(A)
      BY <1>2, <1>3, <1>4, <1>5, ShiftedPlaces
<1>7. ASSUME 1 \in A, k > 1 PROVE Cardinality(PingPlaces(v)) + 1 <= Cardinality(A)
  <2>1. IsFiniteSet(A \ {1}) /\ Cardinality(A \ {1}) = Cardinality(A) - 1
        BY <1>2, <1>7, FS_RemoveElement
  <2>2. \A i \in PingPlaces(v) : i + (k - 1) \in A \ {1}
        BY <1>4, <1>7
  <2>3. Cardinality(PingPlaces(v)) <= Cardinality(A \ {1})
        BY <1>2, <1>3, <1>5, <2>1, <2>2, ShiftedPlaces
  <2>4. Cardinality(PingPlaces(v)) \in Nat
        BY <1>1, PlacesFinite DEF Pings
  <2> QED
      BY <1>2, <2>1, <2>3, <2>4
<1> QED
    BY <1>6, <1>7 DEF Pings, v, A

-----------------------------------------------------------------------------
(* What a frame adds to the wire: a header and no other.                   *)
AnyFrame(op, b, l, t) == <<Header(op, b, l)>> \o MaskOf(b) \o t

LEMMA FrameItems ==
  ASSUME NEW op \in {"data", "ping"}, NEW b \in BOOLEAN, NEW l \in Nat, NEW t \in Seq(Items),
         \A j \in 1..Len(t) : t[j].type = "byte"
  PROVE  /\ AnyFrame(op, b, l, t) \in Seq(Items)
         /\ Len(AnyFrame(op, b, l, t)) >= 1
         /\ AnyFrame(op, b, l, t)[1] = Header(op, b, l)
         /\ \A i \in 2..Len(AnyFrame(op, b, l, t)) : AnyFrame(op, b, l, t)[i].type # "header"
<1> DEFINE f == AnyFrame(op, b, l, t)
           h == Header(op, b, l)
           x == <<h>>
           y == MaskOf(b)
           g == x \o y
<1>1. h \in Items
      BY DEF Header, Items
<1>2. y \in Seq(Items) /\ Len(y) \in {0, 1} /\ \A i \in 1..Len(y) : y[i].type # "header"
  <2>1. CASE b
    <3>1. MaskKey \in Items /\ MaskKey.type # "header"
          BY DEF Items, MaskKey
    <3> QED
        BY <2>1, <3>1 DEF MaskOf
  <2>2. CASE ~b
        BY <2>2 DEF MaskOf
  <2> QED
      BY <2>1, <2>2, Zenon
<1>3. x \in Seq(Items) /\ Len(x) = 1 /\ x[1] = h
      BY <1>1
<1>4. f = g \o t
      BY DEF AnyFrame
<1> HIDE DEF f, x, y, h
<1>5. /\ g \in Seq(Items) /\ Len(g) = Len(x) + Len(y)
      /\ \A i \in 1..(Len(x) + Len(y)) : g[i] = IF i <= Len(x) THEN x[i] ELSE y[i - Len(x)]
      BY <1>2, <1>3, ConcatProperties
<1> HIDE DEF g
<1>6. /\ f \in Seq(Items) /\ Len(f) = Len(g) + Len(t) /\ Len(t) \in Nat
      /\ \A i \in 1..(Len(g) + Len(t)) : f[i] = IF i <= Len(g) THEN g[i] ELSE t[i - Len(g)]
  <2>1. t \in Seq(Items) /\ g \in Seq(Items)
        BY <1>5
  <2>2. /\ g \o t \in Seq(Items) /\ Len(g \o t) = Len(g) + Len(t)
        /\ \A i \in 1..(Len(g) + Len(t)) :
             (g \o t)[i] = IF i <= Len(g) THEN g[i] ELSE t[i - Len(g)]
        BY ONLY <2>1, ConcatProperties
  <2> QED
      BY <1>4, <2>1, <2>2, LenProperties
<1>7. Len(g) \in Nat /\ Len(g) >= 1 /\ f[1] = h /\ Len(f) >= 1
      BY <1>2, <1>3, <1>5, <1>6
<1>8. ASSUME NEW i \in 2..Len(f) PROVE f[i].type # "header"
  <2>1. CASE i <= Len(g)
    <3>1. i - 1 \in 1..Len(y) /\ f[i] = y[i - 1]
          BY <1>2, <1>3, <1>5, <1>6, <2>1
    <3> QED
        BY <1>2, <3>1
  <2>2. CASE ~(i <= Len(g))
    <3>1. i - Len(g) \in 1..Len(t) /\ f[i] = t[i - Len(g)]
          BY <1>6, <1>7, <2>2
    <3>2. t[i - Len(g)].type = "byte"
          BY <3>1
    <3> QED
        BY <3>1, <3>2
  <2> QED
      BY <2>1, <2>2
<1> QED
    BY <1>6, <1>7, <1>8 DEF f, h

LEMMA DataBytes ==
  ASSUME FRTypeOK, NEW n \in Nat, written + n <= MaxWritten
  PROVE  Data(n) \in Seq(Items) /\ Len(Data(n)) = n
         /\ \A j \in 1..n : Data(n)[j] = Byte(written + j) /\ Data(n)[j].type = "byte"
<1>1. ASSUME NEW j \in 1..n PROVE Byte(written + j) \in Items /\ Byte(written + j).type = "byte"
  <2>1. written + j \in 0..MaxWritten
        BY DEF FRTypeOK
  <2> QED
      BY <2>1 DEF Byte, Items
<1>2. Data(n) \in [1..n -> Items] /\ \A j \in 1..n : Data(n)[j] = Byte(written + j)
      BY <1>1 DEF Data
<1> QED
    BY <1>1, <1>2

LEMMA OneHeader ==
  ASSUME NEW f \in Seq(Items), Len(f) >= 1, f[1].type = "header",
         \A i \in 2..Len(f) : f[i].type # "header"
  PROVE  /\ f[1].opcode = "data" => Pings(f) = 0
         /\ f[1].opcode = "ping" => Pings(f) = 1
<1>1. Len(f) \in Nat
      BY LenProperties
<1>2. \A i \in 1..Len(f) : i = 1 \/ i \in 2..Len(f)
      BY <1>1
<1>3. CASE f[1].opcode = "data"
      BY <1>2, <1>3, PingsNone
<1>4. CASE f[1].opcode = "ping"
  <2>1. PingPlaces(f) = {1}
        BY <1>1, <1>2, <1>4 DEF PingPlaces
  <2> QED
      BY <1>4, <2>1, FS_Singleton DEF Pings
<1> QED
    BY <1>3, <1>4

(* A Write.  Noise's frame is its header and what is written.              *)
LEMMA NoiseFrameItems ==
  ASSUME FRTypeOK, NEW n \in Nat, written + n <= MaxWritten
  PROVE  /\ NoiseFrame(n) \in Seq(Items) /\ Len(NoiseFrame(n)) = n + 1
         /\ NoiseFrame(n)[1] = Header("data", FALSE, n % NoiseWidth)
         /\ \A j \in 1..n : NoiseFrame(n)[1 + j] = Byte(written + j)
<1> DEFINE t == Data(n)
           f == NoiseFrame(n)
           h == Header("data", FALSE, n % NoiseWidth)
           x == <<h>>
<1>1. /\ t \in Seq(Items) /\ Len(t) = n
      /\ \A j \in 1..n : t[j] = Byte(written + j)
      BY DataBytes
<1>2. n % NoiseWidth \in Nat
      OBVIOUS
<1>3. h \in Items
      BY <1>2 DEF Header, Items
<1>4. x \in Seq(Items) /\ Len(x) = 1 /\ x[1] = h
  <2> HIDE DEF h
  <2> QED
      BY <1>3
<1>5. f = x \o t
      BY DEF NoiseFrame
<1> HIDE DEF f, x, h, t
<1>6. /\ f \in Seq(Items) /\ Len(f) = 1 + n
      /\ \A i \in 1..(1 + n) : f[i] = IF i <= 1 THEN x[i] ELSE t[i - 1]
  <2>1. /\ x \o t \in Seq(Items) /\ Len(x \o t) = Len(x) + Len(t)
        /\ \A i \in 1..(Len(x) + Len(t)) :
             (x \o t)[i] = IF i <= Len(x) THEN x[i] ELSE t[i - Len(x)]
        BY <1>1, <1>4, ConcatProperties
  <2> QED
      BY <1>1, <1>4, <1>5, <2>1
<1>7. f[1] = h
      BY <1>4, <1>6
<1>8. ASSUME NEW j \in 1..n PROVE f[1 + j] = Byte(written + j)
  <2>1. 1 + j \in 1..(1 + n) /\ ~(1 + j <= 1) /\ 1 + j - 1 = j
        OBVIOUS
  <2> QED
      BY <1>1, <1>6, <2>1
<1> QED
    BY <1>6, <1>7, <1>8 DEF f, h

LEMMA WriteAdds ==
  ASSUME FRTypeOK, NEW n \in Nat, Write(n)
  PROVE  written' \in 0..MaxWritten /\ items' \in Seq(Items) /\ Pings(items') <= Pings(items)
<1>1. /\ written \in 0..MaxWritten /\ written' = written + n /\ written + n <= MaxWritten
      /\ items \in Seq(Items)
      BY DEF FRTypeOK, Write
<1>2. \E f \in Seq(Items) : items' = items \o f /\ Pings(f) = 0
  <2>1. CASE kind = "noise"
    <3> DEFINE f == NoiseFrame(n)
    <3>1. /\ f \in Seq(Items) /\ Len(f) = n + 1 /\ f[1].type = "header" /\ f[1].opcode = "data"
          /\ \A j \in 1..n : f[1 + j].type = "byte"
      <4>1. /\ f \in Seq(Items) /\ Len(f) = n + 1
            /\ \A j \in 1..n : f[1 + j] = Byte(written + j)
            BY <1>1, NoiseFrameItems
      <4>2. PICK l \in Nat : l = n % NoiseWidth
            OBVIOUS
      <4>3. f[1] = Header("data", FALSE, l)
            BY <1>1, <4>2, NoiseFrameItems
      <4> HIDE DEF f
      <4>4. f[1].type = "header" /\ f[1].opcode = "data"
            BY <4>3 DEF Header
      <4>5. ASSUME NEW j \in 1..n PROVE f[1 + j].type = "byte"
        <5>1. f[1 + j] = Byte(written + j)
              BY <4>1
        <5>2. \A x : Byte(x).type = "byte"
              BY DEF Byte
        <5> QED
            BY <5>1, <5>2
      <4> QED
          BY <4>1, <4>4, <4>5
    <3>2. \A i \in 2..Len(f) : f[i].type # "header"
      <4> SUFFICES ASSUME NEW i \in 2..(n + 1) PROVE f[i].type # "header"
          BY <3>1
      <4>1. i - 1 \in 1..n /\ 1 + (i - 1) = i
            OBVIOUS
      <4>2. f[1 + (i - 1)].type = "byte"
            BY <3>1, <4>1
      <4> HIDE DEF f
      <4>3. f[i].type = "byte"
            BY <4>1, <4>2
      <4> QED
          BY <4>3
    <3>3. items' = items \o f
          BY <2>1 DEF Write
    <3> HIDE DEF f
    <3>4. Len(f) >= 1
          BY <3>1
    <3>5. Pings(f) = 0
          BY <3>1, <3>2, <3>4, OneHeader
    <3> QED
        BY <3>1, <3>3, <3>5
  <2>2. CASE kind # "noise"
    <3> DEFINE f == AnyFrame("data", Masked, n, Data(n))
    <3>1. Masked \in BOOLEAN
          BY DEF Masked
    <3>2. /\ f \in Seq(Items) /\ Len(f) >= 1 /\ f[1] = Header("data", Masked, n)
          /\ \A i \in 2..Len(f) : f[i].type # "header"
          BY <1>1, <3>1, DataBytes, FrameItems
    <3>3. f[1].type = "header" /\ f[1].opcode = "data"
          BY <3>2 DEF Header
    <3>4. items' = items \o f
          BY <2>2 DEF Write, WSFrame, AnyFrame
    <3> HIDE DEF f
    <3> QED
        BY <3>2, <3>3, <3>4, OneHeader
  <2> QED
      BY <2>1, <2>2
<1>3. PICK f \in Seq(Items) : items' = items \o f /\ Pings(f) = 0
      BY <1>2
<1>4. Pings(items') <= Pings(items)
      BY <1>1, <1>3, PingsConcat, PlacesFinite
<1> QED
    BY <1>1, <1>3, <1>4, ConcatProperties

-----------------------------------------------------------------------------
(* What is read.                                                           *)
LEMMA BytesAreNumbers ==
  ASSUME NEW x \in Items, x.type = "byte"
  PROVE  x.n \in 0..MaxWritten
<1>1. CASE x \in [type : {"byte"}, n : 0..MaxWritten]
      BY <1>1
<1>2. CASE x = MaskKey
      BY <1>2 DEF MaskKey
<1>3. CASE x \in [type : {"header"}, opcode : {"data", "ping"}, masked : BOOLEAN, length : Nat]
      BY <1>3
<1> QED
    BY <1>1, <1>2, <1>3 DEF Items

LEMMA ReturnsKeeps ==
  ASSUME FRTypeOK, Phases, writing # "header", NEW b \in Seq(Items),
         \A i \in 1..Len(b) : b[i].type = "byte",
         Len(b) <= Space, Returns(b), UNCHANGED writerVars
  PROVE  /\ bytesRead' \in Seq(0..MaxWritten) /\ want' \in Nat
         /\ reading' \in {"header", "payload", "mux"}
         /\ Phases'
         /\ Len(bytesRead') = Len(bytesRead) + Len(b)
         /\ \A i \in 1..Len(bytesRead) : bytesRead'[i] = bytesRead[i]
         /\ \A i \in 1..Len(b) : bytesRead'[Len(bytesRead) + i] = b[i].n
<1> DEFINE ns == [i \in 1..Len(b) |-> b[i].n]
           g == Len(bytesRead)
           l == Len(b)
<1>1. /\ bytesRead \in Seq(0..MaxWritten) /\ want \in Nat /\ g \in Nat /\ l \in Nat
      /\ reading \in {"header", "payload", "mux"}
      BY LenProperties DEF FRTypeOK
<1>2. \A i \in 1..l : b[i].n \in 0..MaxWritten
  <2> SUFFICES ASSUME NEW i \in 1..l PROVE b[i].n \in 0..MaxWritten
      OBVIOUS
  <2>1. b[i] \in Items /\ b[i].type = "byte"
        BY <1>1, ElementOfSeq
  <2> QED
      BY <2>1, BytesAreNumbers
<1>3. ns \in Seq(0..MaxWritten) /\ Len(ns) = l /\ \A i \in 1..l : ns[i] = b[i].n
  <2> HIDE DEF l
  <2>1. ns \in [1..l -> 0..MaxWritten] /\ \A i \in 1..l : ns[i] = b[i].n
        BY <1>2 DEF l
  <2> HIDE DEF ns
  <2> QED
      BY <1>1, <2>1
<1>4. bytesRead' = bytesRead \o ns
      BY DEF Returns
<1> HIDE DEF ns, g, l
<1>5. /\ bytesRead' \in Seq(0..MaxWritten) /\ Len(bytesRead') = g + l
      /\ \A i \in 1..(g + l) : bytesRead'[i] = IF i <= g THEN bytesRead[i] ELSE ns[i - g]
  <2>1. ns \in Seq(0..MaxWritten) /\ bytesRead \in Seq(0..MaxWritten)
        BY <1>1, <1>3
  <2>2. /\ bytesRead \o ns \in Seq(0..MaxWritten) /\ Len(bytesRead \o ns) = Len(bytesRead) + Len(ns)
        /\ \A i \in 1..(Len(bytesRead) + Len(ns)) :
             (bytesRead \o ns)[i] =
               IF i <= Len(bytesRead) THEN bytesRead[i] ELSE ns[i - Len(bytesRead)]
        BY ONLY <2>1, ConcatProperties
  <2> QED
      BY <1>3, <1>4, <2>2 DEF g
<1>6. \A i \in 1..g : bytesRead'[i] = bytesRead[i]
      BY <1>1, <1>5
<1>7. ASSUME NEW i \in 1..l PROVE bytesRead'[g + i] = b[i].n
  <2>1. PICK k \in Nat : k = g + i
        BY <1>1
  <2>2. k \in 1..(g + l) /\ ~(k <= g) /\ k - g = i
        BY <1>1, <2>1
  <2>3. bytesRead'[k] = ns[i]
        BY <1>5, <2>2
  <2> QED
      BY <1>3, <2>1, <2>3
<1>8. want' \in Nat /\ reading' \in {"header", "payload", "mux"} /\ Phases'
  <2>1. /\ reading' = IF reading = "mux" \/ want - l > 0 THEN reading
                        ELSE IF reading = "header" THEN "payload" ELSE "mux"
        /\ want' = IF reading = "mux" THEN 0
                     ELSE IF want - l > 0 THEN want - l
                     ELSE IF reading = "header" THEN payload ELSE 0
        BY DEF Returns, l
  <2>2. reading # "mux" => l <= want
        BY DEF Space, l
  <2>3. /\ writing' = writing /\ written' = written /\ payload' = payload
        BY DEF writerVars
  <2>4. payload \in PayloadSizes /\ payload \in Nat /\ payload > 0
    <3>1. payload \in PayloadSizes
          BY Zenon DEF Phases
    <3> QED
        BY ONLY <3>1, FramingAssumption DEF FramingAssumption
  <2>9. /\ writing = "payload" => written = HeaderSize
        /\ reading = "header" => want > 0 /\ g + want = HeaderSize
        /\ reading = "payload" => want > 0 /\ g + want = HeaderSize + payload
        /\ reading = "mux" => want = 0 /\ g >= HeaderSize + payload
        BY DEF Phases, g
  <2>5. CASE reading = "mux"
        BY <1>1, <1>5, <2>1, <2>3, <2>4, <2>9, <2>5 DEF Phases
  <2>6. CASE reading # "mux" /\ want - l > 0
    <3>1. reading' = reading /\ want' = want - l
          BY <2>1, <2>6
    <3>2. want' \in Nat /\ want' > 0 /\ Len(bytesRead') + want' = g + want
          BY <1>1, <1>5, <2>6, <3>1
    <3> QED
        BY <1>1, <2>3, <2>4, <2>9, <2>6, <3>1, <3>2 DEF Phases
  <2>7. CASE reading = "header" /\ ~(want - l > 0)
    <3>1. reading' = "payload" /\ want' = payload
          BY <2>1, <2>7
    <3>2. Len(bytesRead') = HeaderSize
          BY <1>1, <1>5, <2>2, <2>4, <2>9, <2>7
    <3> QED
        BY <1>1, <2>3, <2>4, <2>9, <2>7, <3>1, <3>2 DEF Phases
  <2>8. CASE reading = "payload" /\ ~(want - l > 0)
    <3>1. reading' = "mux" /\ want' = 0
          BY <2>1, <2>8
    <3>2. Len(bytesRead') = HeaderSize + payload
          BY <1>1, <1>5, <2>2, <2>4, <2>9, <2>8
    <3> QED
        BY <1>1, <2>3, <2>4, <2>9, <2>8, <3>1, <3>2 DEF Phases
  <2> QED
      BY <1>1, <2>5, <2>6, <2>7, <2>8
<1> QED
    BY <1>5, <1>6, <1>7, <1>8 DEF g, l

(* A part of a sequence of items.                                          *)
LEMMA PartOf ==
  ASSUME NEW w \in Seq(Items), NEW a \in 1..(Len(w) + 1), NEW b \in Nat, b <= Len(w)
  PROVE  /\ SubSeq(w, a, b) \in Seq(Items)
         /\ Len(SubSeq(w, a, b)) = IF a <= b THEN b - a + 1 ELSE 0
         /\ \A i \in 1..(b - a + 1) : SubSeq(w, a, b)[i] = w[a + i - 1]
<1>1. \A i \in a..b : w[i] \in Items
  <2>1. Len(w) \in Nat
        BY LenProperties
  <2> QED
      BY <2>1, ElementOfSeq
<1>2. a \in Int /\ b \in Int
      OBVIOUS
<1> QED
    BY ONLY <1>1, <1>2, SubSeqProperties

(* The first n items of a sequence of bytes.                               *)
LEMMA FirstBytes ==
  ASSUME NEW w \in Seq(Items), \A i \in 1..Len(w) : w[i].type = "byte", NEW n \in 0..Len(w)
  PROVE  /\ SubSeq(w, 1, n) \in Seq(Items) /\ Len(SubSeq(w, 1, n)) = n
         /\ \A i \in 1..n : SubSeq(w, 1, n)[i] = w[i]
         /\ \A i \in 1..Len(SubSeq(w, 1, n)) : SubSeq(w, 1, n)[i].type = "byte"
<1>1. Len(w) \in Nat /\ 1 \in 1..(Len(w) + 1) /\ n \in Nat /\ n <= Len(w)
      BY LenProperties
<1>2. w \in Seq(Items)
      OBVIOUS
<1>3. /\ SubSeq(w, 1, n) \in Seq(Items)
      /\ Len(SubSeq(w, 1, n)) = IF 1 <= n THEN n - 1 + 1 ELSE 0
      /\ \A i \in 1..(n - 1 + 1) : SubSeq(w, 1, n)[i] = w[1 + i - 1]
      BY ONLY <1>1, <1>2, PartOf
<1>4. Len(SubSeq(w, 1, n)) = n /\ \A i \in 1..n : SubSeq(w, 1, n)[i] = w[i]
      BY <1>1, <1>3
<1> QED
    BY <1>1, <1>3, <1>4

LEMMA SmallerLess ==
  ASSUME NEW a \in Nat, NEW b \in Nat
  PROVE  Smaller(a, b) \in 0..b /\ Smaller(a, b) <= a
BY DEF Smaller

-----------------------------------------------------------------------------
(* Noise's wire.                                                           *)
LEMMA HeadersAnnounce ==
  ASSUME NEW x \in Items, x.type = "header"
  PROVE  x.opcode \in {"data", "ping"} /\ x.masked \in BOOLEAN /\ x.length \in Nat
<1>1. CASE x \in [type : {"byte"}, n : 0..MaxWritten]
      BY <1>1
<1>2. CASE x = MaskKey
      BY <1>2 DEF MaskKey
<1>3. CASE x \in [type : {"header"}, opcode : {"data", "ping"}, masked : BOOLEAN, length : Nat]
      BY <1>3
<1> QED
    BY <1>1, <1>2, <1>3 DEF Items

LEMMA AnnouncedGrows ==
  ASSUME NEW w \in Seq(Items), Announced(w), NEW f \in Seq(Items), NEW n \in Nat, NEW l \in 0..n,
         Len(f) = n + 1, f[1] = Header("data", FALSE, l),
         \A j \in 1..n : f[1 + j].type = "byte"
  PROVE  /\ Announced(w \o f)
         /\ w # <<>> => (w \o f)[1] = w[1]
         /\ w = <<>> => (w \o f)[1] = f[1]
<1> DEFINE v == w \o f
           m == Len(w)
<1>1. /\ m \in Nat /\ v \in Seq(Items) /\ Len(v) = m + (n + 1)
      /\ \A i \in 1..(m + (n + 1)) : v[i] = IF i <= m THEN w[i] ELSE f[i - m]
  <2>1. w \in Seq(Items) /\ f \in Seq(Items)
        OBVIOUS
  <2>2. /\ w \o f \in Seq(Items) /\ Len(w \o f) = Len(w) + Len(f)
        /\ \A i \in 1..(Len(w) + Len(f)) : (w \o f)[i] = IF i <= Len(w) THEN w[i] ELSE f[i - Len(w)]
        BY ONLY <2>1, ConcatProperties
  <2> QED
      BY <2>2, LenProperties
<1>2. f[1].type = "header" /\ f[1].opcode = "data" /\ ~f[1].masked /\ f[1].length = l
      BY DEF Header
<1>3. w # <<>> => m >= 1
      BY <1>1, EmptySeq
<1>4. w = <<>> => m = 0
      BY <1>1
<1> HIDE DEF v, m
<1>5. \A i \in 1..m : v[i] = w[i]
      BY <1>1
<1>6. \A i \in 1..(n + 1) : v[m + i] = f[i]
  <2> SUFFICES ASSUME NEW i \in 1..(n + 1) PROVE v[m + i] = f[i]
      OBVIOUS
  <2>1. PICK k \in Nat : k = m + i
        BY <1>1
  <2>2. k \in 1..(m + (n + 1)) /\ ~(k <= m) /\ k - m = i
        BY <1>1, <2>1
  <2> QED
      BY <1>1, <2>1, <2>2
<1>7. ASSUME NEW i \in 1..m, v[i].type = "header"
      PROVE  /\ v[i].opcode = "data" /\ ~v[i].masked /\ i + v[i].length <= Len(v)
             /\ \A j \in 1..v[i].length : v[i + j].type = "byte"
  <2>1. v[i] = w[i] /\ w[i] \in Items
        BY <1>1, <1>5, ElementOfSeq DEF m
  <2>2. /\ w[i].opcode = "data" /\ ~w[i].masked /\ i + w[i].length <= m
        /\ \A j \in 1..w[i].length : w[i + j].type = "byte"
        BY <1>7, <2>1 DEF Announced, m
  <2>3. PICK a \in Nat : a = w[i].length
        BY <1>7, <2>1, HeadersAnnounce
  <2>4. \A j \in 1..a : i + j \in 1..m
        BY <1>1, <2>2, <2>3
  <2>5. \A j \in 1..a : v[i + j].type = "byte"
        BY <1>5, <2>2, <2>3, <2>4
  <2>6. i + a <= Len(v)
        BY <1>1, <2>2, <2>3
  <2> QED
      BY <2>1, <2>2, <2>3, <2>5, <2>6
<1>8. v[m + 1] = f[1]
  <2>1. 1 \in 1..(n + 1)
        OBVIOUS
  <2> QED
      BY ONLY <1>6, <2>1
<1>9. \A j \in 1..n : v[(m + 1) + j].type = "byte"
  <2> SUFFICES ASSUME NEW j \in 1..n PROVE v[(m + 1) + j].type = "byte"
      OBVIOUS
  <2>1. 1 + j \in 1..(n + 1) /\ (m + 1) + j = m + (1 + j)
        BY <1>1
  <2>2. v[m + (1 + j)] = f[1 + j]
        BY <1>6, <2>1
  <2> QED
      BY <2>1, <2>2
<1>10. ASSUME NEW i \in 1..Len(v), v[i].type = "header"
       PROVE  /\ v[i].opcode = "data" /\ ~v[i].masked /\ i + v[i].length <= Len(v)
              /\ \A j \in 1..v[i].length : v[i + j].type = "byte"
  <2>1. i \in 1..m \/ i = m + 1 \/ \E j \in 1..n : i = (m + 1) + j
    <3>1. i \in 1..m \/ i = m + 1 \/ (i - (m + 1) \in 1..n /\ i = (m + 1) + (i - (m + 1)))
          BY <1>1
    <3> QED
        BY <3>1
  <2>2. CASE i \in 1..m
        BY <1>7, <1>10, <2>2
  <2>3. CASE i = m + 1
    <3>1. v[i] = f[1] /\ v[i].length = l
          BY <1>2, <1>8, <2>3
    <3>2. i + l <= Len(v)
          BY <1>1, <2>3
    <3>3. \A j \in 1..l : v[i + j].type = "byte"
          BY <1>9, <2>3
    <3> QED
        BY <1>2, <3>1, <3>2, <3>3
  <2>4. CASE \E j \in 1..n : i = (m + 1) + j
        BY <1>9, <1>10, <2>4
  <2> QED
      BY <2>1, <2>2, <2>3, <2>4
<1>11. Announced(v)
       BY <1>10 DEF Announced
<1>12. (w # <<>> => v[1] = w[1]) /\ (w = <<>> => v[1] = f[1])
  <2>1. w # <<>> => 1 \in 1..m
        BY <1>1, <1>3
  <2>2. w = <<>> => m + 1 = 1
        BY <1>4
  <2> QED
      BY ONLY <1>5, <1>8, <2>1, <2>2
<1> QED
    BY <1>11, <1>12 DEF v

LEMMA AnnouncedSuffix ==
  ASSUME NEW w \in Seq(Items), Announced(w), NEW k \in 1..(Len(w) + 1)
  PROVE  Announced(SubSeq(w, k, Len(w)))
<1> DEFINE v == SubSeq(w, k, Len(w))
           m == Len(w)
<1>1. /\ m \in Nat /\ v \in Seq(Items) /\ Len(v) = m - k + 1
      /\ \A i \in 1..(m - k + 1) : v[i] = w[k + i - 1]
      BY SuffixOf, LenProperties
<1> HIDE DEF v, m
<1>2. ASSUME NEW i \in 1..Len(v), v[i].type = "header"
      PROVE  /\ v[i].opcode = "data" /\ ~v[i].masked /\ i + v[i].length <= Len(v)
             /\ \A j \in 1..v[i].length : v[i + j].type = "byte"
  <2>1. PICK p \in 1..m : p = k + i - 1
        BY <1>1 DEF m
  <2>2. v[i] = w[p] /\ w[p] \in Items
        BY <1>1, <2>1, ElementOfSeq DEF m
  <2>3. /\ w[p].opcode = "data" /\ ~w[p].masked /\ p + w[p].length <= m
        /\ \A j \in 1..w[p].length : w[p + j].type = "byte"
        BY <1>2, <2>2 DEF Announced, m
  <2>4. PICK a \in Nat : a = w[p].length
        BY <1>2, <2>2, HeadersAnnounce
  <2>5. i + a <= Len(v)
        BY <1>1, <2>1, <2>3, <2>4 DEF m
  <2>6. ASSUME NEW j \in 1..a PROVE v[i + j].type = "byte"
    <3>1. i + j \in 1..(m - k + 1) /\ k + (i + j) - 1 = p + j
          BY <1>1, <2>1, <2>5
    <3>2. v[i + j] = w[p + j]
          BY <1>1, <3>1
    <3> QED
        BY <2>3, <2>4, <3>2
  <2> QED
      BY <2>2, <2>3, <2>4, <2>5, <2>6
<1> QED
    BY <1>2 DEF Announced, v

-----------------------------------------------------------------------------
(* The steps, beside what WSInvStep says of them.                          *)
LEMMA NoiseWriteKeeps ==
  ASSUME FRTypeOK, kind = "noise", NoiseShape, NEW n \in Nat, Write(n)
  PROVE  Announced(items') /\ (~garbled => items' # <<>> /\ items'[1].type = "header")
<1> DEFINE f == NoiseFrame(n)
<1>1. /\ items' = items \o f /\ items \in Seq(Items) /\ Announced(items)
      /\ ~garbled => items = <<>> \/ items[1].type = "header"
      BY DEF Write, FRTypeOK, NoiseShape
<1>2. PICK l \in 0..n : l = n % NoiseWidth
      OBVIOUS
<1>3. /\ f \in Seq(Items) /\ Len(f) = n + 1
      /\ \A j \in 1..n : f[1 + j] = Byte(written + j)
      BY NoiseFrameItems DEF Write
<1>4. f[1] = Header("data", FALSE, l)
      BY <1>2, NoiseFrameItems DEF Write
<1> HIDE DEF f
<1>5. \A j \in 1..n : f[1 + j].type = "byte"
  <2>1. \A x : Byte(x).type = "byte"
        BY DEF Byte
  <2> QED
      BY <1>3, <2>1
<1>6. /\ Announced(items \o f)
      /\ items # <<>> => (items \o f)[1] = items[1]
      /\ items = <<>> => (items \o f)[1] = f[1]
      BY <1>1, <1>3, <1>4, <1>5, AnnouncedGrows
<1>7. f[1].type = "header"
      BY <1>4 DEF Header
<1>8. items \o f # <<>>
  <2>1. items \in Seq(Items) /\ f \in Seq(Items)
        BY <1>1, <1>3
  <2>2. Len(items \o f) = Len(items) + Len(f) /\ Len(items) \in Nat
        BY ONLY <2>1, ConcatProperties, LenProperties
  <2>3. Len(items \o f) # 0
        BY <1>3, <2>2
  <2> QED
      BY <2>3
<1> QED
    BY <1>1, <1>6, <1>7, <1>8

LEMMA WriteKeepsFrame ==
  ASSUME FrameInv, NEW n \in Nat, Write(n), payload' \in PayloadSizes \cup {0},
         writing' \in {"payload", "mux"}, UNCHANGED <<kind, reader, pingsSent, readerVars>>
  PROVE  FRTypeOK' /\ PingInv' /\ NoiseShape'
<1>1. FRTypeOK /\ PingInv /\ NoiseShape
      BY DEF FrameInv
<1>2. /\ kind' = kind /\ reader' = reader /\ pingsSent' = pingsSent /\ reading' = reading
      /\ want' = want /\ readBuf' = readBuf /\ bytesRead' = bytesRead /\ garbled' = garbled
      /\ pongsSent' = pongsSent
      BY DEF readerVars
<1>3. written' \in 0..MaxWritten /\ items' \in Seq(Items) /\ Pings(items') <= Pings(items)
      BY <1>1, WriteAdds
<1>4. FRTypeOK'
      BY <1>1, <1>2, <1>3 DEF FRTypeOK
<1>5. PingInv'
  <2>1. Pings(items) \in Nat /\ Pings(items') \in Nat /\ pongsSent \in Nat /\ pingsSent \in Nat
        BY <1>1, <1>3, PlacesFinite DEF FRTypeOK
  <2>2. pongsSent + Pings(items') <= pingsSent
        BY <1>1, <1>3, <2>1 DEF PingInv
  <2> QED
      BY <1>2, <2>2 DEF PingInv
<1>6. NoiseShape'
  <2>1. CASE kind = "noise"
        BY <1>1, <1>2, <2>1, NoiseWriteKeeps DEF NoiseShape
  <2>2. CASE kind # "noise"
        BY <1>2, <2>2 DEF NoiseShape
  <2> QED
      BY <2>1, <2>2
<1> QED
    BY <1>4, <1>5, <1>6

LEMMA WriterKeepsFrame ==
  ASSUME FrameInv, Writer
  PROVE  FRTypeOK' /\ Phases' /\ PingInv' /\ NoiseShape'
<1>1. FRTypeOK /\ Phases
      BY DEF FrameInv
<1>2. ASSUME NEW n \in PayloadSizes, WriteHeader(n)
      PROVE  FRTypeOK' /\ Phases' /\ PingInv' /\ NoiseShape'
  <2>1. /\ Write(HeaderSize) /\ HeaderSize \in Nat /\ payload' = n /\ writing' = "payload"
        /\ writing = "header"
        /\ UNCHANGED <<kind, reader, pingsSent, readerVars>>
        BY <1>2 DEF WriteHeader
  <2>2. FRTypeOK' /\ PingInv' /\ NoiseShape'
        BY <2>1, WriteKeepsFrame
  <2>3. written' = HeaderSize
        BY <1>1, <2>1 DEF Write, Phases
  <2>4. Phases'
        BY <1>1, <2>1, <2>3 DEF Phases, readerVars
  <2> QED
      BY <2>2, <2>4
<1>3. ASSUME WritePayload PROVE FRTypeOK' /\ Phases' /\ PingInv' /\ NoiseShape'
  <2>1. /\ Write(payload) /\ payload' = payload /\ writing' = "mux"
        /\ writing = "payload"
        /\ UNCHANGED <<kind, reader, pingsSent, readerVars>>
        BY <1>3 DEF WritePayload
  <2>2. payload \in PayloadSizes /\ payload \in Nat
        BY <1>1, <2>1 DEF Phases
  <2>3. FRTypeOK' /\ PingInv' /\ NoiseShape'
        BY <2>1, <2>2, WriteKeepsFrame
  <2>4. Phases'
        BY <1>1, <2>1 DEF Phases, readerVars
  <2> QED
      BY <2>3, <2>4
<1>4. ASSUME NEW n \in MuxSizes, WriteMux(n)
      PROVE  FRTypeOK' /\ Phases' /\ PingInv' /\ NoiseShape'
  <2>1. /\ Write(n) /\ n \in Nat /\ payload' = payload /\ writing' = writing
        /\ writing = "mux"
        /\ UNCHANGED <<kind, reader, pingsSent, readerVars>>
        BY <1>4 DEF WriteMux
  <2>2. payload \in PayloadSizes
        BY <1>1, <2>1 DEF Phases
  <2>3. FRTypeOK' /\ PingInv' /\ NoiseShape'
        BY <2>1, <2>2, WriteKeepsFrame
  <2>4. Phases'
        BY <1>1, <2>1 DEF Phases, readerVars
  <2> QED
      BY <2>3, <2>4
<1> QED
    BY <1>2, <1>3, <1>4 DEF Writer

LEMMA OnlyPingsConcat ==
  ASSUME NEW w \in Seq(Items), OnlyPings(w), NEW f \in Seq(Items), f[1].opcode = "ping",
         Len(f) >= 1, \A i \in 2..Len(f) : f[i].type # "header"
  PROVE  OnlyPings(w \o f)
<1> DEFINE v == w \o f
           m == Len(w)
<1>1. w \in Seq(Items) /\ f \in Seq(Items)
      OBVIOUS
<1>2. /\ v \in Seq(Items) /\ Len(v) = m + Len(f)
      /\ \A i \in 1..(m + Len(f)) : v[i] = IF i <= m THEN w[i] ELSE f[i - m]
      BY ONLY <1>1, ConcatProperties
<1>3. m \in Nat /\ Len(f) \in Nat
      BY LenProperties
<1> HIDE DEF v, m
<1>4. ASSUME NEW i \in 1..Len(v), v[i].type = "header" PROVE v[i].opcode = "ping"
  <2>1. CASE i <= m
    <3>1. i \in 1..m /\ v[i] = w[i]
          BY <1>2, <1>3, <2>1
    <3> QED
        BY <1>4, <3>1 DEF OnlyPings, m
  <2>2. CASE ~(i <= m)
    <3>1. PICK k \in 1..Len(f) : k = i - m
          BY <1>2, <1>3, <2>2
    <3>2. v[i] = f[k]
          BY <1>2, <2>2, <3>1
    <3>3. k = 1 \/ k \in 2..Len(f)
          BY <1>3
    <3> QED
        BY <1>4, <3>2, <3>3
  <2> QED
      BY <2>1, <2>2
<1> QED
    BY <1>4 DEF OnlyPings, v

LEMMA PingKeepsFrame ==
  ASSUME FrameInv, NEW n \in 0..1, Ping(n)
  PROVE  FRTypeOK' /\ Phases' /\ PingInv' /\ NoiseShape'
<1> DEFINE t == [i \in 1..n |-> Byte(0)]
           f == AnyFrame("ping", Masked, n, t)
<1>1. FRTypeOK /\ Phases /\ PingInv
      BY DEF FrameInv
<1>2. /\ kind = "ws" /\ pingsSent < MaxPings /\ pingsSent' = pingsSent + 1
      /\ items' = items \o f
      /\ kind' = kind /\ reader' = reader /\ written' = written /\ writing' = writing
      /\ payload' = payload /\ reading' = reading /\ want' = want /\ readBuf' = readBuf
      /\ bytesRead' = bytesRead /\ garbled' = garbled /\ pongsSent' = pongsSent
      BY DEF Ping, AnyFrame, readerVars
<1>3. t \in Seq(Items) /\ \A j \in 1..Len(t) : t[j].type = "byte"
  <2>1. Byte(0) \in Items /\ Byte(0).type = "byte"
        BY DEF Byte, Items
  <2>2. t \in Seq(Items) /\ Len(t) = n
        BY <2>1
  <2> QED
      BY <2>1, <2>2
<1> HIDE DEF t
<1>4. Masked \in BOOLEAN /\ n \in Nat
      BY DEF Masked
<1>5. /\ f \in Seq(Items) /\ Len(f) >= 1 /\ f[1] = Header("ping", Masked, n)
      /\ \A i \in 2..Len(f) : f[i].type # "header"
      BY <1>3, <1>4, FrameItems
<1> HIDE DEF f
<1>6. f[1].type = "header" /\ f[1].opcode = "ping"
      BY <1>5 DEF Header
<1>7. Pings(f) = 1
      BY <1>5, <1>6, OneHeader
<1>8. items \in Seq(Items) /\ pingsSent \in Nat /\ pongsSent \in Nat /\ pongsSent <= pingsSent
      BY <1>1 DEF FRTypeOK
<1>9. items' \in Seq(Items) /\ Pings(items') <= Pings(items) + 1
      BY <1>2, <1>5, <1>7, <1>8, PingsConcat, ConcatProperties
<1>10. FRTypeOK'
  <2>1. pingsSent' \in 0..MaxPings /\ pongsSent' \in 0..pingsSent'
        BY <1>2, <1>8
  <2> QED
      BY <1>1, <1>2, <1>9, <2>1 DEF FRTypeOK
<1>11. Phases'
       BY <1>1, <1>2 DEF Phases
<1>12. PingInv'
  <2>1. Pings(items) \in Nat /\ Pings(items') \in Nat /\ pongsSent + Pings(items) <= pingsSent
        BY <1>1, <1>8, <1>9, PlacesFinite DEF PingInv
  <2>2. pongsSent + Pings(items') <= pingsSent + 1
        BY <1>8, <1>9, <2>1
  <2>3. writing = "header" => OnlyPings(items')
        BY <1>1, <1>2, <1>5, <1>6, <1>8, OnlyPingsConcat DEF PingInv
  <2> QED
      BY <1>2, <2>2, <2>3 DEF PingInv
<1>13. NoiseShape'
       BY <1>2 DEF NoiseShape
<1> QED
    BY <1>10, <1>11, <1>12, <1>13

(* What Next1 and Rest are, in a wire that has no masks.                   *)
LEMMA NoiseFront ==
  ASSUME FRTypeOK, kind = "noise", NoiseShape, ~garbled, FrameReady
  PROVE  /\ items[1].type = "header" /\ items[1].length \in Nat
         /\ 1 + items[1].length <= Len(items)
         /\ AfterFrame = SubSeq(items, 2 + items[1].length, Len(items))
         /\ FrameData \in Seq(Items) /\ Len(FrameData) = items[1].length
         /\ \A j \in 1..items[1].length :
              FrameData[j] = items[1 + j] /\ FrameData[j].type = "byte"
         /\ writing # "header"
<1> DEFINE w == items
           len == w[1].length
<1>1. /\ w \in Seq(Items) /\ w # <<>> /\ w[1].type = "header" /\ Announced(w)
      /\ writing # "header"
      BY DEF FRTypeOK, NoiseShape, FrameReady
<1>2. Len(w) \in Nat /\ 1 \in 1..Len(w) /\ Head(w) = w[1]
      BY <1>1, EmptySeq, LenProperties
<1>3. w[1] \in Items
      BY <1>1, <1>2, ElementOfSeq
<1>4. len \in Nat
      BY <1>1, <1>3, HeadersAnnounce
<1>5. /\ ~w[1].masked /\ 1 + len <= Len(w)
      /\ \A j \in 1..len : w[1 + j].type = "byte"
      BY <1>1, <1>2 DEF Announced
<1>6. Len(MaskOf(w[1].masked)) = 0
      BY <1>5 DEF MaskOf
<1>7. FrameData = SubSeq(w, 1 + 0 + 1, 1 + 0 + len) /\ AfterFrame = SubSeq(w, 2 + 0 + len, Len(w))
      BY <1>2, <1>6 DEF FrameData, AfterFrame
<1> HIDE DEF w, len
<1>8. FrameData = SubSeq(w, 2, 1 + len) /\ AfterFrame = SubSeq(w, 2 + len, Len(w))
  <2>1. 1 + 0 + 1 = 2 /\ 1 + 0 + len = 1 + len /\ 2 + 0 + len = 2 + len
        BY <1>4
  <2> QED
      BY <1>7, <2>1
<1>9. /\ SubSeq(w, 2, 1 + len) \in Seq(Items)
      /\ Len(SubSeq(w, 2, 1 + len)) = len
      /\ \A j \in 1..len : SubSeq(w, 2, 1 + len)[j] = w[1 + j]
  <2>1. w \in Seq(Items) /\ 2 \in 1..(Len(w) + 1) /\ 1 + len \in Nat /\ 1 + len <= Len(w)
        BY <1>1, <1>2, <1>4, <1>5
  <2>2. PICK b \in Nat : b = 1 + len
        BY <1>4
  <2>3. /\ SubSeq(w, 2, b) \in Seq(Items)
        /\ Len(SubSeq(w, 2, b)) = IF 2 <= b THEN b - 2 + 1 ELSE 0
        /\ \A i \in 1..(b - 2 + 1) : SubSeq(w, 2, b)[i] = w[2 + i - 1]
        BY <2>1, <2>2, PartOf
  <2>4. /\ b - 2 + 1 = len /\ (IF 2 <= b THEN b - 2 + 1 ELSE 0) = len
        /\ \A i \in 1..len : 2 + i - 1 = 1 + i
        BY <1>4, <2>2
  <2> QED
      BY <2>2, <2>3, <2>4
<1> QED
    BY <1>1, <1>4, <1>5, <1>8, <1>9 DEF w, len

LEMMA NoiseKeepsFrame ==
  ASSUME FrameInv, NoiseRead
  PROVE  FRTypeOK' /\ Phases' /\ PingInv' /\ NoiseShape'
<1> DEFINE n == Smaller(Space, Len(FrameData))
           b == SubSeq(FrameData, 1, n)
           k == 2 + items[1].length
<1>1. FRTypeOK /\ Phases /\ PingInv /\ NoiseShape
      BY DEF FrameInv
<1>2. /\ kind = "noise" /\ ~garbled /\ FrameReady /\ items' = AfterFrame /\ Returns(b)
      /\ garbled' = Garbles(AfterFrame)
      /\ kind' = kind /\ reader' = reader /\ written' = written /\ writing' = writing
      /\ payload' = payload /\ pingsSent' = pingsSent
      /\ readBuf' = readBuf /\ pongsSent' = pongsSent
      /\ UNCHANGED writerVars
      BY DEF NoiseRead, writerVars
<1>3. /\ items[1].length \in Nat /\ 1 + items[1].length <= Len(items) /\ writing # "header"
      /\ AfterFrame = SubSeq(items, k, Len(items))
      /\ FrameData \in Seq(Items)
      /\ \A j \in 1..Len(FrameData) : FrameData[j].type = "byte"
      BY <1>1, <1>2, NoiseFront
<1>4. Space \in Nat /\ Len(FrameData) \in Nat
      BY <1>1, <1>3, LenProperties DEF Space, FRTypeOK
<1>5. n \in 0..Len(FrameData) /\ n <= Space
      BY <1>4, SmallerLess
<1>6. items \in Seq(Items) /\ Len(items) \in Nat
      BY <1>1, LenProperties DEF FRTypeOK
<1>7. k \in 1..(Len(items) + 1)
      BY <1>3, <1>6
<1> HIDE DEF n, k
<1>8. b \in Seq(Items) /\ Len(b) <= Space /\ \A i \in 1..Len(b) : b[i].type = "byte"
      BY <1>3, <1>5, FirstBytes
<1> HIDE DEF b
<1>9. /\ bytesRead' \in Seq(0..MaxWritten) /\ want' \in Nat
      /\ reading' \in {"header", "payload", "mux"} /\ Phases'
      BY <1>1, <1>2, <1>3, <1>8, ReturnsKeeps
<1>10. items' \in Seq(Items) /\ Pings(items') <= Pings(items)
       BY <1>2, <1>3, <1>6, <1>7, SuffixOf, PingsSuffix
<1>11. FRTypeOK'
       BY <1>1, <1>2, <1>9, <1>10 DEF FRTypeOK, Garbles
<1>12. PingInv'
  <2>1. Pings(items) \in Nat /\ Pings(items') \in Nat /\ pongsSent \in Nat /\ pingsSent \in Nat
        BY <1>1, <1>6, <1>10, PlacesFinite DEF FRTypeOK
  <2>2. pongsSent + Pings(items') <= pingsSent
        BY <1>1, <1>10, <2>1 DEF PingInv
  <2> QED
      BY <1>2, <2>2 DEF PingInv
<1>13. NoiseShape'
  <2>1. Announced(items')
        BY <1>1, <1>2, <1>3, <1>6, <1>7, AnnouncedSuffix DEF NoiseShape
  <2>2. ~garbled' => items' = <<>> \/ items'[1].type = "header"
    <3>1. garbled' = (items' # <<>> /\ Head(items').type # "header")
          BY <1>2 DEF Garbles
    <3>2. Head(items') = items'[1]
          BY <1>10
    <3> QED
        BY ONLY <3>1, <3>2
  <2> QED
      BY <1>1, <1>2, <1>3, <2>1, <2>2 DEF NoiseShape
<1> QED
    BY <1>9, <1>11, <1>12, <1>13

LEMMA BufferKeepsFrame ==
  ASSUME FrameInv, WSReadBuffered
  PROVE  FRTypeOK' /\ Phases' /\ PingInv' /\ NoiseShape'
<1> DEFINE n == Smaller(Space, Len(readBuf))
           b == SubSeq(readBuf, 1, n)
<1>1. FRTypeOK /\ Phases /\ PingInv /\ WSInv
      BY DEF FrameInv
<1>2. /\ kind = "ws" /\ readBuf # <<>> /\ Returns(b)
      /\ readBuf' = SubSeq(readBuf, n + 1, Len(readBuf))
      /\ kind' = kind /\ reader' = reader /\ written' = written /\ writing' = writing
      /\ payload' = payload /\ pingsSent' = pingsSent /\ items' = items /\ pongsSent' = pongsSent
      /\ garbled' = garbled /\ UNCHANGED writerVars
      BY DEF WSReadBuffered, writerVars
<1>3. writing # "header"
      BY <1>1, <1>2 DEF Phases
<1>4. /\ readBuf \in Seq(Items) /\ Len(readBuf) \in Nat /\ Space \in Nat
      BY <1>1, LenProperties DEF Space, FRTypeOK
<1>5. \A j \in 1..Len(readBuf) : readBuf[j].type = "byte"
  <2>1. \A j \in 1..Len(readBuf) : readBuf[j] = Byte(Len(bytesRead) + j)
        BY <1>1, <1>2 DEF WSInv
  <2>2. \A x : Byte(x).type = "byte"
        BY DEF Byte
  <2> QED
      BY ONLY <2>1, <2>2
<1>6. n \in 0..Len(readBuf) /\ n <= Space
      BY <1>4, SmallerLess
<1> HIDE DEF n
<1>7. b \in Seq(Items) /\ Len(b) <= Space /\ \A i \in 1..Len(b) : b[i].type = "byte"
      BY <1>4, <1>5, <1>6, FirstBytes
<1> HIDE DEF b
<1>8. /\ bytesRead' \in Seq(0..MaxWritten) /\ want' \in Nat
      /\ reading' \in {"header", "payload", "mux"} /\ Phases'
      BY <1>1, <1>2, <1>3, <1>7, ReturnsKeeps
<1>9. readBuf' \in Seq(Items)
  <2>1. n + 1 \in 1..(Len(readBuf) + 1)
        BY <1>4, <1>6
  <2> QED
      BY <1>2, <1>4, <2>1, SuffixOf
<1>10. FRTypeOK'
       BY <1>1, <1>2, <1>8, <1>9 DEF FRTypeOK
<1>11. PingInv'
       BY <1>1, <1>2 DEF PingInv
<1>12. NoiseShape'
       BY <1>2 DEF NoiseShape
<1> QED
    BY <1>8, <1>10, <1>11, <1>12

LEMMA WSFrameKeepsFrame ==
  ASSUME FrameInv, WSReadFrame
  PROVE  FRTypeOK' /\ Phases' /\ PingInv' /\ NoiseShape'
<1> DEFINE n == Smaller(Space, Len(FrameData))
           b == SubSeq(FrameData, 1, n)
           k == Next1(items, 1)
<1>1. FRTypeOK /\ Phases /\ PingInv /\ WSInv
      BY DEF FrameInv
<1>2. /\ kind = "ws" /\ readBuf = <<>> /\ FrameReady /\ items' = AfterFrame /\ Returns(b)
      /\ readBuf' = SubSeq(FrameData, n + 1, Len(FrameData))
      /\ kind' = kind /\ reader' = reader /\ written' = written /\ writing' = writing
      /\ payload' = payload /\ pingsSent' = pingsSent /\ pongsSent' = pongsSent
      /\ garbled' = garbled /\ UNCHANGED writerVars
      BY DEF WSReadFrame, writerVars
<1>3. /\ k \in 2..(Len(items) + 1) /\ items[1].type = "header" /\ items[1].opcode = "data"
      /\ AfterFrame = SubSeq(items, k, Len(items))
      /\ FrameData \in Seq(Items)
      /\ \A j \in 1..Len(FrameData) : FrameData[j] = Byte(Len(bytesRead) + j)
      BY <1>1, <1>2, FrameFront DEF Rest
<1>4. items \in Seq(Items) /\ Len(items) \in Nat /\ 1 \in 1..Len(items)
      BY <1>1, <1>2, EmptySeq, LenProperties DEF FRTypeOK, FrameReady
<1>5. writing # "header"
      BY <1>1, <1>2, <1>3, <1>4 DEF PingInv, OnlyPings
<1>6. \A j \in 1..Len(FrameData) : FrameData[j].type = "byte"
  <2>1. \A x : Byte(x).type = "byte"
        BY DEF Byte
  <2> QED
      BY ONLY <1>3, <2>1
<1>7. Space \in Nat /\ Len(FrameData) \in Nat
      BY <1>1, <1>3, LenProperties DEF Space, FRTypeOK
<1>8. n \in 0..Len(FrameData) /\ n <= Space
      BY <1>7, SmallerLess
<1> HIDE DEF n, k
<1>9. b \in Seq(Items) /\ Len(b) <= Space /\ \A i \in 1..Len(b) : b[i].type = "byte"
      BY <1>3, <1>6, <1>8, FirstBytes
<1> HIDE DEF b
<1>10. /\ bytesRead' \in Seq(0..MaxWritten) /\ want' \in Nat
       /\ reading' \in {"header", "payload", "mux"} /\ Phases'
       BY <1>1, <1>2, <1>5, <1>9, ReturnsKeeps
<1>11. readBuf' \in Seq(Items)
  <2>1. n + 1 \in 1..(Len(FrameData) + 1)
        BY <1>7, <1>8
  <2> QED
      BY <1>2, <1>3, <2>1, SuffixOf
<1>12. items' \in Seq(Items) /\ Pings(items') <= Pings(items)
  <2>1. k \in 1..(Len(items) + 1)
        BY <1>3, <1>4
  <2> QED
      BY <1>2, <1>3, <1>4, <2>1, SuffixOf, PingsSuffix
<1>13. FRTypeOK'
       BY <1>1, <1>2, <1>10, <1>11, <1>12 DEF FRTypeOK
<1>14. PingInv'
  <2>1. Pings(items) \in Nat /\ Pings(items') \in Nat /\ pongsSent \in Nat /\ pingsSent \in Nat
        BY <1>1, <1>4, <1>12, PlacesFinite DEF FRTypeOK
  <2>2. pongsSent + Pings(items') <= pingsSent
        BY <1>1, <1>12, <2>1 DEF PingInv
  <2> QED
      BY <1>2, <1>5, <2>2 DEF PingInv
<1>15. NoiseShape'
       BY <1>2 DEF NoiseShape
<1> QED
    BY <1>10, <1>13, <1>14, <1>15

LEMMA PongKeepsFrame ==
  ASSUME FrameInv, WSReadPing
  PROVE  FRTypeOK' /\ Phases' /\ PingInv' /\ NoiseShape'
<1> DEFINE lo == Len(bytesRead) + Len(readBuf)
           k == Next1(items, 1)
<1>1. FRTypeOK /\ Phases /\ PingInv /\ WSInv
      BY DEF FrameInv
<1>2. /\ kind = "ws" /\ items # <<>> /\ Head(items).opcode = "ping" /\ items' = PingRest
      /\ garbled' = Garbles(PingRest) /\ pongsSent' = pongsSent + 1
      /\ kind' = kind /\ reader' = reader /\ written' = written /\ writing' = writing
      /\ payload' = payload /\ pingsSent' = pingsSent
      /\ reading' = reading /\ want' = want /\ readBuf' = readBuf /\ bytesRead' = bytesRead
      BY DEF WSReadPing, writerVars
<1>3. /\ lo \in Nat /\ items \in Seq(Items) /\ Len(items) \in Nat /\ written \in Nat
      /\ 1 \in 1..Len(items) /\ Framed(items, lo, written) /\ pongsSent \in Nat /\ pingsSent \in Nat
      BY <1>1, <1>2, EmptySeq, LenProperties DEF WSInv, WSTypes, FRTypeOK
<1>4. Head(items) = items[1] /\ items[1].opcode = "ping"
      BY <1>2, <1>3
<1> HIDE DEF lo
<1>5. FrameAt(items, 1, lo) /\ k \in 2..(Len(items) + 1)
      BY <1>2, <1>3, DropFramed
<1>6. /\ items[1].type = "header" /\ items[1].masked \in BOOLEAN /\ items[1].length \in Nat
      /\ ~items[1].masked
      BY <1>4, <1>5 DEF FrameAt
<1>7. 2 + items[1].length = k
      BY <1>2, <1>3, <1>6, FrameAccess
<1>8. items' = SubSeq(items, k, Len(items))
      BY <1>2, <1>4, <1>7 DEF PingRest
<1>9. 1 \in PingPlaces(items)
      BY <1>3, <1>4, <1>6 DEF PingPlaces
<1> HIDE DEF k
<1>10. k \in 1..(Len(items) + 1) /\ k > 1
       BY <1>3, <1>5
<1>11. items' \in Seq(Items) /\ Pings(items') + 1 <= Pings(items)
       BY <1>3, <1>8, <1>9, <1>10, SuffixOf, PingsSuffix
<1>12. (pongsSent + 1) + Pings(items') <= pingsSent /\ pongsSent' \in 0..pingsSent
  <2>1. Pings(items) \in Nat /\ Pings(items') \in Nat
        BY <1>3, <1>11, PlacesFinite
  <2> QED
      BY <1>1, <1>2, <1>3, <1>11, <2>1 DEF PingInv
<1>13. FRTypeOK'
       BY <1>1, <1>2, <1>11, <1>12 DEF FRTypeOK, Garbles
<1>14. Phases'
       BY <1>1, <1>2 DEF Phases
<1>15. PingInv'
  <2>1. ASSUME OnlyPings(items) PROVE OnlyPings(items')
    <3>1. /\ Len(items') = Len(items) - k + 1
          /\ \A i \in 1..(Len(items) - k + 1) : items'[i] = items[k + i - 1]
          BY <1>3, <1>8, <1>10, SuffixOf
    <3>2. \A i \in 1..(Len(items) - k + 1) : k + i - 1 \in 1..Len(items)
          BY <1>3, <1>10
    <3> QED
        BY <2>1, <3>1, <3>2 DEF OnlyPings
  <2> QED
      BY <1>1, <1>2, <1>12, <2>1 DEF PingInv
<1>16. NoiseShape'
       BY <1>2 DEF NoiseShape
<1> QED
    BY <1>13, <1>14, <1>15, <1>16

LEMMA FrameInit == FRInit => FrameInv
<1> SUFFICES ASSUME FRInit PROVE FrameInv
    OBVIOUS
<1>1. /\ kind \in Kinds /\ reader \in Readers /\ written = 0 /\ items = <<>>
      /\ writing = "header" /\ reading = "header" /\ payload = 0 /\ want = HeaderSize
      /\ readBuf = <<>> /\ bytesRead = <<>> /\ garbled = FALSE /\ pingsSent = 0 /\ pongsSent = 0
      BY DEF FRInit
<1>2. \A S : <<>> \in Seq(S) /\ Len(<<>>) = 0
      OBVIOUS
<1>3. FRTypeOK
  <2>1. items \in Seq(Items) /\ readBuf \in Seq(Items) /\ bytesRead \in Seq(0..MaxWritten)
        BY <1>1, <1>2
  <2>2. written \in 0..MaxWritten
        BY <1>1, FramingAssumption DEF FramingAssumption
  <2>3. payload \in PayloadSizes \cup {0}
        BY <1>1
  <2>4. want \in Nat
        BY <1>1, FramingAssumption DEF FramingAssumption
  <2>5. pingsSent \in 0..MaxPings /\ pongsSent \in 0..pingsSent
        BY <1>1, FramingAssumption DEF FramingAssumption
  <2>6. garbled \in BOOLEAN
        BY ONLY <1>1
  <2> QED
      BY <1>1, <2>1, <2>2, <2>3, <2>4, <2>5, <2>6, Zenon DEF FRTypeOK
<1>4. Phases
      BY <1>1, <1>2 DEF Phases
<1>5. PingInv
  <2>1. items \in Seq(Items) /\ Len(items) = 0
        BY <1>1, <1>2
  <2>2. \A i \in 1..Len(items) : FALSE
        BY <2>1
  <2>3. OnlyPings(items)
        BY <2>2 DEF OnlyPings
  <2>4. Pings(items) = 0
        BY <2>1, <2>2, PingsNone
  <2> QED
      BY <1>1, <2>3, <2>4 DEF PingInv
<1>6. NoiseShape
      BY <1>1, <1>2 DEF NoiseShape, Announced
<1> QED
    BY <1>3, <1>4, <1>5, <1>6, WSInvInit DEF FrameInv

LEMMA FrameStep ==
  ASSUME "server" \notin Pinged, FrameInv, [FRNext]_frVars
  PROVE  FrameInv'
<1>1. FRTypeOK /\ WSInv /\ Phases /\ PingInv /\ NoiseShape
      BY DEF FrameInv
<1>2. WSInv'
  <2>1. payload \in Nat
        BY <1>1 DEF FRTypeOK
  <2> QED
      BY <1>1, <2>1, WSInvStep
<1>3. CASE UNCHANGED frVars
  <2>1. /\ kind' = kind /\ reader' = reader /\ written' = written /\ items' = items
        /\ writing' = writing /\ reading' = reading /\ payload' = payload /\ want' = want
        /\ readBuf' = readBuf /\ bytesRead' = bytesRead /\ garbled' = garbled
        /\ pingsSent' = pingsSent /\ pongsSent' = pongsSent
        BY <1>3 DEF frVars
  <2>2. FRTypeOK' /\ Phases'
        BY <1>1, <2>1 DEF FRTypeOK, Phases
  <2>3. PingInv' /\ NoiseShape'
        BY <1>1, <2>1 DEF PingInv, NoiseShape
  <2> QED
      BY <1>2, <2>2, <2>3 DEF FrameInv
<1> QED
    BY <1>2, <1>3, WriterKeepsFrame, PingKeepsFrame, NoiseKeepsFrame, BufferKeepsFrame,
       WSFrameKeepsFrame, PongKeepsFrame
    DEF FRNext, Reader, FrameInv

-----------------------------------------------------------------------------
(* The control message over noise goes as two whole frames, if their       *)
(* lengths fit into noise's two bytes.  From the place i on, a frame of n  *)
(* bytes, those after the b-th:                                            *)
WholeAt(w, i, n, b) ==
  /\ Len(w) >= i + n
  /\ w[i] = Header("data", FALSE, n)
  /\ \A j \in 1..n : w[i + j] = Byte(b + j)

PayloadAt(i) ==
  /\ writing = "payload" => Len(items) = i - 1
  /\ writing = "mux" => WholeAt(items, i, payload, HeaderSize)

NoiseControl ==
  kind = "noise" =>
    /\ reading = "header" => bytesRead = <<>> /\ ~garbled
    /\ reading = "header" /\ writing # "header" =>
         WholeAt(items, 1, HeaderSize, 0) /\ PayloadAt(HeaderSize + 2)
    /\ reading = "payload" =>
         /\ ~garbled
         /\ Len(bytesRead) = HeaderSize /\ \A i \in 1..HeaderSize : bytesRead[i] = i
         /\ PayloadAt(1)
    /\ reading = "mux" => writing = "mux" /\ \A i \in 1..(HeaderSize + payload) : bytesRead[i] = i

FitsNoise == HeaderSize < NoiseWidth /\ \A n \in PayloadSizes : n < NoiseWidth

(* Whatever is written behind it, a frame on the wire stays whole.         *)
LEMMA WholeStays ==
  ASSUME NEW w \in Seq(Items), NEW f \in Seq(Items), NEW i \in Nat \ {0}, NEW n \in Nat,
         NEW b \in Nat,
         WholeAt(w, i, n, b)
  PROVE  WholeAt(w \o f, i, n, b)
<1> DEFINE v == w \o f
<1>1. w \in Seq(Items) /\ f \in Seq(Items)
      OBVIOUS
<1>2. /\ Len(v) = Len(w) + Len(f) /\ Len(w) \in Nat /\ Len(f) \in Nat
      /\ \A p \in 1..(Len(w) + Len(f)) : v[p] = IF p <= Len(w) THEN w[p] ELSE f[p - Len(w)]
      BY ONLY <1>1, ConcatProperties, LenProperties
<1> HIDE DEF v
<1>3. \A p \in 1..Len(w) : v[p] = w[p]
      BY <1>2
<1>4. Len(w) >= i + n
      BY DEF WholeAt
<1>5. \A j \in 0..n : i + j \in 1..Len(w)
      BY <1>2, <1>4
<1>6. v[i] = w[i]
      BY <1>2, <1>3, <1>4
<1>7. \A j \in 1..n : v[i + j] = w[i + j]
      BY <1>3, <1>5
<1>8. Len(v) >= i + n
      BY <1>2, <1>4
<1> QED
    BY <1>6, <1>7, <1>8 DEF WholeAt, v

(* What a Write adds, if its length fits, is whole.                        *)
LEMMA WriteIsWhole ==
  ASSUME FRTypeOK, kind = "noise", NEW n \in Nat, n < NoiseWidth, Write(n)
  PROVE  /\ WholeAt(items', Len(items) + 1, n, written)
         /\ Len(items') = Len(items) + 1 + n
         /\ \A i \in Nat \ {0}, m, b \in Nat :
              WholeAt(items, i, m, b) => WholeAt(items', i, m, b)
<1> DEFINE f == NoiseFrame(n)
           m == Len(items)
<1>1. items \in Seq(Items) /\ items' = items \o f /\ written + n <= MaxWritten
      BY DEF FRTypeOK, Write
<1>2. n % NoiseWidth = n
      OBVIOUS
<1>3. /\ f \in Seq(Items) /\ Len(f) = n + 1 /\ f[1] = Header("data", FALSE, n)
      /\ \A j \in 1..n : f[1 + j] = Byte(written + j)
      BY <1>1, <1>2, NoiseFrameItems
<1> HIDE DEF f
<1>4. f \in Seq(Items) /\ items \in Seq(Items)
      BY <1>1, <1>3
<1>5. /\ Len(items \o f) = Len(items) + Len(f) /\ Len(items) \in Nat
      /\ \A p \in 1..(Len(items) + Len(f)) :
           (items \o f)[p] = IF p <= Len(items) THEN items[p] ELSE f[p - Len(items)]
      BY ONLY <1>4, ConcatProperties, LenProperties
<1>6. /\ Len(items') = m + (n + 1) /\ m \in Nat
      /\ \A p \in 1..(m + (n + 1)) : items'[p] = IF p <= m THEN items[p] ELSE f[p - m]
      BY <1>1, <1>3, <1>5
<1> HIDE DEF m
<1>7. \A j \in 0..n : items'[(m + 1) + j] = f[1 + j]
  <2> SUFFICES ASSUME NEW j \in 0..n PROVE items'[(m + 1) + j] = f[1 + j]
      OBVIOUS
  <2>1. PICK p \in Nat : p = (m + 1) + j
        BY <1>6
  <2>2. p \in 1..(m + (n + 1)) /\ ~(p <= m) /\ p - m = 1 + j
        BY <1>6, <2>1
  <2> QED
      BY <1>6, <2>1, <2>2
<1>8. items'[m + 1] = f[1]
  <2>1. 0 \in 0..n /\ (m + 1) + 0 = m + 1 /\ 1 + 0 = 1
        BY <1>6
  <2>2. items'[(m + 1) + 0] = f[1 + 0]
        BY ONLY <1>7, <2>1
  <2> QED
      BY <2>1, <2>2
<1>9. WholeAt(items', m + 1, n, written)
  <2>1. \A j \in 1..n : items'[(m + 1) + j] = Byte(written + j)
    <3>1. \A j \in 1..n : j \in 0..n
          OBVIOUS
    <3> QED
        BY ONLY <1>3, <1>7, <3>1
  <2>2. Len(items') >= (m + 1) + n
        BY <1>6
  <2> QED
      BY <1>3, <1>8, <2>1, <2>2 DEF WholeAt
<1>10. ASSUME NEW i \in Nat \ {0}, NEW l \in Nat, NEW b \in Nat, WholeAt(items, i, l, b)
       PROVE  WholeAt(items', i, l, b)
       BY <1>1, <1>4, <1>10, WholeStays
<1> QED
    BY <1>6, <1>9, <1>10 DEF m

LEMMA ControlWrites ==
  ASSUME FitsNoise, FrameInv, NoiseControl, kind = "noise", Writer
  PROVE  NoiseControl'
<1>1. FRTypeOK /\ Phases /\ NoiseShape
      BY DEF FrameInv
<1>2. items \in Seq(Items) /\ Len(items) \in Nat /\ payload \in Nat
      BY <1>1, LenProperties DEF FRTypeOK
<1>3. ASSUME NEW n \in PayloadSizes, WriteHeader(n) PROVE NoiseControl'
  <2>1. /\ writing = "header" /\ Write(HeaderSize) /\ writing' = "payload"
        /\ reading' = reading /\ bytesRead' = bytesRead /\ garbled' = garbled
        BY <1>3 DEF WriteHeader, readerVars
  <2>2. reading = "header" /\ items = <<>> /\ written = 0 /\ Len(items) = 0
        BY <1>1, <2>1 DEF Phases, NoiseShape
  <2>3. WholeAt(items', Len(items) + 1, HeaderSize, written)
        /\ Len(items') = Len(items) + 1 + HeaderSize
        BY <1>1, <2>1, WriteIsWhole DEF FitsNoise
  <2>4. Len(items) + 1 = 1 /\ Len(items) + 1 + HeaderSize = HeaderSize + 2 - 1
        BY <2>2
  <2>5. WholeAt(items', 1, HeaderSize, 0) /\ Len(items') = HeaderSize + 2 - 1
        BY <2>2, <2>3, <2>4
  <2> QED
      BY <2>1, <2>2, <2>5 DEF NoiseControl, PayloadAt
<1>4. ASSUME WritePayload PROVE NoiseControl'
  <2>1. /\ writing = "payload" /\ Write(payload) /\ writing' = "mux" /\ payload' = payload
        /\ reading' = reading /\ bytesRead' = bytesRead /\ garbled' = garbled
        BY <1>4 DEF WritePayload, readerVars
  <2>2. written = HeaderSize /\ payload \in PayloadSizes /\ payload < NoiseWidth
        BY <1>1, <2>1 DEF Phases, FitsNoise
  <2>3. /\ WholeAt(items', Len(items) + 1, payload, HeaderSize)
        /\ \A i \in Nat \ {0}, m, b \in Nat : WholeAt(items, i, m, b) => WholeAt(items', i, m, b)
        BY <1>1, <1>2, <2>1, <2>2, WriteIsWhole
  <2>4. reading = "header" \/ reading = "payload"
        BY <1>1, <2>1 DEF NoiseControl, FRTypeOK
  <2>5. CASE reading = "header"
    <3>1. WholeAt(items, 1, HeaderSize, 0) /\ Len(items) = HeaderSize + 2 - 1
          BY <2>1, <2>5 DEF NoiseControl, PayloadAt
    <3>2. Len(items) + 1 = HeaderSize + 2 /\ 1 \in Nat \ {0} /\ HeaderSize \in Nat /\ 0 \in Nat
          BY <3>1
    <3>3. WholeAt(items', 1, HeaderSize, 0)
          BY <2>3, <3>1, <3>2
    <3>4. WholeAt(items', HeaderSize + 2, payload, HeaderSize)
          BY <2>3, <3>2
    <3> QED
        BY <2>1, <2>5, <3>3, <3>4 DEF NoiseControl, PayloadAt
  <2>6. CASE reading = "payload"
    <3>1. Len(items) = 1 - 1
          BY <2>1, <2>6 DEF NoiseControl, PayloadAt
    <3>2. Len(items) + 1 = 1
          BY <3>1
    <3>3. WholeAt(items', 1, payload, HeaderSize)
          BY <2>3, <3>2
    <3> QED
        BY <2>1, <2>6, <3>3 DEF NoiseControl, PayloadAt
  <2> QED
      BY <2>4, <2>5, <2>6
<1>5. ASSUME NEW n \in MuxSizes, WriteMux(n) PROVE NoiseControl'
  <2>1. /\ writing = "mux" /\ Write(n) /\ n \in Nat /\ writing' = "mux" /\ payload' = payload
        /\ reading' = reading /\ bytesRead' = bytesRead /\ garbled' = garbled
        BY <1>5 DEF WriteMux, readerVars
  <2>2. NoiseFrame(n) \in Seq(Items) /\ items' = items \o NoiseFrame(n)
        BY <1>1, <2>1, NoiseFrameItems DEF Write
  <2>3. \A i \in Nat \ {0}, m, b \in Nat : WholeAt(items, i, m, b) => WholeAt(items', i, m, b)
        BY <1>2, <2>2, WholeStays
  <2>4. /\ 1 \in Nat \ {0} /\ HeaderSize + 2 \in Nat \ {0} /\ HeaderSize \in Nat /\ 0 \in Nat
        OBVIOUS
  <2>5. /\ WholeAt(items, 1, HeaderSize, 0) => WholeAt(items', 1, HeaderSize, 0)
        /\ WholeAt(items, HeaderSize + 2, payload, HeaderSize) =>
             WholeAt(items', HeaderSize + 2, payload, HeaderSize)
        /\ WholeAt(items, 1, payload, HeaderSize) => WholeAt(items', 1, payload, HeaderSize)
        BY ONLY <1>2, <2>3, <2>4
  <2> QED
      BY <2>1, <2>5 DEF NoiseControl, PayloadAt
<1> QED
    BY <1>3, <1>4, <1>5 DEF Writer

(* A whole frame behind the place k is whole behind the cut as well.       *)
LEMMA WholeMoves ==
  ASSUME NEW w \in Seq(Items), NEW k \in 1..(Len(w) + 1), NEW n \in Nat, NEW b \in Nat,
         WholeAt(w, k, n, b)
  PROVE  WholeAt(SubSeq(w, k, Len(w)), 1, n, b)
<1> DEFINE v == SubSeq(w, k, Len(w))
<1>1. /\ Len(w) \in Nat /\ Len(v) = Len(w) - k + 1
      /\ \A i \in 1..(Len(w) - k + 1) : v[i] = w[k + i - 1]
      BY SuffixOf, LenProperties
<1> HIDE DEF v
<1>2. Len(w) >= k + n /\ w[k] = Header("data", FALSE, n) /\ \A j \in 1..n : w[k + j] = Byte(b + j)
      BY DEF WholeAt
<1>3. Len(v) >= 1 + n
      BY <1>1, <1>2
<1>4. v[1] = w[k]
  <2>1. 1 \in 1..(Len(w) - k + 1) /\ k + 1 - 1 = k
        BY <1>1, <1>2
  <2> QED
      BY <1>1, <2>1
<1>5. \A j \in 1..n : v[1 + j] = w[k + j]
  <2> SUFFICES ASSUME NEW j \in 1..n PROVE v[1 + j] = w[k + j]
      OBVIOUS
  <2>1. 1 + j \in 1..(Len(w) - k + 1) /\ k + (1 + j) - 1 = k + j
        BY <1>1, <1>2
  <2> QED
      BY <1>1, <2>1
<1>6. \A j \in 1..n : v[1 + j] = Byte(b + j)
      BY ONLY <1>2, <1>5
<1> QED
    BY <1>2, <1>3, <1>4, <1>6 DEF WholeAt, v

LEMMA ControlReads ==
  ASSUME FrameInv, NoiseControl, NoiseRead
  PROVE  NoiseControl'
<1> DEFINE n == Smaller(Space, Len(FrameData))
           b == SubSeq(FrameData, 1, n)
           len == items[1].length
           k == 2 + len
           g == Len(bytesRead)
<1>1. FRTypeOK /\ Phases /\ NoiseShape
      BY DEF FrameInv
<1>2. /\ kind = "noise" /\ ~garbled /\ FrameReady /\ items' = AfterFrame /\ Returns(b)
      /\ garbled' = Garbles(AfterFrame)
      /\ kind' = kind /\ writing' = writing /\ payload' = payload
      /\ UNCHANGED writerVars
      BY DEF NoiseRead, writerVars
<1>3. /\ len \in Nat /\ 1 + len <= Len(items) /\ writing # "header"
      /\ AfterFrame = SubSeq(items, k, Len(items))
      /\ FrameData \in Seq(Items) /\ Len(FrameData) = len
      /\ \A j \in 1..len : FrameData[j] = items[1 + j]
      /\ \A j \in 1..Len(FrameData) : FrameData[j].type = "byte"
      BY <1>1, <1>2, NoiseFront
<1>4. /\ Space \in Nat /\ Len(FrameData) \in Nat /\ items \in Seq(Items) /\ Len(items) \in Nat
      /\ bytesRead \in Seq(0..MaxWritten) /\ g \in Nat
      BY <1>1, <1>3, LenProperties DEF Space, FRTypeOK
<1>5. n \in 0..Len(FrameData) /\ n <= Space
      BY <1>4, SmallerLess
<1>6. Space = len => n = len
      BY <1>3, <1>5 DEF Smaller
<1>7. k \in 1..(Len(items) + 1)
      BY <1>3, <1>4
<1>8. /\ items' = SubSeq(items, k, Len(items))
      /\ Len(items') = Len(items) - k + 1 /\ items' \in Seq(Items)
      BY <1>2, <1>3, <1>4, <1>7, SuffixOf
<1> HIDE DEF n
<1>9. /\ b \in Seq(Items) /\ Len(b) = n /\ Len(b) <= Space
      /\ \A i \in 1..Len(b) : b[i].type = "byte"
      /\ \A i \in 1..n : b[i] = FrameData[i]
      BY <1>3, <1>5, FirstBytes
<1> HIDE DEF b
<1>10. /\ Len(bytesRead') = g + n
       /\ \A i \in 1..g : bytesRead'[i] = bytesRead[i]
       /\ \A i \in 1..n : bytesRead'[g + i] = b[i].n
       /\ Phases' /\ reading' \in {"header", "payload", "mux"}
       BY <1>1, <1>2, <1>3, <1>9, ReturnsKeeps
<1>11. /\ reading' = IF reading = "mux" \/ want - n > 0 THEN reading
                       ELSE IF reading = "header" THEN "payload" ELSE "mux"
       /\ garbled' = (items' # <<>> /\ Head(items').type # "header")
       BY <1>2, <1>9 DEF Returns, Garbles
<1> HIDE DEF k, g, len
(* The frame is read whole, and holds the bytes after the g-th.            *)
<1>12. ASSUME NEW m \in Nat, WholeAt(items, 1, m, g), Space = m
       PROVE  n = m /\ len = m /\ k = 2 + m /\ \A i \in 1..m : bytesRead'[g + i] = g + i
  <2>1. items[1] = Header("data", FALSE, m) /\ \A j \in 1..m : items[1 + j] = Byte(g + j)
        BY <1>12 DEF WholeAt
  <2>2. len = m
        BY <2>1 DEF Header, len
  <2>3. n = m
        BY <1>6, <1>12, <2>2
  <2>4. \A i \in 1..m : b[i] = Byte(g + i)
        BY <1>3, <1>9, <2>1, <2>2, <2>3
  <2>5. \A x : Byte(x).n = x
        BY DEF Byte
  <2>6. \A i \in 1..m : bytesRead'[g + i] = g + i
        BY <1>10, <2>3, <2>4, <2>5
  <2> QED
      BY <2>2, <2>3, <2>6 DEF k
<1>13. CASE reading = "header"
  <2>1. /\ bytesRead = <<>> /\ WholeAt(items, 1, HeaderSize, 0) /\ PayloadAt(HeaderSize + 2)
    <3>1. kind = "noise"
          BY <1>2
    <3>2. writing # "header"
          BY <1>3
    <3> QED
        BY ONLY NoiseControl, <1>13, <3>1, <3>2, Zenon DEF NoiseControl
  <2>2. g = 0 /\ want = HeaderSize /\ Space = HeaderSize
    <3>1. Len(bytesRead) + want = HeaderSize /\ want \in Nat
          BY <1>1, <1>13 DEF Phases, FRTypeOK
    <3>2. Len(bytesRead) = 0
      <4>1. \A S : <<>> \in Seq(S) /\ Len(<<>>) = 0
            OBVIOUS
      <4> QED
          BY ONLY <2>1, <4>1
    <3>3. want = HeaderSize
          BY ONLY <3>1, <3>2
    <3> QED
        BY ONLY <1>13, <3>2, <3>3 DEF g, Space
  <2>3. /\ n = HeaderSize /\ k = 2 + HeaderSize
        /\ \A i \in 1..HeaderSize : bytesRead'[g + i] = g + i
        BY <1>12, <2>1, <2>2
  <2>4. Len(bytesRead') = HeaderSize /\ \A i \in 1..HeaderSize : bytesRead'[i] = i
        BY <1>10, <2>2, <2>3
  <2>5. reading' = "payload"
        BY <1>11, <1>13, <2>2, <2>3
  <2>6. writing = "payload" => Len(items') = 0
        BY <1>4, <1>8, <2>1, <2>3 DEF PayloadAt
  <2>7. writing = "mux" => WholeAt(items', 1, payload, HeaderSize)
    <3>1. writing = "mux" => WholeAt(items, k, payload, HeaderSize)
      <4>1. HeaderSize + 2 = k
            BY <2>3
      <4> QED
          BY <2>1, <4>1 DEF PayloadAt
    <3>2. payload \in Nat
          BY <1>1 DEF FRTypeOK
    <3> QED
        BY <1>4, <1>7, <1>8, <3>1, <3>2, WholeMoves
  <2>8. ~garbled'
    <3>1. CASE writing = "payload"
      <4>1. items' = <<>>
            BY <1>8, <2>6, <3>1
      <4> QED
          BY <1>11, <4>1
    <3>2. CASE writing = "mux"
      <4>1. items'[1] = Header("data", FALSE, payload)
            BY <2>7, <3>2 DEF WholeAt
      <4>2. \A x : Header("data", FALSE, x).type = "header"
            BY DEF Header
      <4>3. items'[1].type = "header"
            BY ONLY <4>1, <4>2
      <4>4. Len(items') >= 1
        <5>1. Len(items') >= 1 + payload /\ payload \in Nat
              BY <1>1, <2>7, <3>2 DEF WholeAt, FRTypeOK
        <5> QED
            BY <5>1
      <4>5. \A w \in Seq(Items) : Len(w) >= 1 => Head(w) = w[1] /\ w # <<>>
            OBVIOUS
      <4>6. Head(items') = items'[1] /\ items' # <<>>
            BY ONLY <1>8, <4>4, <4>5
      <4> QED
          BY ONLY <1>11, <4>3, <4>6
    <3> QED
        BY <1>1, <1>3, <3>1, <3>2 DEF FRTypeOK
  <2>9. PayloadAt(1)'
        BY <1>2, <2>6, <2>7 DEF PayloadAt
  <2> QED
      BY <1>2, <2>4, <2>5, <2>8, <2>9 DEF NoiseControl
<1>14. CASE reading = "payload"
  <2>1. /\ g = HeaderSize /\ PayloadAt(1) /\ \A i \in 1..HeaderSize : bytesRead[i] = i
        BY <1>2, <1>14 DEF NoiseControl, g
  <2>2. want = payload /\ Space = payload /\ payload \in Nat
        BY <1>1, <1>14, <2>1 DEF Phases, FRTypeOK, g, Space
  <2>3. writing = "mux"
    <3>1. Len(items) # 0
          BY <1>3, <1>4
    <3> QED
        BY <1>1, <1>3, <2>1, <3>1 DEF FRTypeOK, PayloadAt
  <2>4. n = payload /\ \A i \in 1..payload : bytesRead'[g + i] = g + i
        BY <1>12, <2>1, <2>2, <2>3 DEF PayloadAt
  <2>5. reading' = "mux"
        BY <1>11, <1>14, <2>2, <2>4
  <2>6. ASSUME NEW i \in 1..(HeaderSize + payload) PROVE bytesRead'[i] = i
    <3>1. CASE i \in 1..HeaderSize
          BY <1>10, <2>1, <3>1
    <3>2. CASE i \notin 1..HeaderSize
      <4>1. PICK j \in 1..payload : i = HeaderSize + j
        <5>1. i - HeaderSize \in 1..payload /\ i = HeaderSize + (i - HeaderSize)
              BY <2>2, <3>2
        <5> QED
            BY <5>1
      <4> QED
          BY <2>1, <2>4, <4>1
    <3> QED
        BY <3>1, <3>2
  <2> QED
      BY <1>2, <2>3, <2>5, <2>6 DEF NoiseControl
<1>15. CASE reading = "mux"
  <2>1. reading' = "mux" /\ writing = "mux" /\ \A i \in 1..(HeaderSize + payload) : bytesRead[i] = i
        BY <1>2, <1>11, <1>15 DEF NoiseControl
  <2>2. \A i \in 1..(HeaderSize + payload) : i \in 1..g
    <3>1. g >= HeaderSize + payload
          BY <1>1, <1>15 DEF Phases, g
    <3>2. payload \in Nat
          BY <1>1 DEF FRTypeOK
    <3> QED
        BY <1>4, <3>1, <3>2
  <2>3. \A i \in 1..(HeaderSize + payload) : bytesRead'[i] = i
        BY <1>10, <2>1, <2>2
  <2> QED
      BY <1>2, <2>1, <2>3 DEF NoiseControl
<1> QED
    BY <1>1, <1>13, <1>14, <1>15 DEF FRTypeOK

LEMMA ControlInit == FRInit => NoiseControl
<1> SUFFICES ASSUME FRInit PROVE NoiseControl
    OBVIOUS
<1>1. bytesRead = <<>> /\ garbled = FALSE /\ reading = "header" /\ writing = "header"
      BY DEF FRInit
<1> QED
    BY <1>1, Zenon DEF NoiseControl

LEMMA ControlStep ==
  ASSUME FitsNoise, FrameInv, NoiseControl, [FRNext]_frVars
  PROVE  NoiseControl'
<1>1. CASE kind = "ws"
  <2>1. kind' = kind
    <3>1. CASE Writer
          BY <3>1 DEF Writer, WriteHeader, WritePayload, WriteMux
    <3>2. CASE \E n \in 0..1 : Ping(n)
          BY <3>2 DEF Ping
    <3>3. CASE Reader
          BY <3>3 DEF Reader, NoiseRead, WSReadBuffered, WSReadFrame, WSReadPing, writerVars
    <3>4. CASE UNCHANGED frVars
          BY <3>4 DEF frVars
    <3> QED
        BY <3>1, <3>2, <3>3, <3>4 DEF FRNext
  <2> QED
      BY <1>1, <2>1 DEF NoiseControl
<1>2. CASE kind = "noise"
  <2>1. CASE Writer
        BY <1>2, <2>1, ControlWrites
  <2>2. CASE NoiseRead
        BY <2>2, ControlReads
  <2>3. CASE UNCHANGED frVars
        BY <2>3 DEF frVars, NoiseControl, PayloadAt
  <2>4. ~(\E n \in 0..1 : Ping(n)) /\ ~WSReadBuffered /\ ~WSReadFrame /\ ~WSReadPing
        BY <1>2 DEF Ping, WSReadBuffered, WSReadFrame, WSReadPing
  <2> QED
      BY <2>1, <2>2, <2>3, <2>4 DEF FRNext, Reader
<1> QED
    BY <1>1, <1>2, FramingAssumption DEF FrameInv, FRTypeOK, FramingAssumption

LEMMA ControlIsIntact ==
  ASSUME FrameInv, NoiseControl
  PROVE  ControlIntact
<1>1. FRTypeOK /\ WSInv /\ Phases
      BY DEF FrameInv
<1>2. HeaderSize \in Nat /\ payload \in Nat /\ Len(bytesRead) \in Nat
  <2>1. bytesRead \in Seq(0..MaxWritten)
        BY <1>1 DEF FRTypeOK
  <2> QED
      BY <1>1, <2>1, LenProperties DEF FRTypeOK
<1>3. reading = "mux" => Len(bytesRead) >= HeaderSize + payload
      BY <1>1 DEF Phases
<1>4. CASE kind = "ws"
  <2>1. ~garbled /\ \A i \in 1..Len(bytesRead) : bytesRead[i] = i
        BY <1>1, <1>4, Zenon DEF WSInv, Transparent
  <2>2. ASSUME reading = "mux", NEW i \in 1..(HeaderSize + payload) PROVE bytesRead[i] = i
    <3>1. i \in 1..Len(bytesRead)
          BY <1>2, <1>3, <2>2
    <3> QED
        BY <2>1, <3>1
  <2> QED
      BY <1>3, <2>1, <2>2 DEF ControlIntact, Transparent
<1>5. CASE kind = "noise"
  <2>1. CASE reading = "header"
    <3>1. bytesRead = <<>> /\ ~garbled
          BY <1>5, <2>1, Zenon DEF NoiseControl
    <3>2. \A i \in 1..Len(bytesRead) : bytesRead[i] = i
      <4>1. Len(bytesRead) = 0
            BY <3>1
      <4> QED
          BY ONLY <4>1
    <3> QED
        BY <2>1, <3>1, <3>2 DEF ControlIntact, Transparent
  <2>2. CASE reading = "payload"
    <3>1. ~garbled /\ Len(bytesRead) = HeaderSize /\ \A i \in 1..HeaderSize : bytesRead[i] = i
          BY <1>5, <2>2, Zenon DEF NoiseControl
    <3> QED
        BY <2>2, <3>1 DEF ControlIntact, Transparent
  <2>3. CASE reading = "mux"
    <3>1. \A i \in 1..(HeaderSize + payload) : bytesRead[i] = i
          BY <1>5, <2>3, Zenon DEF NoiseControl
    <3> QED
        BY <1>3, <2>3, <3>1 DEF ControlIntact
  <2> QED
      BY <1>1, <2>1, <2>2, <2>3 DEF FRTypeOK
<1> QED
    BY <1>1, <1>4, <1>5, FramingAssumption DEF FRTypeOK, FramingAssumption

(* Every state of Framing has its types: in particular io.ReadFull never   *)
(* gets more bytes than it wants (ReadMessage over either transport), and  *)
(* WSConn answers no more pings than it was sent.                          *)
THEOREM TypeCorrect ==
  ASSUME "server" \notin Pinged
  PROVE  FRSpec => []FRTypeOK
<1>1. FRInit => FrameInv
      BY FrameInit
<1>2. FrameInv /\ [FRNext]_frVars => FrameInv'
      BY FrameStep
<1>3. FrameInv => FRTypeOK
      BY DEF FrameInv
<1> QED
    BY <1>1, <1>2, <1>3, PTL DEF FRSpec

(* The control message that WriteMessage writes is the one that            *)
(* ReadMessage reads, over noise as well, whose Read drops what does not   *)
(* fit into the caller's buffer: header and payload are two writes, so two *)
(* frames, and two exact reads.  Over noise it must be shorter than 2^16   *)
(* bytes (FitsNoise): protocol.go's own limit, 16 MB, does not see to it,  *)
(* the short fields of the messages of server.go and client.go do.         *)
THEOREM ControlMessagesPass ==
  ASSUME "server" \notin Pinged, FitsNoise
  PROVE  FRSpec => []ControlIntact
<1>1. FRInit => FrameInv /\ NoiseControl
      BY FrameInit, ControlInit
<1>2. (FrameInv /\ NoiseControl) /\ [FRNext]_frVars => (FrameInv /\ NoiseControl)'
      BY FrameStep, ControlStep
<1>3. FrameInv /\ NoiseControl => ControlIntact
      BY ControlIsIntact
<1> QED
    BY <1>1, <1>2, <1>3, PTL DEF FRSpec
=============================================================================
