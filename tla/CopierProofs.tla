------------------------------ MODULE CopierProofs ------------------------------
(***************************************************************************)
(* The components that copy bytes both ways, Relay and HttpProxy: none is  *)
(* lost, and an end of file is no truncation, for every number of bytes    *)
(* and every size of the buffers.                                          *)
(***************************************************************************)
EXTENDS Relay, HttpProxy, SequenceTheorems, TLAPS

-----------------------------------------------------------------------------
(* Relay.  While the stream is up, every byte is with the reader or in one *)
(* of three buffers (Conserved).  The last writer of a direction shuts it  *)
(* down only when the second buffer is empty for good, or when its reader  *)
(* has gone and will never see the end of the third (EndOrder).            *)
Conserved ==
  stream = "up" =>
    \A d \in Ends :
      sent[d] = Len(got[d]) + Len(buffer[d][1]) + Len(buffer[d][2]) + Len(buffer[d][3])

(* Nothing is written behind an end.                                       *)
EndOrder ==
  \A d \in Ends :
    /\ fin[d][2] => copier[d][1] = "done"
    /\ copier[d][2] = "done" => fin[d][3] \/ closed[Other(d)]
    /\ stream = "up" /\ fin[d][3] =>
         /\ copier[d][2] = "done"
         /\ (fin[d][2] /\ buffer[d][2] = <<>>) \/ Broken(Other(d))

(* Both goroutines at the local service start when it is dialled.          *)
DialledOnce == copier["local"][1] = "off" <=> copier["visitor"][2] = "off"

RelayInv == TypeOK /\ Conserved /\ EndOrder /\ DialledOnce

LEMMA OtherEnd == \A d \in Ends : Other(d) \in Ends /\ Other(d) # d /\ Other(Other(d)) = d
BY DEF Ends, Other

LEMMA EndsAreTwo == \A d, e \in Ends : e = d \/ e = Other(d)
BY DEF Ends, Other

LEMMA InvMeansAll == RelayInv => EOFMeansAll
<1> SUFFICES ASSUME RelayInv, NEW e \in Ends, SeesEOF(e), stream = "up"
             PROVE  Len(got[Other(e)]) = sent[Other(e)] - Len(buffer[Other(e)][1])
    BY DEF EOFMeansAll
<1> DEFINE d == Other(e)
<1>1. d \in Ends /\ Other(d) = e
      BY OtherEnd
<1>2. buffer[d][3] = <<>> /\ fin[d][3]
      BY DEF SeesEOF
<1>3. ~Broken(e)
      BY <1>1, <1>2 DEF Broken
<1>4. buffer[d][2] = <<>>
      BY <1>1, <1>2, <1>3 DEF RelayInv, EndOrder
<1>5. sent[d] = Len(got[d]) + Len(buffer[d][1]) + Len(buffer[d][2]) + Len(buffer[d][3])
      BY <1>1 DEF RelayInv, Conserved
<1>6. Len(got[d]) \in Nat /\ Len(buffer[d][1]) \in Nat
      BY <1>1 DEF RelayInv, TypeOK
<1> QED
    BY <1>2, <1>4, <1>5, <1>6

-----------------------------------------------------------------------------
LEMMA RelayInit == Init => RelayInv
<1> SUFFICES ASSUME Init PROVE RelayInv
    OBVIOUS
<1> USE RelayAssumption DEF RelayAssumption, Init
<1>1. TypeOK
      BY DEF TypeOK, Bytes
<1>2. Conserved
      BY DEF Conserved
<1>3. EndOrder
      BY DEF EndOrder, Ends, Other
<1>4. DialledOnce
      BY DEF DialledOnce, Ends
<1> QED
    BY <1>1, <1>2, <1>3, <1>4 DEF RelayInv

(* Moving one byte from a buffer to the next.                              *)
LEMMA CopyMoves ==
  ASSUME RelayInv, NEW d \in Ends, NEW n \in 1..2, Copy(d, n)
  PROVE  /\ buffer' \in [Ends -> [1..3 -> Seq(Bytes)]]
         /\ buffer'[d][n] = Tail(buffer[d][n])
         /\ buffer'[d][n + 1] = Append(buffer[d][n + 1], Head(buffer[d][n]))
         /\ \A e \in Ends, h \in 1..3 : e # d \/ h \notin {n, n + 1} => buffer'[e][h] = buffer[e][h]
<1> USE DEF RelayInv, TypeOK
<1>1. n \in 1..3 /\ n + 1 \in 1..3 /\ n # n + 1
      OBVIOUS
<1>2. buffer[d] \in [1..3 -> Seq(Bytes)] /\ buffer[d][n] # <<>>
      BY DEF Copy
<1>3. Head(buffer[d][n]) \in Bytes /\ Tail(buffer[d][n]) \in Seq(Bytes)
      BY <1>1, <1>2
<1>4. buffer' = [buffer EXCEPT ![d] = [buffer[d] EXCEPT
                    ![n] = Tail(buffer[d][n]),
                    ![n + 1] = Append(buffer[d][n + 1], Head(buffer[d][n]))]]
      BY <1>1, <1>2 DEF Copy
<1>5. Append(buffer[d][n + 1], Head(buffer[d][n])) \in Seq(Bytes)
      BY <1>1, <1>2, <1>3
<1> QED
    BY <1>1, <1>2, <1>3, <1>4, <1>5

(* Lengths of the buffers, as numbers.                                     *)
LEMMA Lengths ==
  ASSUME TypeOK, NEW d \in Ends
  PROVE  /\ sent[d] \in Nat /\ Len(got[d]) \in Nat
         /\ Len(buffer[d][1]) \in Nat /\ Len(buffer[d][2]) \in Nat /\ Len(buffer[d][3]) \in Nat
BY RelayAssumption DEF RelayAssumption, TypeOK

LEMMA CopyKeeps ==
  ASSUME RelayInv, NEW d \in Ends, NEW n \in 1..2, Copy(d, n)
  PROVE  RelayInv'
<1> USE DEF RelayInv
<1>1. /\ n \in 1..3 /\ n + 1 \in 1..3 /\ n + 1 # n
      /\ buffer[d] \in [1..3 -> Seq(Bytes)] /\ buffer[d][n] # <<>>
      BY DEF TypeOK, Copy
<1>2. /\ buffer' \in [Ends -> [1..3 -> Seq(Bytes)]]
      /\ buffer'[d][n] = Tail(buffer[d][n])
      /\ buffer'[d][n + 1] = Append(buffer[d][n + 1], Head(buffer[d][n]))
      BY CopyMoves
<1>3. \A e \in Ends, h \in 1..3 : e # d \/ h \notin {n, n + 1} => buffer'[e][h] = buffer[e][h]
      BY CopyMoves
<1>4. /\ Len(buffer[d][n]) > 0 /\ Len(buffer'[d][n]) = Len(buffer[d][n]) - 1
      /\ Len(buffer'[d][n + 1]) = Len(buffer[d][n + 1]) + 1
  <2> DEFINE from == buffer[d][n]
             to == buffer[d][n + 1]
  <2>1. from \in Seq(Bytes) /\ to \in Seq(Bytes) /\ from # <<>>
        BY <1>1
  <2> HIDE DEF from, to
  <2>2. Len(from) > 0 /\ Len(Tail(from)) = Len(from) - 1 /\ Len(Append(to, Head(from))) = Len(to) + 1
        BY <2>1
  <2> QED
      BY <1>2, <2>2 DEF from, to
<1>5. TypeOK'
  <2>1. ASSUME NEW e \in Ends, NEW h \in 1..3
        PROVE  Len(buffer'[e][h]) <= Window
    <3>1. Len(buffer[e][h]) <= Window /\ Len(buffer[d][n]) <= Window /\ Len(buffer[d][n + 1]) < Window
          BY <1>1 DEF TypeOK, Copy
    <3>2. /\ Window \in Nat
          /\ Len(buffer[e][h]) \in Nat /\ Len(buffer[d][n]) \in Nat /\ Len(buffer[d][n + 1]) \in Nat
          BY <1>1, RelayAssumption DEF RelayAssumption, TypeOK
    <3>3. CASE e # d \/ h \notin {n, n + 1}
          BY <1>3, <3>1, <3>3
    <3>4. CASE e = d /\ h = n
          BY <1>4, <3>1, <3>2, <3>4
    <3>5. CASE e = d /\ h = n + 1
          BY <1>4, <3>1, <3>2, <3>5
    <3> QED
        BY <3>3, <3>4, <3>5
  <2> QED
      BY <1>2, <2>1 DEF TypeOK, Copy
<1>6. Conserved'
  <2> SUFFICES ASSUME stream = "up", NEW e \in Ends
               PROVE  sent[e] = Len(got[e]) + Len(buffer'[e][1]) + Len(buffer'[e][2])
                                  + Len(buffer'[e][3])
      BY DEF Conserved, Copy
  <2>1. sent[e] = Len(got[e]) + Len(buffer[e][1]) + Len(buffer[e][2]) + Len(buffer[e][3])
        BY DEF Conserved
  <2> DEFINE all == Len(got[e])
             b1 == Len(buffer[e][1])
             b2 == Len(buffer[e][2])
             b3 == Len(buffer[e][3])
  <2>2. all \in Nat /\ b1 \in Nat /\ b2 \in Nat /\ b3 \in Nat
        BY Lengths
  <2>3. CASE e # d
    <3>1. buffer'[e][1] = buffer[e][1] /\ buffer'[e][2] = buffer[e][2] /\ buffer'[e][3] = buffer[e][3]
          BY <1>3, <2>3
    <3> QED
        BY <2>1, <3>1
  <2>4. CASE e = d /\ n = 1
    <3>1. /\ Len(buffer'[e][1]) = Len(buffer[e][1]) - 1
          /\ Len(buffer'[e][2]) = Len(buffer[e][2]) + 1
          /\ buffer'[e][3] = buffer[e][3]
          BY <1>3, <1>4, <2>4
    <3> HIDE DEF all, b1, b2, b3
    <3>2. all + (b1 - 1) + (b2 + 1) + b3 = all + b1 + b2 + b3
          BY <2>2
    <3> QED
        BY <2>1, <3>1, <3>2 DEF all, b1, b2, b3
  <2>5. CASE e = d /\ n = 2
    <3>1. /\ Len(buffer'[e][2]) = Len(buffer[e][2]) - 1
          /\ Len(buffer'[e][3]) = Len(buffer[e][3]) + 1
          /\ buffer'[e][1] = buffer[e][1]
          BY <1>3, <1>4, <2>5
    <3> HIDE DEF all, b1, b2, b3
    <3>2. all + b1 + (b2 - 1) + (b3 + 1) = all + b1 + b2 + b3
          BY <2>2
    <3> QED
        BY <2>1, <3>1, <3>2 DEF all, b1, b2, b3
  <2>6. n = 1 \/ n = 2
        OBVIOUS
  <2> QED
      BY <2>3, <2>4, <2>5, <2>6, Zenon
<1>7. EndOrder'
  <2>1. /\ copier[d][n] = "copy"
        /\ UNCHANGED <<fin, peer, copier, stream, closed>>
        BY DEF Copy
  <2>2. \A e \in Ends : buffer[e][3] # <<>> => buffer'[e][3] # <<>>
    <3> SUFFICES ASSUME NEW e \in Ends, buffer[e][3] # <<>> PROVE buffer'[e][3] # <<>>
        OBVIOUS
    <3>1. CASE e # d \/ n = 1
          BY <1>3, <3>1
    <3>2. CASE e = d /\ n = 2
      <4>1. buffer'[e][3] \in Seq(Bytes) /\ Len(buffer'[e][3]) > 0
            BY <1>2, <1>4, <3>2, Lengths
      <4> QED
          BY <4>1
    <3> QED
        BY <3>1, <3>2
  <2>3. \A e \in Ends : Broken(Other(e)) => Broken(Other(e))'
        BY <2>1, <2>2, OtherEnd DEF Broken
  <2>4. \A e \in Ends : fin[e][2] /\ buffer[e][2] = <<>> => buffer'[e][2] = <<>>
    <3> SUFFICES ASSUME NEW e \in Ends, fin[e][2], buffer[e][2] = <<>>
                 PROVE  buffer'[e][2] = <<>>
        OBVIOUS
    <3>1. copier[e][1] = "done"
          BY DEF EndOrder
    <3>2. e # d
          BY <1>1, <2>1, <3>1
    <3> QED
        BY <1>3, <3>2
  <2> QED
      BY <2>1, <2>3, <2>4 DEF EndOrder
<1>8. DialledOnce'
      BY DEF DialledOnce, Copy
<1> QED
    BY <1>5, <1>6, <1>7, <1>8

LEMMA CopyEndsKeeps ==
  ASSUME RelayInv, NEW d \in Ends, NEW n \in 1..2, CopyEnds(d, n)
  PROVE  RelayInv'
<1> USE DEF RelayInv, CopyEnds
<1>1. TypeOK' /\ Conserved'
      BY DEF TypeOK, Conserved
<1>2. EndOrder'
  <2> SUFFICES ASSUME NEW e \in Ends
               PROVE  /\ fin'[e][2] => copier'[e][1] = "done"
                      /\ copier'[e][2] = "done" => fin'[e][3] \/ closed[Other(e)]
                      /\ stream = "up" /\ fin'[e][3] =>
                           /\ copier'[e][2] = "done"
                           /\ (fin'[e][2] /\ buffer[e][2] = <<>>) \/ Broken(Other(e))
      BY DEF EndOrder, Broken
  <2>1. CASE e # d
        BY <2>1 DEF EndOrder, TypeOK
  <2>2. CASE e = d /\ n = 1
        BY <2>2 DEF EndOrder, TypeOK
  <2>3. CASE e = d /\ n = 2
    <3>1. stream = "up" => (fin[d][2] /\ buffer[d][2] = <<>>) \/ Broken(Other(d))
          BY <2>3 DEF Works, EndOf
    <3> QED
        BY <2>3, <3>1 DEF EndOrder, TypeOK
  <2> QED
      BY <2>1, <2>2, <2>3
<1>3. DialledOnce'
      BY DEF DialledOnce, TypeOK, Ends
<1> QED
    BY <1>1, <1>2, <1>3

LEMMA RelayReturnsKeeps ==
  ASSUME RelayInv, NEW e \in Ends, RelayReturns(e)
  PROVE  RelayInv'
<1> USE DEF RelayInv, RelayReturns
<1>1. TypeOK' /\ Conserved'
      BY OtherEnd DEF TypeOK, Conserved
<1>2. fin[Other(e)][3] /\ copier[e][1] = "done"
      BY OtherEnd DEF EndOrder
<1>3. EndOrder'
  <2>1. /\ \A d \in Ends : fin'[d][3] = fin[d][3]
        /\ \A d \in Ends : d # e => fin'[d][2] = fin[d][2]
        /\ fin'[e][2] /\ (fin[e][2] => fin'[e][2])
    <3>1. /\ fin \in [Ends -> [1..3 -> BOOLEAN]]
          /\ fin' = [fin EXCEPT ![e][2] = TRUE, ![Other(e)][3] = TRUE]
          /\ Other(e) \in Ends /\ Other(e) # e
          BY OtherEnd DEF TypeOK
    <3> DEFINE row == [fin[e] EXCEPT ![2] = TRUE]
               rowOther == [fin[Other(e)] EXCEPT ![3] = TRUE]
    <3>2. fin' = [fin EXCEPT ![e] = row, ![Other(e)] = rowOther]
          BY <3>1
    <3>3. /\ \A d \in Ends : d # e /\ d # Other(e) => fin'[d] = fin[d]
          /\ fin'[e] = row /\ fin'[Other(e)] = rowOther
          BY <3>1, <3>2
    <3>4. /\ row[2] = TRUE /\ row[3] = fin[e][3]
          /\ rowOther[2] = fin[Other(e)][2] /\ rowOther[3] = TRUE
          BY <3>1
    <3>5. fin[Other(e)][3] = TRUE
          BY <1>2, <3>1
    <3> HIDE DEF row, rowOther
    <3> QED
        BY <3>3, <3>4, <3>5, EndsAreTwo
  <2>2. /\ \A d \in Ends : closed[d] => closed'[d]
        /\ UNCHANGED <<buffer, peer, copier, stream>>
        BY DEF TypeOK
  <2>3. \A d \in Ends : fin'[d][2] => copier'[d][1] = "done"
        BY <1>2, <2>1, <2>2 DEF EndOrder
  <2>4. \A d \in Ends : copier'[d][2] = "done" => fin'[d][3] \/ closed'[Other(d)]
        BY <2>1, <2>2, OtherEnd DEF EndOrder
  <2>5. \A d \in Ends : Broken(Other(d))' = Broken(Other(d))
        BY <2>2 DEF Broken
  <2>6. \A d \in Ends : stream' = "up" /\ fin'[d][3] =>
            /\ copier'[d][2] = "done"
            /\ (fin'[d][2] /\ buffer'[d][2] = <<>>) \/ Broken(Other(d))'
        BY <2>1, <2>2, <2>5 DEF EndOrder
  <2> QED
      BY <2>3, <2>4, <2>6 DEF EndOrder
<1>4. DialledOnce'
      BY DEF DialledOnce
<1> QED
    BY <1>1, <1>3, <1>4

LEMMA DialLocalKeeps ==
  ASSUME RelayInv, DialLocal
  PROVE  RelayInv'
<1> USE DEF RelayInv, DialLocal
<1>1. TypeOK' /\ Conserved'
      BY DEF TypeOK, Conserved, Ends
<1>2. EndOrder'
  <2>1. /\ "local" \in Ends /\ "visitor" \in Ends
        /\ \A d \in Ends : d = "local" \/ d = "visitor"
        BY DEF Ends
  <2>2. copier["local"][1] = "off" /\ copier["visitor"][2] = "off"
        BY DEF Connected, DialledOnce
  <2>3. ~fin["local"][2] /\ ~(stream = "up" /\ fin["visitor"][3])
        BY <2>1, <2>2 DEF EndOrder
  <2>4. /\ copier'["local"][2] = copier["local"][2]
        /\ copier'["visitor"][1] = copier["visitor"][1]
        /\ copier'["visitor"][2] = "copy"
        BY <2>1 DEF TypeOK
  <2> QED
      BY <2>1, <2>2, <2>3, <2>4 DEF EndOrder, Broken
<1>3. DialledOnce'
      BY DEF DialledOnce, TypeOK, Ends
<1> QED
    BY <1>1, <1>2, <1>3

LEMMA DialFailsKeeps ==
  ASSUME RelayInv, DialFails
  PROVE  RelayInv'
<1> USE DEF RelayInv, DialFails
<1>1. TypeOK' /\ Conserved'
      BY DEF TypeOK, Conserved, Ends
<1>2. EndOrder'
  <2>1. /\ "local" \in Ends /\ "visitor" \in Ends
        /\ \A d \in Ends : d = "local" \/ d = "visitor"
        /\ Other("local") = "visitor" /\ Other("visitor") = "local"
        BY DEF Ends, Other
  <2>2. copier["local"][1] = "off" /\ copier["visitor"][2] = "off"
        BY DEF Connected, DialledOnce
  <2>3. ~fin["local"][2] /\ ~(stream = "up" /\ fin["visitor"][3])
        BY <2>1, <2>2 DEF EndOrder
  <2>4. /\ copier'["local"][1] = "done" /\ copier'["local"][2] = copier["local"][2]
        /\ copier'["visitor"][1] = copier["visitor"][1]
        /\ closed'["local"] /\ closed'["visitor"] = closed["visitor"]
        /\ peer'["visitor"] = peer["visitor"]
        BY <2>1 DEF TypeOK
  <2>5. /\ fin'["local"][2] /\ fin'["local"][3] = fin["local"][3]
        /\ fin'["visitor"] = fin["visitor"]
        BY <2>1 DEF TypeOK
  <2>6. /\ fin'["local"][2] => copier'["local"][1] = "done"
        /\ copier'["local"][2] = "done" => fin'["local"][3] \/ closed'["visitor"]
        /\ stream = "up" /\ fin'["local"][3] =>
             /\ copier'["local"][2] = "done"
             /\ (fin'["local"][2] /\ buffer["local"][2] = <<>>) \/ Broken("visitor")'
        BY <2>1, <2>3, <2>4, <2>5 DEF EndOrder, Broken
  <2>7. /\ fin'["visitor"][2] => copier'["visitor"][1] = "done"
        /\ copier'["visitor"][2] = "done" => fin'["visitor"][3] \/ closed'["local"]
        /\ ~(stream = "up" /\ fin'["visitor"][3])
        BY <2>1, <2>3, <2>4, <2>5 DEF EndOrder
  <2> QED
      BY <2>1, <2>6, <2>7 DEF EndOrder
<1>3. DialledOnce'
      BY DEF DialledOnce, TypeOK, Ends
<1> QED
    BY <1>1, <1>2, <1>3

(* Without the stream, only the first two parts of EndOrder say anything.  *)
LEMMA StreamEndsKeeps ==
  ASSUME RelayInv, NEW how \in {"lost", "expired"}, StreamEnds(how)
  PROVE  RelayInv'
<1> USE DEF RelayInv, StreamEnds
<1>1. buffer' \in [Ends -> [1..3 -> Seq(Bytes)]]
      BY DEF TypeOK
<1>2. \A d \in Ends, h \in 1..3 : Len(buffer'[d][h]) <= Window
  <2> SUFFICES ASSUME NEW d \in Ends, NEW h \in 1..3 PROVE Len(buffer'[d][h]) <= Window
      OBVIOUS
  <2>1. CASE h = 2
        BY <2>1, RelayAssumption DEF RelayAssumption, TypeOK
  <2>2. CASE h # 2
        BY <2>2 DEF TypeOK
  <2> QED
      BY <2>1, <2>2
<1>3. TypeOK'
      BY <1>1, <1>2 DEF TypeOK
<1>4. Conserved' /\ EndOrder' /\ DialledOnce'
      BY DEF Conserved, EndOrder, DialledOnce
<1> QED
    BY <1>3, <1>4

(* What the ends do leaves the second buffer and the shutdowns alone.      *)
LEMMA EndsKeepOrder ==
  ASSUME RelayInv, UNCHANGED <<copier, stream, closed>>,
         \A d \in Ends : fin'[d][2] = fin[d][2] /\ fin'[d][3] = fin[d][3],
         \A d \in Ends : buffer'[d][2] = buffer[d][2],
         \A d \in Ends : Broken(d) => Broken(d)'
  PROVE  EndOrder' /\ DialledOnce'
BY OtherEnd DEF RelayInv, EndOrder, DialledOnce

LEMMA SendKeeps ==
  ASSUME RelayInv, NEW d \in Ends, Send(d)
  PROVE  RelayInv'
<1> USE DEF RelayInv
<1> DEFINE old == buffer[d][1]
           new == Append(old, sent[d] + 1)
<1>1. /\ sent \in [Ends -> 0..MaxBytes] /\ sent[d] + 1 \in Bytes
      /\ sent' = [sent EXCEPT ![d] = sent[d] + 1]
      BY RelayAssumption DEF RelayAssumption, TypeOK, Send, Bytes
<1>2. sent'[d] = sent[d] + 1
      BY <1>1
<1>3. buffer' = [buffer EXCEPT ![d][1] = new]
      BY <1>2 DEF Send
<1>4. /\ old \in Seq(Bytes) /\ Len(old) < Window
      /\ UNCHANGED <<got, fin, peer, copier, stream, closed>>
      BY DEF TypeOK, Send
<1> HIDE DEF old
<1>5. new \in Seq(Bytes) /\ Len(new) = Len(old) + 1 /\ Len(old) \in Nat
      BY <1>1, <1>4
<1> HIDE DEF new
<1>6. /\ buffer' \in [Ends -> [1..3 -> Seq(Bytes)]]
      /\ buffer'[d][1] = new
      /\ \A e \in Ends, h \in 1..3 : e # d \/ h # 1 => buffer'[e][h] = buffer[e][h]
      BY <1>3, <1>5 DEF TypeOK
<1>7. TypeOK'
  <2>1. ASSUME NEW e \in Ends, NEW h \in 1..3
        PROVE  Len(buffer'[e][h]) <= Window
    <3>1. CASE e # d \/ h # 1
          BY <1>6, <3>1 DEF TypeOK
    <3>2. CASE e = d /\ h = 1
          BY <1>4, <1>5, <1>6, <3>2, RelayAssumption DEF RelayAssumption
    <3> QED
        BY <3>1, <3>2
  <2>2. sent' \in [Ends -> 0..MaxBytes]
        BY <1>1 DEF Bytes
  <2> QED
      BY <1>4, <1>6, <2>1, <2>2 DEF TypeOK
<1>8. Conserved'
  <2> SUFFICES ASSUME stream = "up", NEW e \in Ends
               PROVE  sent'[e] = Len(got[e]) + Len(buffer'[e][1]) + Len(buffer'[e][2])
                                  + Len(buffer'[e][3])
      BY <1>4 DEF Conserved
  <2>1. sent[e] = Len(got[e]) + Len(buffer[e][1]) + Len(buffer[e][2]) + Len(buffer[e][3])
        BY DEF Conserved
  <2>2. buffer'[e][2] = buffer[e][2] /\ buffer'[e][3] = buffer[e][3]
        BY <1>6
  <2>3. CASE e # d
    <3>1. sent'[e] = sent[e] /\ buffer'[e][1] = buffer[e][1]
          BY <1>1, <1>6, <2>3
    <3> QED
        BY <2>1, <2>2, <3>1
  <2>4. CASE e = d
    <3> DEFINE a == Len(got[e])
               b == Len(buffer[e][1])
               c == Len(buffer[e][2])
               f == Len(buffer[e][3])
    <3>1. a \in Nat /\ b \in Nat /\ c \in Nat /\ f \in Nat
          BY Lengths
    <3>2. sent'[e] = sent[e] + 1 /\ Len(buffer'[e][1]) = b + 1
          BY <1>2, <1>5, <1>6, <2>4 DEF old
    <3> HIDE DEF a, b, c, f
    <3>3. a + b + c + f + 1 = a + (b + 1) + c + f
          BY <3>1
    <3> QED
        BY <2>1, <2>2, <3>2, <3>3 DEF a, b, c, f
  <2> QED
      BY <2>3, <2>4
<1>9. EndOrder' /\ DialledOnce'
  <2>1. \A e \in Ends : buffer'[e][2] = buffer[e][2] /\ buffer'[e][3] = buffer[e][3]
        BY <1>6
  <2>2. \A e \in Ends : Broken(e) => Broken(e)'
        BY <1>4, <2>1, OtherEnd DEF Broken
  <2> QED
      BY <1>4, <2>1, <2>2, EndsKeepOrder
<1> QED
    BY <1>7, <1>8, <1>9

LEMMA ReceiveKeeps ==
  ASSUME RelayInv, NEW e \in Ends, Receive(e)
  PROVE  RelayInv'
<1> USE DEF RelayInv
<1> DEFINE d == Other(e)
           old == buffer[d][3]
           read == Append(got[d], Head(old))
<1>1. d \in Ends /\ Other(d) = e
      BY OtherEnd
<1>2. /\ peer[e] # "closed"
      /\ old # <<>> /\ old \in Seq(Bytes) /\ got[d] \in Seq(Bytes) /\ Len(old) <= Window
      /\ got' = [got EXCEPT ![d] = read]
      /\ buffer' = [buffer EXCEPT ![d][3] = Tail(old)]
      /\ UNCHANGED <<sent, fin, peer, copier, stream, closed>>
      BY <1>1 DEF TypeOK, Receive
<1> HIDE DEF old
<1>3. /\ Tail(old) \in Seq(Bytes) /\ Len(Tail(old)) = Len(old) - 1 /\ Len(old) \in Nat
      /\ read \in Seq(Bytes) /\ Len(read) = Len(got[d]) + 1
      BY <1>2
<1> HIDE DEF d, read
<1>4. /\ buffer' \in [Ends -> [1..3 -> Seq(Bytes)]]
      /\ buffer'[d][3] = Tail(old)
      /\ \A f \in Ends, h \in 1..3 : f # d \/ h # 3 => buffer'[f][h] = buffer[f][h]
  <2>1. buffer \in [Ends -> [1..3 -> Seq(Bytes)]]
        BY DEF TypeOK
  <2>2. buffer[d] \in [1..3 -> Seq(Bytes)]
        BY <1>1, <2>1
  <2>3. [buffer[d] EXCEPT ![3] = Tail(old)] \in [1..3 -> Seq(Bytes)]
        BY <1>3, <2>2
  <2>4. buffer' = [buffer EXCEPT ![d] = [buffer[d] EXCEPT ![3] = Tail(old)]]
        BY <1>2
  <2>5. buffer' \in [Ends -> [1..3 -> Seq(Bytes)]]
        BY <2>1, <2>3, <2>4
  <2>6. buffer'[d] = [buffer[d] EXCEPT ![3] = Tail(old)]
        /\ \A f \in Ends : f # d => buffer'[f] = buffer[f]
        BY <1>1, <2>1, <2>4
  <2>7. buffer'[d][3] = Tail(old) /\ \A h \in 1..3 : h # 3 => buffer'[d][h] = buffer[d][h]
        BY <2>2, <2>6
  <2> QED
      BY <2>5, <2>6, <2>7, Zenon
<1>5. /\ got' \in [Ends -> Seq(Bytes)]
      /\ got'[d] = read
      /\ \A f \in Ends : f # d => got'[f] = got[f]
      BY <1>1, <1>2, <1>3 DEF TypeOK
<1>6. TypeOK'
  <2>1. ASSUME NEW f \in Ends, NEW h \in 1..3
        PROVE  Len(buffer'[f][h]) <= Window
    <3>1. CASE f # d \/ h # 3
          BY <1>4, <3>1 DEF TypeOK
    <3>2. CASE f = d /\ h = 3
          BY <1>2, <1>3, <1>4, <3>2, RelayAssumption DEF RelayAssumption
    <3> QED
        BY <3>1, <3>2
  <2> QED
      BY <1>2, <1>4, <1>5, <2>1 DEF TypeOK
<1>7. Conserved'
  <2> SUFFICES ASSUME stream = "up", NEW f \in Ends
               PROVE  sent[f] = Len(got'[f]) + Len(buffer'[f][1]) + Len(buffer'[f][2])
                                  + Len(buffer'[f][3])
      BY <1>2 DEF Conserved
  <2>1. sent[f] = Len(got[f]) + Len(buffer[f][1]) + Len(buffer[f][2]) + Len(buffer[f][3])
        BY DEF Conserved
  <2>2. buffer'[f][1] = buffer[f][1] /\ buffer'[f][2] = buffer[f][2]
        BY <1>4
  <2>3. CASE f # d
    <3>1. got'[f] = got[f] /\ buffer'[f][3] = buffer[f][3]
          BY <1>4, <1>5, <2>3
    <3> QED
        BY <2>1, <2>2, <3>1
  <2>4. CASE f = d
    <3> DEFINE a == Len(got[f])
               b == Len(buffer[f][1])
               c == Len(buffer[f][2])
               g == Len(buffer[f][3])
    <3>1. a \in Nat /\ b \in Nat /\ c \in Nat /\ g \in Nat
          BY Lengths
    <3>2. Len(got'[f]) = a + 1 /\ Len(buffer'[f][3]) = g - 1
          BY <1>3, <1>4, <1>5, <2>4 DEF old
    <3> HIDE DEF a, b, c, g
    <3>3. a + b + c + g = (a + 1) + b + c + (g - 1)
          BY <3>1
    <3> QED
        BY <2>1, <2>2, <3>2, <3>3 DEF a, b, c, g
  <2> QED
      BY <2>3, <2>4
<1>8. EndOrder' /\ DialledOnce'
  <2>1. \A f \in Ends : buffer'[f][2] = buffer[f][2]
        BY <1>4
  <2>2. ASSUME NEW f \in Ends, Broken(f)
        PROVE  Broken(f)'
    <3>1. f # e
          BY <1>2, <2>2 DEF Broken
    <3>2. Other(f) \in Ends /\ Other(f) # d
          BY <1>1, <3>1, OtherEnd
    <3>3. buffer'[Other(f)][3] = buffer[Other(f)][3]
          BY <1>4, <3>2
    <3> QED
        BY <1>2, <2>2, <3>3 DEF Broken
  <2> QED
      BY <1>2, <2>1, <2>2, EndsKeepOrder
<1> QED
    BY <1>6, <1>7, <1>8

LEMMA HangsUpKeeps ==
  ASSUME RelayInv, NEW d \in Ends, Shut(d) \/ Close(d)
  PROVE  RelayInv'
<1> USE DEF RelayInv
<1>1. /\ fin \in [Ends -> [1..3 -> BOOLEAN]]
      /\ fin' = [fin EXCEPT ![d][1] = TRUE]
      /\ UNCHANGED <<sent, got, buffer, copier, stream, closed>>
      BY DEF TypeOK, Shut, Close
<1>2. /\ fin' \in [Ends -> [1..3 -> BOOLEAN]]
      /\ \A e \in Ends : fin'[e][2] = fin[e][2] /\ fin'[e][3] = fin[e][3]
  <2> DEFINE row == [fin[d] EXCEPT ![1] = TRUE]
  <2>1. fin[d] \in [1..3 -> BOOLEAN] /\ fin' = [fin EXCEPT ![d] = row]
        BY <1>1
  <2>2. row \in [1..3 -> BOOLEAN] /\ row[2] = fin[d][2] /\ row[3] = fin[d][3]
        BY <2>1
  <2> HIDE DEF row
  <2> QED
      BY <1>1, <2>1, <2>2
<1>3. /\ peer' \in [Ends -> {"open", "shut", "closed"}]
      /\ \A e \in Ends : peer[e] = "closed" => peer'[e] = "closed"
      BY DEF TypeOK, Shut, Close
<1>4. TypeOK' /\ Conserved'
      BY <1>1, <1>2, <1>3 DEF TypeOK, Conserved
<1>5. \A e \in Ends : Broken(e) => Broken(e)'
      BY <1>1, <1>3 DEF Broken
<1>6. EndOrder' /\ DialledOnce'
      BY <1>1, <1>2, <1>5, EndsKeepOrder
<1> QED
    BY <1>6, <1>4

LEMMA RelayStep ==
  ASSUME RelayInv, [Next]_vars
  PROVE  RelayInv'
<1>1. CASE \E d \in Ends, n \in 1..2 : Copier(d, n)
      BY <1>1, CopyKeeps, CopyEndsKeeps DEF Copier
<1>2. CASE \E e \in Ends : RelayReturns(e)
      BY <1>2, RelayReturnsKeeps
<1>3. CASE DialLocal \/ DialFails
      BY <1>3, DialLocalKeeps, DialFailsKeeps
<1>4. CASE \E e \in Ends : Send(e) \/ Receive(e) \/ Shut(e) \/ Close(e)
      BY <1>4, SendKeeps, ReceiveKeeps, HangsUpKeeps
<1>5. CASE SessionEnds \/ StreamTimesOut
      BY <1>5, StreamEndsKeeps DEF SessionEnds, StreamTimesOut
<1>6. CASE UNCHANGED vars
  <2>1. /\ sent' = sent /\ got' = got /\ buffer' = buffer /\ fin' = fin
        /\ peer' = peer /\ copier' = copier /\ stream' = stream /\ closed' = closed
        BY <1>6 DEF vars
  <2>2. TypeOK' /\ Conserved' /\ DialledOnce'
        BY <2>1 DEF RelayInv, TypeOK, Conserved, DialledOnce
  <2>3. EndOrder'
        BY <2>1 DEF RelayInv, EndOrder, Broken
  <2> QED
      BY <2>2, <2>3 DEF RelayInv
<1> QED
    BY <1>1, <1>2, <1>3, <1>4, <1>5, <1>6 DEF Next, Relays

LEMMA InvariantHolds == Spec => []RelayInv
BY RelayInit, RelayStep, PTL DEF Spec

-----------------------------------------------------------------------------
(* Every variable of the relay keeps its type, and no buffer overflows     *)
(* although every writer runs on its own (relay.go).                       *)
THEOREM TypeCorrect == Spec => []TypeOK
<1>1. RelayInv => TypeOK
      BY DEF RelayInv
<1> QED
    BY <1>1, InvariantHolds, PTL

(* While the stream works, no byte that a relay has taken is lost: it is   *)
(* with the reader or in one of three buffers on the way, also when one    *)
(* direction is done before the other (io.Copy and CloseWrite in Relay).   *)
THEOREM NothingIsLost == Spec => []Conserved
<1>1. RelayInv => Conserved
      BY DEF RelayInv
<1> QED
    BY <1>1, InvariantHolds, PTL

(* An end that reads an end of file over a working stream has read all     *)
(* that was taken from the other end, however both relays, both dials and  *)
(* both hang-ups interleave (Relay in relay.go, handleTCPStream).          *)
THEOREM EOFIsNoTruncation == Spec => []EOFMeansAll
BY InvariantHolds, InvMeansAll, PTL

-----------------------------------------------------------------------------
(* HttpProxy.  What was sent is numbered, so that each queue holds the     *)
(* numbers after those that went before: what the client sent is, in this  *)
(* order, in the reader's buffer, with the target, or still with the       *)
(* client (UpOrder); what the target sent is with the client, on its way,  *)
(* or waiting (DownOrder).                                                 *)
USE HttpProxyAssumption DEF HttpProxyAssumption

(* s holds the numbers after a.                                            *)
Numbered(s, a) == \A i \in 1..Len(s) : s[i] = a + i

LEMMA NumberedEmpty == \A a : Numbered(<<>>, a) /\ Len(<<>>) = 0
BY DEF Numbered

LEMMA NumberedAppend ==
  ASSUME NEW s \in Seq(Int), NEW a \in Int, Numbered(s, a), NEW x \in Int, x = a + Len(s) + 1
  PROVE  Numbered(Append(s, x), a) /\ Len(Append(s, x)) = Len(s) + 1
<1>1. /\ Len(s) \in Nat /\ Len(Append(s, x)) = Len(s) + 1
      /\ \A i \in 1..Len(s) : Append(s, x)[i] = s[i]
      /\ Append(s, x)[Len(s) + 1] = x
      BY AppendProperties, LenProperties
<1>2. ASSUME NEW i \in 1..(Len(s) + 1) PROVE Append(s, x)[i] = a + i
  <2>1. CASE i = Len(s) + 1
        BY <1>1, <2>1
  <2>2. CASE i # Len(s) + 1
        BY <1>1, <2>2 DEF Numbered
  <2> QED
      BY <2>1, <2>2
<1> QED
    BY <1>1, <1>2 DEF Numbered

LEMMA NumberedTail ==
  ASSUME NEW s \in Seq(Int), NEW a \in Int, Numbered(s, a), s # <<>>
  PROVE  Head(s) = a + 1 /\ Numbered(Tail(s), a + 1) /\ Len(Tail(s)) = Len(s) - 1
<1>1. /\ Len(s) \in Nat /\ Len(s) >= 1 /\ Head(s) = s[1]
      /\ Len(Tail(s)) = Len(s) - 1 /\ \A i \in 1..(Len(s) - 1) : Tail(s)[i] = s[i + 1]
  <2>1. Len(s) \in Nat /\ Len(s) >= 1
        BY EmptySeq, LenProperties
  <2>2. Len(Tail(s)) = Len(s) - 1 /\ \A i \in 1..Len(Tail(s)) : Tail(s)[i] = s[i + 1]
        BY HeadTailProperties
  <2> QED
      BY <2>1, <2>2
<1>2. ASSUME NEW i \in 1..(Len(s) - 1) PROVE Tail(s)[i] = (a + 1) + i
  <2>1. i + 1 \in 1..Len(s)
        BY <1>1
  <2> QED
      BY <1>1, <2>1 DEF Numbered
<1> QED
    BY <1>1, <1>2 DEF Numbered

LEMMA NumberedSub ==
  ASSUME NEW s \in Seq(Int), NEW a \in Int, Numbered(s, a),
         NEW m \in Nat, NEW n \in Nat, m <= n, n <= Len(s)
  PROVE  Numbered(SubSeq(s, m + 1, n), a + m) /\ Len(SubSeq(s, m + 1, n)) = n - m
<1> DEFINE t == SubSeq(s, m + 1, n)
<1>1. Len(s) \in Nat
      BY LenProperties
<1>2. \A i \in (m + 1)..n : s[i] \in Int
      BY <1>1, ElementOfSeq
<1>3. /\ Len(t) = IF m + 1 <= n THEN n - (m + 1) + 1 ELSE 0
      /\ \A i \in 1..(n - (m + 1) + 1) : t[i] = s[(m + 1) + i - 1]
      BY <1>2, SubSeqProperties
<1> HIDE DEF t
<1>4. Len(t) = n - m
      BY <1>3
<1>5. ASSUME NEW i \in 1..(n - m) PROVE t[i] = (a + m) + i
  <2>1. i \in 1..(n - (m + 1) + 1) /\ (m + 1) + i - 1 = m + i /\ m + i \in 1..Len(s)
        BY <1>1
  <2>2. t[i] = s[m + i] /\ s[m + i] = a + (m + i)
        BY <1>3, <2>1 DEF Numbered
  <2> QED
      BY <2>2
<1> QED
    BY <1>4, <1>5 DEF Numbered, t

LEMMA NumberedConcat ==
  ASSUME NEW s \in Seq(Int), NEW t \in Seq(Int), NEW a \in Int,
         Numbered(s, a), Numbered(t, a + Len(s))
  PROVE  Numbered(s \o t, a) /\ Len(s \o t) = Len(s) + Len(t)
<1>1. /\ Len(s) \in Nat /\ Len(t) \in Nat /\ Len(s \o t) = Len(s) + Len(t)
      /\ \A i \in 1..(Len(s) + Len(t)) :
           (s \o t)[i] = IF i <= Len(s) THEN s[i] ELSE t[i - Len(s)]
      BY ConcatProperties, LenProperties
<1>2. ASSUME NEW i \in 1..(Len(s) + Len(t)) PROVE (s \o t)[i] = a + i
  <2>1. CASE i <= Len(s)
        BY <1>1, <2>1 DEF Numbered
  <2>2. CASE ~(i <= Len(s))
    <3>1. i - Len(s) \in 1..Len(t) /\ (s \o t)[i] = t[i - Len(s)]
          BY <1>1, <2>2
    <3>2. t[i - Len(s)] = (a + Len(s)) + (i - Len(s))
          BY <3>1 DEF Numbered
    <3> QED
        BY <1>1, <3>1, <3>2
  <2> QED
      BY <2>1, <2>2
<1> QED
    BY <1>1, <1>2 DEF Numbered

LEMMA NumberedIsPieces ==
  ASSUME NEW s \in Seq(Int), Numbered(s, 0)
  PROVE  s = Pieces(Len(s))
<1>1. Len(s) \in Nat /\ s = [i \in 1..Len(s) |-> s[i]]
      BY LenProperties, SeqDef
<1> QED
    BY <1>1 DEF Numbered, Pieces

(* Where handleHTTPProxy is and what may have happened by then.            *)
Stages ==
  /\ proxy \in {"header", "dial"} => targetSent = 0 /\ targetIn = <<>> /\ targetCut = "no"
  /\ proxy \in {"header", "dial", "connected"} => response = <<>> /\ targetGot = <<>>
  /\ proxy \in {"header", "dial", "connected", "collect"} =>
       up = "off" /\ down = "off" /\ toClient = <<>> /\ clientGot = <<>>
  /\ proxy = "header" => buffered = <<>>
  /\ proxy = "relay" => method = "CONNECT" /\ up # "off" /\ down # "off"
  /\ proxy = "collect" => method = "GET"
  /\ proxy = "closing" => up = "off" /\ down = "off" /\ clientEnd # "eof"
  /\ proxy = "closed" => up # "copy" /\ down # "copy"
  /\ targetCut = "paused" => proxy \in {"closing", "closed"}
  /\ targetCut = "reset" => targetIn = <<>>
  /\ clientEnd = "reset" /\ proxy # "closed" => clientIn = <<>>
  /\ clientEnd = "eof" => toClient = <<>> /\ (down = "done" \/ proxy = "closed")

(* From the client to the target: the header, and then what was taken in   *)
(* with it, what was copied, and what still waits.                         *)
UpOrder ==
  /\ proxy = "header" /\ clientEnd # "reset" =>
       Numbered(clientIn, -1) /\ Len(clientIn) = clientSent + 1
  /\ proxy \in {"dial", "connected", "relay"} /\ clientEnd # "reset" /\ targetCut = "no" =>
       /\ Numbered(buffered, 0)
       /\ Numbered(targetGot, Len(buffered))
       /\ Numbered(clientIn, Len(buffered) + Len(targetGot))
       /\ Len(buffered) + Len(targetGot) + Len(clientIn) = clientSent
  /\ polite => buffered = <<>> /\ (clientGot = <<>> => clientSent <= 0)

(* From the target to the client: behind the 200 of a CONNECT, what the    *)
(* client has got, what is on its way, and what still waits; all that was  *)
(* sent, but for a reset.                                                  *)
First == IF method = "CONNECT" THEN -1 ELSE 0

Counted(n) == IF targetCut = "reset" THEN n \in 0..targetSent ELSE n = targetSent

Answered ==
  /\ targetFin \/ targetCut # "no"
  /\ Numbered(clientGot, First)
  /\ Numbered(toClient, Len(clientGot) + First)
  /\ Counted(Len(clientGot) + Len(toClient) + First)

Refused ==
  /\ targetCut = "reset"
  /\ \/ clientGot = <<>> /\ toClient = <<BadGateway>>
     \/ clientGot = <<BadGateway>> /\ toClient = <<>>

DownOrder ==
  clientEnd # "reset" =>
    /\ proxy = "connected" => Numbered(targetIn, 0) /\ Counted(Len(targetIn))
    /\ proxy = "collect" =>
         /\ Numbered(response, 0)
         /\ Numbered(targetIn, Len(response))
         /\ Counted(Len(response) + Len(targetIn))
    /\ proxy = "relay" =>
         /\ Numbered(clientGot, -1)
         /\ Numbered(toClient, Len(clientGot) - 1)
         /\ Numbered(targetIn, Len(clientGot) + Len(toClient) - 1)
         /\ Len(clientGot) + Len(toClient) >= 1
         /\ Counted(Len(clientGot) + Len(toClient) + Len(targetIn) - 1)
         /\ down = "done" => (targetFin \/ targetCut = "reset") /\ targetIn = <<>>
    /\ proxy \in {"closing", "closed"} /\ targetSent > 0 => Answered \/ Refused

HPInv == HPTypeOK /\ Stages /\ UpOrder /\ DownOrder

LEMMA HPStart == HPInit => HPInv
<1> SUFFICES ASSUME HPInit PROVE HPInv
    OBVIOUS
<1>1. HPTypeOK
  <2>1. -1 \in -1..MaxPieces /\ 0 \in 0..MaxPieces /\ \A S : <<>> \in Seq(S)
        BY EmptySeq
  <2> QED
      BY <2>1, Zenon DEF HPInit, HPTypeOK
<1>2. Stages
      BY DEF HPInit, Stages
<1>3. UpOrder
      BY NumberedEmpty DEF HPInit, UpOrder
<1>4. DownOrder
      BY DEF HPInit, DownOrder
<1> QED
    BY <1>1, <1>2, <1>3, <1>4 DEF HPInv

(* Everything in the queues is a number.                                   *)
LEMMA Queues ==
  ASSUME HPTypeOK
  PROVE  /\ clientIn \in Seq(Int) /\ buffered \in Seq(Int) /\ targetGot \in Seq(Int)
         /\ targetIn \in Seq(Int) /\ response \in Seq(Int)
         /\ toClient \in Seq(Int) /\ clientGot \in Seq(Int)
         /\ Len(clientIn) \in Nat /\ Len(buffered) \in Nat /\ Len(targetGot) \in Nat
         /\ Len(targetIn) \in Nat /\ Len(response) \in Nat
         /\ Len(toClient) \in Nat /\ Len(clientGot) \in Nat
         /\ clientSent \in Int /\ targetSent \in Nat
BY LenProperties DEF HPTypeOK, BadRequest

LEMMA ClientSendsKeeps == HPInv /\ ClientSends => HPInv'
<1> SUFFICES ASSUME HPInv, ClientSends PROVE HPInv'
    OBVIOUS
<1> USE DEF HPInv, clientSide, targetSide
<1>1. CASE proxy = "closed"
  <2>1. HPTypeOK'
        BY <1>1 DEF ClientSends, HPTypeOK
  <2>2. Stages'
        BY <1>1 DEF ClientSends, Stages
  <2>3. UpOrder' /\ DownOrder'
        BY <1>1 DEF ClientSends, HPTypeOK, UpOrder, DownOrder
  <2> QED
      BY <2>1, <2>2, <2>3
<1>2. CASE proxy # "closed"
  <2>1. /\ clientSent' = clientSent + 1 /\ clientIn' = Append(clientIn, clientSent + 1)
        /\ clientSent + 1 \in 0..MaxPieces
        BY <1>2 DEF ClientSends, HPTypeOK
  <2>2. HPTypeOK'
        BY <1>2, <2>1, AppendProperties DEF ClientSends, HPTypeOK
  <2>3. Stages'
        BY <1>2 DEF ClientSends, Stages
  <2>4. UpOrder'
    <3>1. CASE proxy = "header"
      <4>1. Numbered(clientIn', -1) /\ Len(clientIn') = clientSent' + 1
            BY <2>1, <3>1, Queues, NumberedAppend DEF ClientSends, UpOrder
      <4> QED
          BY <2>1, <3>1, <4>1, Queues DEF ClientSends, UpOrder
    <3>2. CASE proxy \in {"dial", "connected", "relay"} /\ targetCut = "no"
      <4> DEFINE a == Len(buffered) + Len(targetGot)
      <4>1. a \in Int /\ Numbered(clientIn, a) /\ clientSent + 1 = a + Len(clientIn) + 1
            BY <3>2, Queues DEF ClientSends, UpOrder
      <4>2. Numbered(clientIn', a) /\ Len(clientIn') = Len(clientIn) + 1
        <5> HIDE DEF a
        <5> QED
            BY <2>1, <4>1, Queues, NumberedAppend
      <4> QED
          BY <2>1, <3>2, <4>1, <4>2, Queues DEF ClientSends, UpOrder
    <3> QED
        BY <1>2, <2>1, <3>1, <3>2, Queues DEF ClientSends, UpOrder
  <2>5. DownOrder'
        BY <1>2 DEF ClientSends, DownOrder, First, Counted, Answered, Refused
  <2> QED
      BY <2>2, <2>3, <2>4, <2>5
<1> QED
    BY <1>1, <1>2

LEMMA ClientMovesKeep ==
  HPInv /\ (ClientFinishes \/ ClientBreaks \/ ClientReceives \/ ClientSeesEnd) => HPInv'
<1> USE DEF HPInv, clientSide, targetSide
<1>1. ASSUME HPInv, ClientFinishes PROVE HPInv'
      BY <1>1 DEF ClientFinishes, HPTypeOK, Stages, UpOrder, DownOrder, First, Counted, Answered,
                  Refused
<1>2. ASSUME HPInv, ClientBreaks PROVE HPInv'
  <2>1. HPTypeOK'
        BY <1>2 DEF ClientBreaks, HPTypeOK
  <2> QED
      BY <1>2, <2>1 DEF ClientBreaks, Stages, UpOrder, DownOrder
<1>3. ASSUME HPInv, ClientReceives PROVE HPInv'
  <2>0. /\ clientEnd = "open" /\ toClient # <<>> /\ toClient' = Tail(toClient)
        /\ clientGot' = Append(clientGot, Head(toClient))
        /\ proxy \in {"relay", "closing", "closed"}
        /\ Len(toClient) >= 1 /\ Len(clientGot') = Len(clientGot) + 1
        /\ clientGot' # <<>>
    <3>1. proxy \in {"relay", "closing", "closed"}
          BY <1>3 DEF ClientReceives, Stages, HPTypeOK
    <3>2. Len(toClient) >= 1
          BY <1>3, EmptySeq, Queues DEF ClientReceives
    <3>3. Len(clientGot') = Len(clientGot) + 1
      <4>1. Head(toClient) \in Int
            BY <1>3, HeadTailProperties, Queues DEF ClientReceives
      <4> QED
          BY <1>3, <4>1, AppendProperties, Queues DEF ClientReceives
    <3>4. clientGot' # <<>>
          BY <1>3, <3>3, Queues
    <3> QED
        BY <1>3, <3>1, <3>2, <3>3, <3>4 DEF ClientReceives
  <2>1. HPTypeOK'
    <3>1. Head(toClient) \in BadRequest..MaxPieces /\ toClient' \in Seq(BadRequest..MaxPieces)
          BY <1>3, <2>0, HeadTailProperties DEF HPTypeOK
    <3>2. clientGot' \in Seq(BadRequest..MaxPieces)
          BY <1>3, <2>0, <3>1, AppendProperties DEF HPTypeOK
    <3> QED
        BY <1>3, <3>1, <3>2 DEF ClientReceives, HPTypeOK
  <2>2. Stages'
        BY <1>3, <2>0 DEF ClientReceives, Stages
  <2>3. UpOrder'
        BY <1>3, <2>0 DEF ClientReceives, UpOrder
  <2>4. ASSUME NEW b \in Int, Numbered(clientGot, b), Numbered(toClient, Len(clientGot) + b)
        PROVE  /\ Numbered(clientGot', b) /\ Numbered(toClient', Len(clientGot') + b)
               /\ Len(clientGot') + Len(toClient') = Len(clientGot) + Len(toClient)
    <3>1. /\ Head(toClient) = (Len(clientGot) + b) + 1
          /\ Numbered(Tail(toClient), (Len(clientGot) + b) + 1)
          /\ Len(Tail(toClient)) = Len(toClient) - 1
      <4>1. Len(clientGot) + b \in Int
            BY <1>3, Queues
      <4> QED
          BY <1>3, <2>0, <2>4, <4>1, Queues, NumberedTail
    <3>2. Head(toClient) = b + Len(clientGot) + 1 /\ Head(toClient) \in Int
          BY <1>3, <3>1, Queues
    <3>3. Numbered(clientGot', b)
          BY <1>3, <2>0, <2>4, <3>2, Queues, NumberedAppend
    <3>4. (Len(clientGot) + b) + 1 = Len(clientGot') + b
          BY <1>3, <2>0, Queues
    <3> QED
        BY <1>3, <2>0, <3>1, <3>3, <3>4, Queues
  <2>5. DownOrder'
    <3>1. CASE proxy = "relay" /\ clientEnd # "reset"
      <4>1. /\ Numbered(clientGot, -1) /\ Numbered(toClient, Len(clientGot) + (-1))
            BY <1>3, <2>0, <3>1, Queues DEF DownOrder
      <4>2. /\ Numbered(clientGot', -1) /\ Numbered(toClient', Len(clientGot') + (-1))
            /\ Len(clientGot') + Len(toClient') = Len(clientGot) + Len(toClient)
            BY <2>4, <4>1
      <4>3. Len(clientGot') + (-1) = Len(clientGot') - 1
            BY <1>3, <2>0, Queues
      <4>4. /\ Len(clientGot') + Len(toClient') - 1 = Len(clientGot) + Len(toClient) - 1
            /\ Len(clientGot') + Len(toClient') + Len(targetIn) - 1 =
                 Len(clientGot) + Len(toClient) + Len(targetIn) - 1
            BY <4>2
      <4>5. /\ UNCHANGED <<proxy, targetIn, targetSent, targetFin, targetCut, down, clientEnd>>
            BY <1>3 DEF ClientReceives
      <4> QED
          BY <1>3, <3>1, <4>2, <4>3, <4>4, <4>5 DEF DownOrder, Counted
    <3>2. CASE proxy \in {"closing", "closed"} /\ targetSent > 0 /\ Answered
      <4>0. First \in Int /\ First' = First
            BY <1>3 DEF First, ClientReceives
      <4>1. /\ Numbered(clientGot, First) /\ Numbered(toClient, Len(clientGot) + First)
            BY <3>2 DEF Answered
      <4>2. /\ Numbered(clientGot', First) /\ Numbered(toClient', Len(clientGot') + First)
            /\ Len(clientGot') + Len(toClient') = Len(clientGot) + Len(toClient)
            BY <2>4, <4>0, <4>1
      <4>3. Answered'
            BY <1>3, <3>2, <4>0, <4>2 DEF ClientReceives, Answered, Counted
      <4> QED
          BY <1>3, <3>2, <4>3 DEF ClientReceives, DownOrder
    <3>3. CASE proxy \in {"closing", "closed"} /\ targetSent > 0 /\ Refused
      <4>1. clientGot' = <<BadGateway>> /\ toClient' = <<>>
        <5>1. clientGot = <<>> /\ toClient = <<BadGateway>>
              BY <2>0, <3>3 DEF Refused
        <5>2. Tail(toClient) = <<>> /\ Head(toClient) = BadGateway
              BY <5>1
        <5> QED
            BY <2>0, <5>1, <5>2
      <4>2. Refused'
            BY <1>3, <3>3, <4>1 DEF ClientReceives, Refused
      <4> QED
          BY <1>3, <3>3, <4>2 DEF ClientReceives, DownOrder
    <3>4. proxy' = proxy /\ targetCut' = targetCut /\ targetSent' = targetSent
          BY <1>3 DEF ClientReceives
    <3>5. proxy \in {"closing", "closed"} /\ targetSent > 0 => Answered \/ Refused
          BY <1>3, <2>0 DEF DownOrder
    <3> QED
        BY <2>0, <3>1, <3>2, <3>3, <3>4, <3>5 DEF DownOrder
  <2> QED
      BY <2>1, <2>2, <2>3, <2>5
<1>4. ASSUME HPInv, ClientSeesEnd PROVE HPInv'
  <2>1. HPTypeOK'
        BY <1>4 DEF ClientSeesEnd, HPTypeOK
  <2>2. Stages'
        BY <1>4 DEF ClientSeesEnd, Stages
  <2>3. UpOrder'
        BY <1>4 DEF ClientSeesEnd, UpOrder
  <2>4. DownOrder'
        BY <1>4 DEF ClientSeesEnd, DownOrder, First, Counted, Answered, Refused
  <2> QED
      BY <2>1, <2>2, <2>3, <2>4
<1> QED
    BY <1>1, <1>2, <1>3, <1>4

LEMMA TargetMovesKeep == HPInv /\ (TargetSends \/ TargetFinishes \/ TargetBreaks) => HPInv'
<1> USE DEF HPInv, clientSide, targetSide
<1>1. ASSUME HPInv, TargetSends PROVE HPInv'
  <2>1. /\ targetSent' = targetSent + 1 /\ targetIn' = Append(targetIn, targetSent + 1)
        /\ targetSent + 1 \in 1..MaxPieces /\ proxy \in {"connected", "relay", "collect"}
        BY <1>1 DEF TargetSends, TargetOpen, HPTypeOK
  <2>2. HPTypeOK'
        BY <1>1, <2>1, AppendProperties DEF TargetSends, HPTypeOK
  <2>3. Stages' /\ UpOrder'
        BY <1>1, <2>1 DEF TargetSends, Stages, UpOrder
  <2>4. ASSUME NEW b \in Int, Numbered(targetIn, b), targetSent = b + Len(targetIn)
        PROVE  Numbered(targetIn', b) /\ Len(targetIn') = Len(targetIn) + 1
        BY <1>1, <2>1, <2>4, Queues, NumberedAppend
  <2>5. DownOrder'
    <3>0. targetCut = "no" /\ targetCut' = "no"
          BY <1>1 DEF TargetSends
    <3>1. CASE proxy = "connected"
      <4>1. clientEnd # "reset" => Numbered(targetIn, 0) /\ targetSent = 0 + Len(targetIn)
            BY <1>1, <3>0, <3>1, Queues DEF DownOrder, Counted
      <4> QED
          BY <1>1, <2>1, <2>4, <3>0, <3>1, <4>1, Queues DEF TargetSends, DownOrder, Counted
    <3>2. CASE proxy = "collect"
      <4>1. clientEnd # "reset" =>
              Numbered(targetIn, Len(response)) /\ targetSent = Len(response) + Len(targetIn)
            BY <1>1, <3>0, <3>2, Queues DEF DownOrder, Counted
      <4>2. clientEnd # "reset" =>
              Numbered(targetIn', Len(response)) /\ Len(targetIn') = Len(targetIn) + 1
            BY <1>1, <2>4, <4>1, Queues
      <4> QED
          BY <1>1, <2>1, <3>0, <3>2, <4>2, Queues DEF TargetSends, DownOrder, Counted
    <3>3. CASE proxy = "relay"
      <4> DEFINE b == Len(clientGot) + Len(toClient) - 1
      <4>1. /\ b \in Int
            /\ clientEnd # "reset" => Numbered(targetIn, b) /\ targetSent = b + Len(targetIn)
            BY <1>1, <3>0, <3>3, Queues DEF DownOrder, Counted
      <4>2. clientEnd # "reset" =>
              Numbered(targetIn', b) /\ Len(targetIn') = Len(targetIn) + 1
        <5> HIDE DEF b
        <5> QED
            BY <2>4, <4>1
      <4> QED
          BY <1>1, <2>1, <3>0, <3>3, <4>2, Queues DEF TargetSends, DownOrder, Counted
    <3> QED
        BY <2>1, <3>1, <3>2, <3>3
  <2> QED
      BY <2>2, <2>3, <2>5
<1>2. ASSUME HPInv, TargetFinishes PROVE HPInv'
      BY <1>2 DEF TargetFinishes, TargetOpen, HPTypeOK, Stages, UpOrder, DownOrder, First, Counted,
                  Answered, Refused
<1>3. ASSUME HPInv, TargetBreaks PROVE HPInv'
  <2>1. /\ targetCut = "no" /\ targetCut' = "reset" /\ targetIn' = <<>>
        /\ proxy \in {"connected", "relay", "collect"} /\ Len(targetIn') = 0
        /\ \A b : Numbered(targetIn', b)
        BY <1>3, NumberedEmpty DEF TargetBreaks, TargetOpen
  <2>2. HPTypeOK' /\ Stages' /\ UpOrder'
        BY <1>3, <2>1, EmptySeq DEF TargetBreaks, HPTypeOK, Stages, UpOrder
  <2>3. DownOrder'
        BY <1>3, <2>1, Queues DEF TargetBreaks, DownOrder, Counted
  <2> QED
      BY <2>2, <2>3
<1> QED
    BY <1>1, <1>2, <1>3

-----------------------------------------------------------------------------
LEMMA ReadRequestKeeps == HPInv /\ ReadRequest => HPInv'
<1> SUFFICES ASSUME HPInv, ReadRequest PROVE HPInv'
    OBVIOUS
<1> USE DEF HPInv, clientSide, targetSide
<1>1. PICK n \in 1..Len(clientIn) :
        /\ buffered' = SubSeq(clientIn, 2, n)
        /\ clientIn' = SubSeq(clientIn, n + 1, Len(clientIn))
      BY DEF ReadRequest
<1>2. /\ proxy = "header" /\ clientEnd # "reset" /\ n \in Nat /\ 1 <= n /\ n <= Len(clientIn)
      /\ Numbered(clientIn, -1) /\ Len(clientIn) = clientSent + 1
      BY <1>1, Queues DEF ReadRequest, Stages, UpOrder
<1>3. /\ Numbered(buffered', 0) /\ Len(buffered') = n - 1
      /\ Numbered(clientIn', n - 1) /\ Len(clientIn') = Len(clientIn) - n
  <2>1. Numbered(SubSeq(clientIn, 1 + 1, n), -1 + 1) /\ Len(SubSeq(clientIn, 1 + 1, n)) = n - 1
    <3>1. clientIn \in Seq(Int) /\ -1 \in Int /\ 1 \in Nat /\ 1 <= n /\ n <= Len(clientIn)
          BY <1>2, Queues
    <3> QED
        BY <1>2, <3>1, NumberedSub
  <2>2. /\ Numbered(SubSeq(clientIn, n + 1, Len(clientIn)), -1 + n)
        /\ Len(SubSeq(clientIn, n + 1, Len(clientIn))) = Len(clientIn) - n
        BY <1>2, Queues, NumberedSub
  <2>3. 1 + 1 = 2 /\ -1 + 1 = 0 /\ -1 + n = n - 1
        BY <1>2
  <2> QED
      BY <1>1, <2>1, <2>2, <2>3
<1>4. HPTypeOK'
  <2>1. \A i \in 2..n : clientIn[i] \in 1..MaxPieces
    <3> SUFFICES ASSUME NEW i \in 2..n PROVE clientIn[i] \in 1..MaxPieces
        OBVIOUS
    <3>1. i \in 1..Len(clientIn)
          BY <1>2, Queues
    <3>2. clientIn[i] = -1 + i
          BY <1>2, <3>1 DEF Numbered
    <3>3. Len(clientIn) - 1 <= MaxPieces
          BY <1>2 DEF HPTypeOK
    <3> QED
        BY <1>2, <3>1, <3>2, <3>3, Queues
  <2>2. buffered' \in Seq(1..MaxPieces)
        BY <1>1, <1>2, <2>1, SubSeqProperties
  <2>3. \A i \in (n + 1)..Len(clientIn) : clientIn[i] \in 0..MaxPieces
        BY <1>2, Queues, ElementOfSeq DEF HPTypeOK
  <2>4. clientIn' \in Seq(0..MaxPieces)
        BY <1>1, <1>2, <2>3, SubSeqProperties, Queues
  <2> QED
      BY <2>2, <2>4 DEF ReadRequest, HPTypeOK
<1>5. Stages'
      BY <1>2 DEF ReadRequest, Stages
<1>6. UpOrder'
  <2>1. targetGot' = <<>> /\ Len(targetGot') = 0 /\ Numbered(targetGot', Len(buffered'))
        BY <1>2, NumberedEmpty DEF ReadRequest, Stages
  <2>2. Len(buffered') + Len(targetGot') = n - 1
        BY <1>2, <1>3, <2>1
  <2>3. polite' => buffered' = <<>>
    <3> SUFFICES ASSUME polite PROVE buffered' = <<>>
        BY DEF ReadRequest
    <3>1. n = 1
          BY <1>2, Queues DEF UpOrder, Stages
    <3>2. Len(buffered') = 0
          BY <1>3, <3>1
    <3>3. buffered' \in Seq(1..MaxPieces)
          BY <1>4 DEF HPTypeOK
    <3> QED
        BY <3>2, <3>3, EmptySeq
  <2>4. Len(buffered') + Len(targetGot') + Len(clientIn') = clientSent
    <3>1. Len(clientIn) = clientSent + 1 /\ clientSent \in Int /\ n \in Int
          BY <1>2, Queues
    <3>2. Len(clientIn') = Len(clientIn) - n
          BY <1>3
    <3>3. Len(clientIn') = clientSent + 1 - n
          BY ONLY <3>1, <3>2
    <3> QED
        BY ONLY <2>2, <3>1, <3>3
  <2> QED
      BY <1>2, <1>3, <2>1, <2>2, <2>3, <2>4 DEF ReadRequest, UpOrder
<1>7. DownOrder'
      BY DEF ReadRequest, DownOrder, Stages
<1> QED
    BY <1>4, <1>5, <1>6, <1>7

(* What handleHTTPProxy has written before it returns.                     *)
LEMMA Leaving ==
  ASSUME HPTypeOK, NEW pieces \in Seq(BadRequest..MaxPieces), Leave(pieces)
  PROVE  /\ proxy' = "closing" /\ clientEnd' = clientEnd
         /\ toClient' \in Seq(BadRequest..MaxPieces)
         /\ toClient' = IF clientEnd = "open" THEN toClient \o pieces ELSE toClient
BY ConcatProperties DEF Leave, Tell, HPTypeOK

(* conn.Close() on the client's connection.                                *)
LEMMA Closing ==
  ASSUME HPTypeOK, CloseClient
  PROVE  /\ proxy' = "closed"
         /\ clientEnd' \in {"open", "eof", "reset"}
         /\ toClient' \in Seq(BadRequest..MaxPieces)
         /\ clientEnd' # "reset" => clientEnd' = clientEnd /\ toClient' = toClient
<1>1. <<>> \in Seq(BadRequest..MaxPieces)
      BY EmptySeq
<1> QED
    BY <1>1, Zenon DEF CloseClient, HPTypeOK

LEMMA RefuseKeeps == HPInv /\ (RefuseRequest \/ GatewayFails) => HPInv'
<1> SUFFICES ASSUME HPInv, RefuseRequest \/ GatewayFails PROVE HPInv'
    OBVIOUS
<1> USE DEF HPInv, clientSide, targetSide
<1>1. PICK pieces \in Seq(BadRequest..MaxPieces) :
        /\ Leave(pieces)
        /\ proxy = "connected" => pieces = <<BadGateway>>
  <2>1. /\ <<>> \in Seq(BadRequest..MaxPieces) /\ <<BadRequest>> \in Seq(BadRequest..MaxPieces)
        /\ <<BadGateway>> \in Seq(BadRequest..MaxPieces)
        BY DEF BadRequest, BadGateway
  <2> QED
      BY <2>1 DEF RefuseRequest, GatewayFails
<1>2. /\ proxy \in {"header", "dial", "connected"}
      /\ UNCHANGED <<method, polite, up, down, buffered, response, clientSent, clientFin,
                     clientIn, targetGot, targetEOF, targetSent, targetFin, targetIn,
                     targetCut, clientGot>>
      /\ targetSent = 0 \/ (targetCut = "reset" /\ proxy = "connected")
      /\ toClient = <<>> /\ clientGot = <<>> /\ clientEnd # "eof"
      BY DEF RefuseRequest, GatewayFails, Stages
<1>3. /\ proxy' = "closing" /\ clientEnd' = clientEnd
      /\ toClient' \in Seq(BadRequest..MaxPieces)
      /\ toClient' = IF clientEnd = "open" THEN toClient \o pieces ELSE toClient
      BY <1>1, Leaving
<1>4. HPTypeOK'
      BY <1>2, <1>3 DEF HPTypeOK
<1>5. Stages'
      BY <1>2, <1>3 DEF Stages
<1>6. UpOrder'
      BY <1>2, <1>3 DEF UpOrder
<1>7. DownOrder'
  <2>1. CASE targetSent = 0
        BY <1>2, <1>3, <2>1 DEF DownOrder
  <2>2. CASE clientEnd = "reset"
        BY <1>2, <1>3, <2>2 DEF DownOrder
  <2>3. CASE clientEnd = "open" /\ targetCut = "reset" /\ proxy = "connected"
    <3>1. toClient' = <<BadGateway>>
          BY <1>1, <1>2, <1>3, <2>3
    <3>2. Refused'
          BY <1>2, <2>3, <3>1 DEF Refused
    <3> QED
        BY <1>3, <3>2 DEF DownOrder
  <2> QED
      BY <1>2, <2>1, <2>2, <2>3 DEF HPTypeOK
<1> QED
    BY <1>4, <1>5, <1>6, <1>7

LEMMA CloseConnectionKeeps == HPInv /\ CloseConnection => HPInv'
<1> SUFFICES ASSUME HPInv, CloseConnection PROVE HPInv'
    OBVIOUS
<1> USE DEF HPInv, clientSide, targetSide
<1>1. /\ proxy = "closing" /\ CloseClient
      /\ UNCHANGED <<method, polite, up, down, buffered, response, clientSent, clientFin,
                     clientIn, targetGot, targetEOF, targetSent, targetFin, targetIn,
                     targetCut, clientGot>>
      BY DEF CloseConnection
<1>2. /\ proxy' = "closed" /\ clientEnd' \in {"open", "eof", "reset"}
      /\ toClient' \in Seq(BadRequest..MaxPieces)
      /\ clientEnd' # "reset" => clientEnd' = clientEnd /\ toClient' = toClient
      BY <1>1, Closing
<1>3. HPTypeOK'
      BY <1>1, <1>2 DEF HPTypeOK
<1>4. Stages' /\ UpOrder'
      BY <1>1, <1>2 DEF Stages, UpOrder
<1>5. DownOrder'
      BY <1>1, <1>2 DEF DownOrder, First, Counted, Answered, Refused
<1> QED
    BY <1>3, <1>4, <1>5

LEMMA DialKeeps == HPInv /\ (DialTarget \/ ForwardHeader) => HPInv'
<1> USE DEF HPInv, clientSide, targetSide
<1>1. ASSUME HPInv, DialTarget PROVE HPInv'
      BY <1>1, NumberedEmpty DEF DialTarget, HPTypeOK, Stages, UpOrder, DownOrder, Counted
<1>2. ASSUME HPInv, ForwardHeader PROVE HPInv'
  <2>1. DownOrder'
    <3>1. response = <<>> /\ Len(response) = 0 /\ Numbered(response, 0)
          BY <1>2, NumberedEmpty DEF ForwardHeader, Stages
    <3> QED
        BY <1>2, <3>1, Queues DEF ForwardHeader, DownOrder, Counted
  <2> QED
      BY <1>2, <2>1 DEF ForwardHeader, HPTypeOK, Stages, UpOrder
<1> QED
    BY <1>1, <1>2

LEMMA EstablishedKeeps == HPInv /\ ConnectionEstablished => HPInv'
<1> SUFFICES ASSUME HPInv, ConnectionEstablished PROVE HPInv'
    OBVIOUS
<1> USE DEF HPInv, clientSide, targetSide
<1>1. CASE clientEnd = "open"
  <2>1. /\ proxy = "connected" /\ proxy' = "relay" /\ up' = "copy" /\ down' = "copy"
        /\ method = "CONNECT" /\ toClient = <<>> /\ clientGot = <<>>
        /\ toClient' = <<>> \o <<Established>>
        /\ UNCHANGED <<method, polite, buffered, response, clientSent, clientFin, clientIn,
                       targetGot, targetEOF, targetSent, targetFin, targetIn, targetCut,
                       clientGot, clientEnd>>
        BY <1>1 DEF ConnectionEstablished, Tell, Stages
  <2>2. toClient' = <<0>>
        BY <2>1 DEF Established
  <2>3. HPTypeOK'
    <3>1. <<0>> \in Seq(BadRequest..MaxPieces)
          BY DEF BadRequest
    <3> QED
        BY <2>1, <2>2, <3>1 DEF HPTypeOK
  <2>4. Stages' /\ UpOrder'
        BY <1>1, <2>1 DEF Stages, UpOrder
  <2>5. DownOrder'
    <3>1. /\ Len(clientGot') = 0 /\ Numbered(clientGot', -1)
          /\ Len(toClient') = 1 /\ Numbered(toClient', -1)
          BY <2>1, <2>2, NumberedEmpty DEF Numbered
    <3>2. /\ Len(clientGot') - 1 = -1 /\ Len(clientGot') + Len(toClient') - 1 = 0
          /\ Len(clientGot') + Len(toClient') + Len(targetIn) - 1 = Len(targetIn)
          /\ Len(clientGot') + Len(toClient') >= 1
          BY <3>1, Queues
    <3>3. down' # "done" /\ proxy' = "relay" /\ targetIn' = targetIn /\ targetSent' = targetSent
          /\ targetCut' = targetCut /\ clientEnd' = clientEnd
          BY <2>1
    <3>4. Numbered(targetIn, 0) /\ Counted(Len(targetIn))
          BY <1>1, <2>1 DEF DownOrder
    <3>5. Counted(Len(clientGot) + Len(toClient) + Len(targetIn) - 1)'
          BY <3>2, <3>3, <3>4 DEF Counted
    <3> QED
        BY <3>1, <3>2, <3>3, <3>4, <3>5 DEF DownOrder
  <2> QED
      BY <2>3, <2>4, <2>5
<1>2. CASE clientEnd # "open"
  <2>1. /\ Leave(<<>>) /\ proxy = "connected" /\ clientEnd = "reset" /\ targetEOF' = TRUE
        /\ UNCHANGED <<method, polite, up, down, buffered, response, clientSent, clientFin,
                       clientIn, targetGot, targetSent, targetFin, targetIn, targetCut,
                       clientGot>>
        BY <1>2 DEF ConnectionEstablished, HPTypeOK, Stages
  <2>2. proxy' = "closing" /\ clientEnd' = "reset" /\ toClient' = toClient
        BY <2>1 DEF Leave, Tell
  <2> QED
      BY <2>1, <2>2 DEF HPTypeOK, Stages, UpOrder, DownOrder
<1> QED
    BY <1>1, <1>2

LEMMA UpKeeps == HPInv /\ Up => HPInv'
<1> USE DEF HPInv, clientSide, targetSide
<1>1. ASSUME HPInv, CopyUp PROVE HPInv'
  <2>1. /\ proxy = "relay" /\ clientEnd # "reset" /\ clientIn # <<>>
        /\ clientIn' = Tail(clientIn) /\ targetCut \in {"no", "reset"}
        BY <1>1 DEF CopyUp, Stages, HPTypeOK
  <2>2. CASE targetCut = "reset"
    <3>1. HPTypeOK'
          BY <1>1, <2>1, <2>2, HeadTailProperties DEF CopyUp, HPTypeOK
    <3> QED
        BY <1>1, <2>1, <2>2, <3>1 DEF CopyUp, Stages, UpOrder, DownOrder, First, Counted,
                                      Answered, Refused
  <2>3. CASE targetCut = "no"
    <3> DEFINE b == Len(buffered)
               a == b + Len(targetGot)
    <3>1. /\ a \in Int /\ b \in Nat /\ Numbered(targetGot, b) /\ Numbered(clientIn, a)
          /\ a + Len(clientIn) = clientSent /\ a = b + Len(targetGot)
          BY <1>1, <2>1, <2>3, Queues DEF UpOrder
    <3>2. targetGot' = Append(targetGot, Head(clientIn)) /\ up' = up
          BY <1>1, <2>1, <2>3 DEF CopyUp
    <3>3. /\ Head(clientIn) = a + 1 /\ Numbered(clientIn', a + 1)
          /\ Len(clientIn') = Len(clientIn) - 1
      <4> HIDE DEF a, b
      <4> QED
          BY <1>1, <2>1, <3>1, Queues, NumberedTail
    <3>4. Numbered(targetGot', b) /\ Len(targetGot') = Len(targetGot) + 1
      <4>1. Head(clientIn) = b + Len(targetGot) + 1 /\ Head(clientIn) \in Int
            BY <3>1, <3>3
      <4> HIDE DEF a, b
      <4> QED
          BY <1>1, <3>1, <3>2, <4>1, Queues, NumberedAppend
    <3>5. HPTypeOK'
      <4>1. Head(clientIn) \in 0..MaxPieces /\ clientIn' \in Seq(0..MaxPieces)
            BY <1>1, <2>1, HeadTailProperties DEF HPTypeOK
      <4>2. Head(clientIn) \in 1..MaxPieces
            BY <1>1, <3>1, <3>3, <4>1, Queues
      <4>3. targetGot' \in Seq(1..MaxPieces)
            BY <1>1, <3>2, <4>2, AppendProperties DEF HPTypeOK
      <4> QED
          BY <1>1, <3>2, <4>1, <4>3 DEF CopyUp, HPTypeOK
    <3>6. Stages'
          BY <1>1, <2>1, <3>2 DEF CopyUp, Stages
    <3>7. UpOrder'
      <4>1. /\ buffered' = buffered /\ proxy' = proxy /\ targetCut' = targetCut
            /\ clientEnd' = clientEnd /\ clientSent' = clientSent /\ polite' = polite
            /\ clientGot' = clientGot
            BY <1>1 DEF CopyUp
      <4>2. /\ Len(buffered) + Len(targetGot') = a + 1
            /\ Len(buffered) + Len(targetGot') + Len(clientIn') = clientSent
            BY <1>1, <3>1, <3>3, <3>4, Queues
      <4> QED
          BY <1>1, <2>1, <2>3, <3>1, <3>3, <3>4, <4>1, <4>2 DEF UpOrder
    <3>8. DownOrder'
          BY <1>1 DEF CopyUp, DownOrder, First, Counted, Answered, Refused
    <3> QED
        BY <3>5, <3>6, <3>7, <3>8
  <2> QED
      BY <2>1, <2>2, <2>3
<1>2. ASSUME HPInv, UpEnds PROVE HPInv'
      BY <1>2 DEF UpEnds, HPTypeOK, Stages, UpOrder, DownOrder, First, Counted, Answered, Refused
<1> QED
    BY <1>1, <1>2 DEF Up

LEMMA DownKeeps == HPInv /\ Down => HPInv'
<1> USE DEF HPInv, clientSide, targetSide
<1>1. ASSUME HPInv, CopyDown PROVE HPInv'
  <2> DEFINE x == Head(targetIn)
  <2>1. /\ proxy = "relay" /\ targetIn # <<>> /\ targetIn' = Tail(targetIn)
        /\ x \in 1..MaxPieces /\ targetIn' \in Seq(1..MaxPieces)
        /\ toClient' = IF clientEnd = "open" THEN toClient \o <<x>> ELSE toClient
        /\ <<x>> \in Seq(BadRequest..MaxPieces)
    <3>1. x \in 1..MaxPieces /\ targetIn' \in Seq(1..MaxPieces)
          BY <1>1, HeadTailProperties DEF CopyDown, HPTypeOK
    <3>2. <<x>> \in Seq(BadRequest..MaxPieces)
      <4>1. x \in BadRequest..MaxPieces
            BY <3>1 DEF BadRequest
      <4> HIDE DEF x
      <4> QED
          BY <4>1
    <3>3. proxy = "relay"
          BY <1>1 DEF CopyDown, Stages, HPTypeOK
    <3> QED
        BY <1>1, <3>1, <3>2, <3>3 DEF CopyDown, Tell
  <2> HIDE DEF x
  <2>2. HPTypeOK'
    <3>1. toClient' \in Seq(BadRequest..MaxPieces)
      <4>1. toClient \o <<x>> \in Seq(BadRequest..MaxPieces)
            BY <1>1, <2>1, ConcatProperties DEF HPTypeOK
      <4> QED
          BY <1>1, <2>1, <4>1 DEF HPTypeOK
    <3> QED
        BY <1>1, <2>1, <3>1 DEF CopyDown, HPTypeOK
  <2>3. CASE clientEnd = "open"
    <3>0. targetCut = "no"
          BY <1>1, <2>1 DEF Stages, HPTypeOK
    <3> DEFINE g == Len(clientGot)
               a == g - 1
               b == a + Len(toClient)
    <3>1. /\ g \in Nat /\ a \in Int /\ b \in Int
          /\ Numbered(clientGot, -1) /\ Numbered(toClient, a) /\ Numbered(targetIn, b)
          /\ b + Len(targetIn) = targetSent
      <4>1. /\ b = Len(clientGot) + Len(toClient) - 1
            /\ g \in Nat /\ a \in Int /\ b \in Int
            BY <1>1, Queues
      <4>2. /\ Numbered(clientGot, -1) /\ Numbered(toClient, Len(clientGot) - 1)
            /\ Numbered(targetIn, Len(clientGot) + Len(toClient) - 1)
            /\ Len(clientGot) + Len(toClient) + Len(targetIn) - 1 = targetSent
            BY <1>1, <2>1, <2>3, <3>0 DEF DownOrder, Counted
      <4>3. b + Len(targetIn) = targetSent
            BY <1>1, <4>1, <4>2, Queues
      <4> QED
          BY <4>1, <4>2, <4>3
    <3>2. x = b + 1 /\ Numbered(targetIn', b + 1) /\ Len(targetIn') = Len(targetIn) - 1
      <4> HIDE DEF a, b, g
      <4> QED
          BY <1>1, <2>1, <3>1, Queues, NumberedTail DEF x
    <3>3. Numbered(toClient', a) /\ Len(toClient') = Len(toClient) + 1
      <4>1. <<x>> \in Seq(Int) /\ Len(<<x>>) = 1 /\ Numbered(<<x>>, a + Len(toClient))
            BY <2>1, <3>1, <3>2 DEF Numbered
      <4>2. toClient' = toClient \o <<x>>
            BY <2>1, <2>3
      <4> HIDE DEF a, b, g
      <4> QED
          BY <1>1, <3>1, <4>1, <4>2, Queues, NumberedConcat
    <3>4. Stages' /\ UpOrder'
          BY <1>1, <2>1, <2>3 DEF CopyDown, Stages, UpOrder
    <3>5. DownOrder'
      <4>1. /\ proxy' = "relay" /\ clientGot' = clientGot /\ down' = "copy"
            /\ targetSent' = targetSent /\ targetCut' = "no"
            BY <3>0, <1>1, <2>1, <2>3 DEF CopyDown
      <4>2. /\ Len(clientGot) + Len(toClient') - 1 = b + 1
            /\ Len(clientGot) + Len(toClient') + Len(targetIn') - 1 = targetSent
        <5>1. /\ b = Len(clientGot) + Len(toClient) - 1
              /\ Len(clientGot) \in Nat /\ Len(toClient) \in Nat /\ Len(targetIn) \in Nat
              /\ targetSent \in Nat
              BY <1>1, Queues
        <5> HIDE DEF a, b, g
        <5> QED
            BY <3>1, <3>2, <3>3, <5>1
      <4> QED
          BY <3>1, <3>2, <3>3, <4>1, <4>2 DEF DownOrder, Counted
    <3> QED
        BY <2>2, <3>4, <3>5
  <2>4. CASE clientEnd # "open"
    <3>1. clientEnd # "eof"
          BY <1>1, <2>1 DEF CopyDown, Stages
    <3>2. clientEnd = "reset"
          BY <1>1, <2>4, <3>1 DEF HPTypeOK
    <3>3. Stages' /\ UpOrder'
          BY <1>1, <2>1, <3>1, <3>2 DEF CopyDown, Stages, UpOrder
    <3>4. DownOrder'
          BY <1>1, <3>2 DEF CopyDown, DownOrder
    <3> QED
        BY <2>2, <3>3, <3>4
  <2> QED
      BY <2>3, <2>4
<1>2. ASSUME HPInv, DownEnds PROVE HPInv'
      BY <1>2 DEF DownEnds, HPTypeOK, Stages, UpOrder, DownOrder, First, Counted, Answered,
                  Refused
<1> QED
    BY <1>1, <1>2 DEF Down

LEMMA CloseBothKeeps == HPInv /\ CloseBoth => HPInv'
<1> SUFFICES ASSUME HPInv, CloseBoth PROVE HPInv'
    OBVIOUS
<1> USE DEF HPInv, clientSide, targetSide
<1>1. /\ proxy = "relay" /\ up = "done" /\ down = "done" /\ method = "CONNECT"
      /\ CloseClient /\ targetEOF' = TRUE
      /\ UNCHANGED <<method, polite, up, down, buffered, response, clientSent, clientFin,
                     clientIn, targetGot, targetSent, targetFin, targetIn, targetCut,
                     clientGot>>
      BY DEF CloseBoth, BothDone, Stages
<1>2. /\ proxy' = "closed" /\ clientEnd' \in {"open", "eof", "reset"}
      /\ toClient' \in Seq(BadRequest..MaxPieces)
      /\ clientEnd' # "reset" => clientEnd' = clientEnd /\ toClient' = toClient
      BY <1>1, Closing
<1>3. HPTypeOK'
      BY <1>1, <1>2 DEF HPTypeOK
<1>4. Stages'
      BY <1>1, <1>2 DEF Stages
<1>5. UpOrder'
      BY <1>1, <1>2 DEF UpOrder
<1>6. DownOrder'
  <2> SUFFICES ASSUME clientEnd # "reset", clientEnd' = clientEnd, toClient' = toClient
               PROVE  Answered'
      BY <1>1, <1>2 DEF DownOrder
  <2>1. /\ Len(targetIn) = 0 /\ First = -1 /\ First' = -1
        /\ targetFin \/ targetCut = "reset"
        BY <1>1 DEF DownOrder, First
  <2>2. /\ Numbered(clientGot, -1) /\ Numbered(toClient, Len(clientGot) - 1)
        /\ Counted(Len(clientGot) + Len(toClient) + Len(targetIn) - 1)
        BY <1>1 DEF DownOrder
  <2>3. /\ Len(clientGot) - 1 = Len(clientGot) + (-1)
        /\ Len(clientGot) + Len(toClient) + (-1) =
             Len(clientGot) + Len(toClient) + Len(targetIn) - 1
        BY <2>1, Queues
  <2> QED
      BY <1>1, <2>1, <2>2, <2>3 DEF Answered, Counted
<1> QED
    BY <1>3, <1>4, <1>5, <1>6

LEMMA CollectKeeps == HPInv /\ (Collect \/ CollectEnds) => HPInv'
<1> USE DEF HPInv, clientSide, targetSide
<1>1. ASSUME HPInv, Collect PROVE HPInv'
  <2>1. /\ proxy = "collect" /\ response' = response \o targetIn /\ targetIn' = <<>>
        BY <1>1 DEF Collect
  <2>2. HPTypeOK'
    <3>1. response' \in Seq(1..MaxPieces) /\ targetIn' \in Seq(1..MaxPieces)
          BY <1>1, <2>1, EmptySeq, ConcatProperties DEF HPTypeOK
    <3> QED
        BY <1>1, <3>1 DEF Collect, HPTypeOK
  <2>3. Stages' /\ UpOrder'
        BY <1>1, <2>1 DEF Collect, Stages, UpOrder
  <2>4. DownOrder'
    <3> SUFFICES ASSUME clientEnd # "reset"
                 PROVE  /\ Numbered(response', 0) /\ Numbered(targetIn', Len(response'))
                        /\ Counted(Len(response') + Len(targetIn'))
        BY <1>1, <2>1 DEF Collect, DownOrder, Counted
    <3>1. /\ Numbered(response, 0) /\ Numbered(targetIn, 0 + Len(response))
          /\ Counted(Len(response) + Len(targetIn))
          BY <1>1, <2>1, Queues DEF DownOrder
    <3>2. Numbered(response', 0) /\ Len(response') = Len(response) + Len(targetIn)
          BY <1>1, <2>1, <3>1, Queues, NumberedConcat
    <3>3. Len(response') + Len(targetIn') = Len(response) + Len(targetIn)
          BY <1>1, <2>1, <3>2, Queues
    <3> QED
        BY <2>1, <3>1, <3>2, <3>3, NumberedEmpty
  <2> QED
      BY <2>2, <2>3, <2>4
<1>2. ASSUME HPInv, CollectEnds PROVE HPInv'
  <2>1. /\ proxy = "collect" /\ targetIn = <<>> /\ targetEOF' = TRUE /\ Leave(response)
        /\ targetCut' = IF targetFin \/ targetCut = "reset" THEN targetCut ELSE "paused"
        /\ clientGot = <<>> /\ toClient = <<>> /\ method = "GET" /\ clientEnd # "eof"
        /\ targetCut # "paused"
        /\ UNCHANGED <<method, polite, up, down, buffered, response, clientSent, clientFin,
                       clientIn, targetGot, targetSent, targetFin, targetIn, clientGot>>
        BY <1>2 DEF CollectEnds, Stages
  <2>2. response \in Seq(BadRequest..MaxPieces)
        BY <1>2 DEF HPTypeOK, BadRequest
  <2>3. /\ proxy' = "closing" /\ clientEnd' = clientEnd
        /\ toClient' \in Seq(BadRequest..MaxPieces)
        /\ clientEnd # "reset" => toClient' = response
    <3>1. toClient \o response = response
          BY <2>1, <2>2, ConcatEmptySeq
    <3> QED
        BY <1>2, <2>1, <2>2, <3>1, Leaving DEF HPTypeOK
  <2>4. HPTypeOK'
        BY <1>2, <2>1, <2>3 DEF HPTypeOK
  <2>5. Stages'
        BY <1>2, <2>1, <2>3 DEF Stages
  <2>6. UpOrder'
        BY <1>2, <2>1, <2>3 DEF UpOrder
  <2>7. DownOrder'
    <3> SUFFICES ASSUME clientEnd # "reset", toClient' = response
                 PROVE  Answered'
        BY <2>3 DEF DownOrder
    <3>1. First' = 0 /\ targetSent' = targetSent /\ targetFin' = targetFin
          BY <2>1 DEF First
    <3>2. Numbered(response, 0) /\ Counted(Len(response) + Len(targetIn))
          BY <1>2, <2>1 DEF DownOrder
    <3>3. /\ Len(clientGot') = 0 /\ Numbered(clientGot', 0)
          /\ Len(response) + Len(targetIn) = Len(response)
          /\ Len(clientGot') + Len(toClient') + 0 = Len(response) /\ Len(clientGot') + 0 = 0
          BY <1>2, <2>1, NumberedEmpty, Queues
    <3>4. /\ targetFin \/ targetCut' # "no"
          /\ targetCut' = "reset" <=> targetCut = "reset"
          BY <2>1
    <3> QED
        BY <3>1, <3>2, <3>3, <3>4 DEF Answered, Counted
  <2> QED
      BY <2>4, <2>5, <2>6, <2>7
<1> QED
    BY <1>1, <1>2

LEMMA HPStep == HPInv /\ [HPNext]_hpVars => HPInv'
<1>1. ASSUME HPInv, UNCHANGED hpVars PROVE HPInv'
      BY <1>1 DEF hpVars, clientSide, targetSide, HPInv, HPTypeOK, Stages, UpOrder, DownOrder,
                  First, Counted, Answered, Refused
<1> QED
    BY <1>1, ClientSendsKeeps, ClientMovesKeep, TargetMovesKeep, ReadRequestKeeps, RefuseKeeps,
       CloseConnectionKeeps, DialKeeps, EstablishedKeeps, UpKeeps, DownKeeps, CloseBothKeeps,
       CollectKeeps
    DEF HPNext, HandleHTTPProxy, EitherEnd

LEMMA HPInvariant == HPSpec => []HPInv
BY HPStart, HPStep, PTL DEF HPSpec

(* The two queues, read together, are what was sent.                       *)
LEMMA UpIsWhole == HPInv => OnlyBufferedLost
<1> SUFFICES ASSUME HPInv PROVE OnlyBufferedLost
    OBVIOUS
<1>1. polite => buffered = <<>>
      BY DEF HPInv, UpOrder
<1>2. ASSUME proxy = "relay", clientEnd # "reset", targetCut = "no"
      PROVE  buffered \o targetGot \o clientIn = Pieces(clientSent)
  <2> DEFINE s == buffered \o targetGot
             t == s \o clientIn
  <2>1. /\ buffered \in Seq(Int) /\ targetGot \in Seq(Int) /\ clientIn \in Seq(Int)
        /\ Numbered(buffered, 0) /\ Numbered(targetGot, 0 + Len(buffered))
        /\ Numbered(clientIn, Len(buffered) + Len(targetGot))
        /\ Len(buffered) + Len(targetGot) + Len(clientIn) = clientSent
        /\ Len(buffered) \in Nat /\ Len(targetGot) \in Nat
        BY <1>2, Queues DEF HPInv, UpOrder
  <2>2. s \in Seq(Int) /\ Numbered(s, 0) /\ Len(s) = Len(buffered) + Len(targetGot)
        BY <2>1, NumberedConcat, ConcatProperties
  <2> HIDE DEF s
  <2>3. Numbered(clientIn, 0 + Len(s))
        BY <2>1, <2>2
  <2>4. t \in Seq(Int) /\ Numbered(t, 0) /\ Len(t) = clientSent
    <3>1. t \in Seq(Int)
          BY <2>1, <2>2, ConcatProperties
    <3>2. PICK a \in Int : a = 0
          OBVIOUS
    <3>3. Numbered(s, a) /\ Numbered(clientIn, a + Len(s))
          BY <2>2, <2>3, <3>2
    <3>4. Numbered(t, a) /\ Len(t) = Len(s) + Len(clientIn)
          BY <2>1, <2>2, <3>3, NumberedConcat
    <3> HIDE DEF t
    <3> QED
        BY <2>1, <2>2, <3>1, <3>2, <3>4
  <2> HIDE DEF t
  <2>5. t = Pieces(Len(t))
        BY <2>4, NumberedIsPieces
  <2> QED
      BY <2>4, <2>5 DEF s, t
<1> QED
    BY <1>1, <1>2 DEF OnlyBufferedLost

(* A sequence numbered behind First is an answer.                          *)
LEMMA NumberedIsAnswer ==
  ASSUME NEW n \in Nat, NEW s \in Seq(Int), Numbered(s, First), Len(s) + First = n
  PROVE  s = AnswerOf(n)
<1>1. \A i \in 1..Len(s) : s[i] = First + i
      BY DEF Numbered, First
<1>2. Len(s) \in Nat
      BY LenProperties
<1>p. /\ Pieces(n) \in Seq(Int) /\ Len(Pieces(n)) = n
      /\ \A i \in 1..n : Pieces(n)[i] = i
      BY DEF Pieces
<1>3. CASE method = "CONNECT"
  <2> DEFINE t == <<Established>> \o Pieces(n)
  <2>1. /\ <<Established>> \in Seq(Int) /\ Len(<<Established>>) = 1
        /\ <<Established>>[1] = 0
        BY DEF Established
  <2>2. /\ t \in Seq(Int) /\ Len(t) = 1 + n
        /\ \A i \in 1..(1 + n) :
             t[i] = IF i <= 1 THEN <<Established>>[i] ELSE Pieces(n)[i - 1]
        BY <1>p, <2>1, ConcatProperties
  <2> HIDE DEF t
  <2>3. \A i \in 1..(1 + n) : t[i] = i - 1
        BY <1>p, <2>1, <2>2
  <2>4. Len(s) = 1 + n /\ \A i \in 1..(1 + n) : s[i] = i - 1
        BY <1>1, <1>2, <1>3 DEF First
  <2>5. t = s
        BY <2>2, <2>3, <2>4, SeqEqual
  <2> QED
      BY <1>3, <2>5 DEF t, AnswerOf
<1>4. CASE method # "CONNECT"
  <2>1. s = Pieces(n)
        BY <1>2, <1>4, NumberedIsPieces DEF First
  <2> QED
      BY <1>4, <1>p, <2>1, ConcatEmptySeq DEF AnswerOf
<1> QED
    BY <1>3, <1>4

LEMMA DownIsWhole == HPInv => EndMeansWhole
<1> SUFFICES ASSUME HPInv, clientEnd = "eof", targetSent > 0
             PROVE  \/ clientGot = AnswerOf(targetSent) /\ (targetFin \/ targetCut = "paused")
                    \/ /\ targetCut = "reset"
                       /\ \/ clientGot = <<BadGateway>>
                          \/ \E n \in 0..targetSent : clientGot = AnswerOf(n)
    BY DEF EndMeansWhole
<1>1. toClient = <<>> /\ Len(toClient) = 0 /\ (down = "done" \/ proxy = "closed")
      BY DEF HPInv, Stages
<1>2. Answered \/ Refused
  <2>1. CASE proxy = "closed"
        BY <2>1 DEF HPInv, DownOrder
  <2>2. CASE proxy # "closed"
    <3>1. proxy = "relay" /\ method = "CONNECT" /\ down = "done"
          BY <1>1, <2>2 DEF HPInv, HPTypeOK, Stages
    <3>2. /\ First = -1 /\ Len(targetIn) = 0 /\ (targetFin \/ targetCut = "reset")
          /\ Numbered(clientGot, -1) /\ Numbered(toClient, Len(clientGot) - 1)
          /\ Counted(Len(clientGot) + Len(toClient) + Len(targetIn) - 1)
          BY <3>1 DEF HPInv, DownOrder, First
    <3>3. /\ Len(clientGot) - 1 = Len(clientGot) + (-1)
          /\ Len(clientGot) + Len(toClient) + (-1) =
               Len(clientGot) + Len(toClient) + Len(targetIn) - 1
          BY <3>2, Queues DEF HPInv
    <3> QED
        BY <3>2, <3>3 DEF Answered
  <2> QED
      BY <2>1, <2>2
<1>3. CASE Refused
      BY <1>1, <1>3 DEF Refused
<1>4. CASE Answered
  <2> DEFINE n == Len(clientGot) + First
  <2>1. /\ clientGot \in Seq(Int) /\ Len(clientGot) \in Nat /\ n \in Int
        /\ targetSent \in Nat /\ targetCut \in {"no", "reset", "paused"}
        /\ Numbered(clientGot, First) /\ (targetFin \/ targetCut # "no")
        /\ Len(clientGot) + Len(toClient) + First = n /\ Counted(n)
        BY <1>1, <1>4, Queues DEF HPInv, HPTypeOK, Answered, First
  <2> HIDE DEF n
  <2>2. CASE targetCut # "reset"
    <3>1. n = targetSent
          BY <2>1, <2>2 DEF Counted
    <3>2. clientGot = AnswerOf(targetSent)
          BY <2>1, <3>1, NumberedIsAnswer DEF n
    <3> QED
        BY <2>1, <2>2, <3>2
  <2>3. CASE targetCut = "reset"
    <3>1. n \in 0..targetSent /\ n \in Nat
          BY <2>1, <2>3 DEF Counted
    <3>2. clientGot = AnswerOf(n)
          BY <2>1, <3>1, NumberedIsAnswer DEF n
    <3> QED
        BY <2>3, <3>1, <3>2
  <2> QED
      BY <2>1, <2>2, <2>3
<1> QED
    BY <1>2, <1>3, <1>4

-----------------------------------------------------------------------------
(* Every variable of the proxy keeps its type, and an end of file and a    *)
(* reset come where they can (httpproxy.go).                               *)
THEOREM ProxyTypes == HPSpec => []HPTypeOK
BY HPInvariant, PTL DEF HPInv

(* Of what a client sends behind CONNECT, only what was taken in together  *)
(* with the header is lost, and nothing is lost of a client that waits for *)
(* the 200, whatever either end does at any time (bufio.Reader and         *)
(* io.Copy in handleHTTPProxy).                                            *)
THEOREM OnlyTheBufferIsLost == HPSpec => []OnlyBufferedLost
BY HPInvariant, UpIsWhole, PTL

(* A client that reads an end of file of a target that answered has read   *)
(* all the target sent, behind the 200 if it sent CONNECT, whichever       *)
(* direction ends first; and the target was finished, or paused too long   *)
(* for ForwardRequest.  Only if the target's connection was reset may it   *)
(* have less: a beginning of the answer, or a 502 (handleHTTPProxy).       *)
THEOREM EndMeansAllAnswered == HPSpec => []EndMeansWhole
BY HPInvariant, DownIsWhole, PTL
================================================================================
