------------------------------ MODULE PoolOps ------------------------------
(***************************************************************************)
(* The list operations of the server's session pools (server.go,           *)
(* sessionPool and udpPool have the same code).  A pool is a sequence of   *)
(* sessions; `closed' is the set of sessions whose IsClosed() is true.     *)
(*                                                                         *)
(* pick() is a loop that pops the head until it finds a live session and   *)
(* then appends that session again.  The loop runs under the mutex, but a  *)
(* session may close while it runs.  Closing is permanent, so the outcome  *)
(* is the one the loop has when `closed' is read at its last IsClosed():   *)
(* every session it dropped is closed then too.  Hence one atomic step.    *)
(***************************************************************************)
EXTENDS Integers, Sequences

Members(p) == {p[i] : i \in 1..Len(p)}

(* add *)
Added(p, s) == Append(p, s)

(* pick: k is where the loop stops, everything in front of it is dead ...  *)
FirstLive(p, closed, k) ==
  /\ k \in 1..Len(p)
  /\ p[k] \notin closed
  /\ \A j \in 1..(k - 1) : p[j] \in closed

(* Mutants: the head is not popped; the loop variable is stored; the       *)
(* session goes back in front; it does not go back.                        *)
MutantRotatedKeepsHead(p, k) == Append(SubSeq(p, k, Len(p)), p[k])
MutantRotatedIndex(p, k) == Append(SubSeq(p, k + 1, Len(p)), k)
MutantRotatedToFront(p, k) == <<p[k]>> \o SubSeq(p, k + 1, Len(p))
MutantRotatedDrops(p, k) == SubSeq(p, k + 1, Len(p))

(* ... and the live session goes from the head to the tail.                *)
Rotated(p, k) == Append(SubSeq(p, k + 1, Len(p)), p[k])

(* pick returns nil, having emptied the list.                              *)
NoneLive(p, closed) == \A i \in 1..Len(p) : p[i] \in closed

(* remove: i is the first place that holds the target ...                  *)
FirstAt(p, s, i) ==
  /\ i \in 1..Len(p)
  /\ p[i] = s
  /\ \A j \in 1..(i - 1) : p[j] # s

(* Mutant: the last one fills the gap, a usual idiom for slices whose      *)
(* order does not matter.                                                  *)
MutantWithoutSwaps(p, i) ==
  [j \in 1..(Len(p) - 1) |-> IF j = i THEN p[Len(p)] ELSE p[j]]

(* ... which is cut out of the list; no target, no change.                 *)
Without(p, i) == SubSeq(p, 1, i - 1) \o SubSeq(p, i + 1, Len(p))

Removed(p, s, q) ==
  \/ \E i \in 1..Len(p) : FirstAt(p, s, i) /\ q = Without(p, i)
  \/ s \notin Members(p) /\ q = p
=============================================================================
