------------------------------ MODULE FairPool ------------------------------
(***************************************************************************)
(* SessionPool with two history variables, to say in which order visitors  *)
(* are given sessions.  They only record: no action is added or disabled.  *)
(***************************************************************************)
EXTENDS SessionPool

VARIABLES
  since,   \* since[x]: the sessions picked since x was picked or registered
  answer   \* the value of the last pick()

hvars == <<pool, closed, held, since, answer>>

NothingSince == [x \in Sessions |-> {}]

HInit ==
  /\ Init
  /\ since = NothingSince
  /\ answer = None

(* A session object is new when it is added: the past is not about it.     *)
HAdd(s) ==
  /\ Add(s)
  /\ since' = [x \in Sessions |-> IF x = s THEN {} ELSE since[x] \ {s}]
  /\ UNCHANGED answer

HPick(h, k) ==
  /\ Pick(h, k)
  /\ answer' = pool[k]
  /\ since' = [x \in Sessions |-> IF x = pool[k] THEN {}
                                  ELSE since[x] \cup {pool[k]}]

HPickNone(h) ==
  /\ PickNone(h)
  /\ answer' = None
  /\ UNCHANGED since

HOther ==
  /\ \/ \E h \in Handlers : Opened(h) \/ OpenFailed(h)
     \/ SessionsChange
  /\ UNCHANGED <<since, answer>>

HRestart ==
  /\ Restart
  /\ since' = NothingSince
  /\ UNCHANGED answer

HNext ==
  \/ \E s \in Sessions : HAdd(s)
  \/ \E h \in Handlers :
       \/ \E k \in 1..Len(pool) : HPick(h, k)
       \/ HPickNone(h)
  \/ HOther
  \/ HRestart

HSpec == HInit /\ [][HNext]_hvars

HTypeOK ==
  /\ TypeOK
  /\ since \in [Sessions -> SUBSET Sessions]
  /\ answer \in Sessions \cup {None}

-----------------------------------------------------------------------------
(* The list is ordered by how long ago its sessions had their turn: one    *)
(* picked after another one's last turn stands behind it, whatever adds,   *)
(* purges of dead sessions and removals from the middle came in between.   *)
QueueOrder ==
  \A i, j \in 1..Len(pool) : pool[j] \in since[pool[i]] => i < j

(* The pool is a Dispatcher.  Its live members are the ready sessions; a   *)
(* session that closes is withdrawn although it is still in the list.      *)
Ready == Members(pool) \ closed

ReadySince ==
  [x \in Sessions |-> IF x \in Ready THEN since[x] \cap Ready ELSE {}]

D == INSTANCE Dispatcher WITH ready <- Ready, since <- ReadySince

(* Visitors are served round robin by the live sessions and refused only   *)
(* when there is none (the comment of pick(): "round-robin style, removes  *)
(* dead ones").                                                            *)
ImplementsDispatcher == D!DSpec
=============================================================================
