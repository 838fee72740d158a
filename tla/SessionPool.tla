---------------------------- MODULE SessionPool ----------------------------
(***************************************************************************)
(* One session pool of the server (server.go) with the goroutines that use *)
(* it: client handlers that add sessions, visitor handlers that pick one   *)
(* and then open a stream on it, and yamux, which closes sessions at any   *)
(* time, between a handler's pick and its Open too.                        *)
(***************************************************************************)
EXTENDS PoolOps

CONSTANTS
  Sessions,  \* the yamux sessions that may be registered
  Handlers,  \* visitor handler goroutines
  None       \* Go's nil

ASSUME NoneAssumption == None \notin Sessions

VARIABLES
  pool,      \* sessionPool.sessions
  closed,    \* sessions for which IsClosed() is true, or not started yet
  held       \* held[h]: what pick() returned to h and h has not opened yet

vars == <<pool, closed, held>>

Referenced == Members(pool) \cup {held[h] : h \in Handlers}

TypeOK ==
  /\ pool \in Seq(Sessions)
  /\ closed \in SUBSET Sessions
  /\ held \in [Handlers -> Sessions \cup {None}]

Init ==
  /\ pool = <<>>
  /\ closed = Sessions
  /\ held = [h \in Handlers |-> None]

(* handleClientConn registers the session it has just made.  Every call of *)
(* yamux.Server makes a new session, so nobody refers to it yet.  It may   *)
(* already have been closed by its reader.                                 *)
Add(s) ==
  /\ s \notin Referenced
  /\ pool' = Added(pool, s)
  /\ UNCHANGED <<closed, held>>

(* handleVisitor's call of pick() returns the session at position k ...    *)
Pick(h, k) ==
  /\ held[h] = None
  /\ FirstLive(pool, closed, k)
  /\ pool' = Rotated(pool, k)
  /\ held' = [held EXCEPT ![h] = pool[k]]
  /\ UNCHANGED closed

(* ... or nil: the visitor is closed.                                      *)
PickNone(h) ==
  /\ held[h] = None
  /\ NoneLive(pool, closed)
  /\ pool' = <<>>
  /\ UNCHANGED <<closed, held>>

(* session.Open() succeeded: the handler goes on to relay.                 *)
Opened(h) ==
  /\ held[h] # None
  /\ held[h] \notin closed
  /\ held' = [held EXCEPT ![h] = None]
  /\ UNCHANGED <<pool, closed>>

(* Mutant: every failed Open throws the session out.                       *)
MutantOpenFailed(h) ==
  /\ held[h] # None
  /\ Removed(pool, held[h], pool')
  /\ held' = [held EXCEPT ![h] = None]
  /\ UNCHANGED closed

(* session.Open() failed.  The session leaves the pool only if it is       *)
(* closed; Open also fails on a live one (write timeout, streams used up). *)
OpenFailed(h) ==
  /\ held[h] # None
  /\ \/ held[h] \in closed /\ Removed(pool, held[h], pool')
     \/ held[h] \notin closed /\ pool' = pool
  /\ held' = [held EXCEPT ![h] = None]
  /\ UNCHANGED closed

(* Sessions close on their own, and new ones are made.  A session somebody *)
(* refers to never opens again.                                            *)
SessionsChange ==
  /\ closed' \in SUBSET Sessions
  /\ closed \cap Referenced \subseteq closed'
  /\ UNCHANGED <<pool, held>>

(* The server process dies and starts again with empty pools.              *)
Restart ==
  /\ pool' = <<>>
  /\ closed' = Sessions
  /\ held' = [h \in Handlers |-> None]

Next ==
  \/ \E s \in Sessions : Add(s)
  \/ \E h \in Handlers :
       \/ \E k \in 1..Len(pool) : Pick(h, k)
       \/ PickNone(h)
       \/ Opened(h)
       \/ OpenFailed(h)
  \/ SessionsChange
  \/ Restart

Spec == Init /\ [][Next]_vars

-----------------------------------------------------------------------------
(* A session is in the pool at most once.  remove() cuts out the first     *)
(* occurrence only and pick() re-appends what it popped, so a second copy  *)
(* of a closed session would survive its removal and be load-balanced      *)
(* twice while it lived.                                                   *)
NoDuplicates ==
  \A i, j \in 1..Len(pool) : pool[i] = pool[j] => i = j

(* No operation loses a live session: whatever leaves the pool is closed.  *)
(* pick() pops before it looks, and remove() runs after a failed Open that *)
(* need not mean that the session is gone.                                 *)
OnlyDeadLeave ==
  [][\A s \in Members(pool) : s \notin Members(pool') => s \in closed']_vars
=============================================================================
