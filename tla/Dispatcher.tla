----------------------------- MODULE Dispatcher -----------------------------
(***************************************************************************)
(* What a session pool promises to the visitors: whoever asks is given a   *)
(* live session if there is one, no session is given out a second time     *)
(* while another one has been ready all along without a turn, and nobody   *)
(* is refused while a session is ready.  Nothing is said of lists, of dead *)
(* sessions or of when they are thrown away.                               *)
(***************************************************************************)
CONSTANTS Sessions, None

VARIABLES
  ready,   \* the live registered sessions
  since,   \* since[x]: the ready sessions given out since x was, or came
  answer   \* what the last visitor who asked was given

dvars == <<ready, since, answer>>

DInit ==
  /\ ready = {}
  /\ since = [x \in Sessions |-> {}]
  /\ answer = None

Register(s) ==
  /\ s \notin ready
  /\ ready' = ready \cup {s}
  /\ UNCHANGED <<since, answer>>

Withdraw(S) ==
  /\ ready' = ready \ S
  /\ since' = [x \in Sessions |-> IF x \in S THEN {} ELSE since[x] \ S]
  /\ UNCHANGED answer

Serve(s) ==
  /\ s \in ready
  /\ \A x \in ready : s \notin since[x]
  /\ answer' = s
  /\ since' = [x \in Sessions |-> IF x \in ready \ {s} THEN since[x] \cup {s}
                                                       ELSE {}]
  /\ UNCHANGED ready

Refuse ==
  /\ ready = {}
  /\ answer' = None
  /\ UNCHANGED <<ready, since>>

DNext ==
  \/ \E s \in Sessions : Register(s) \/ Serve(s)
  \/ \E S \in SUBSET ready : Withdraw(S)
  \/ Refuse

DSpec == DInit /\ [][DNext]_dvars
=============================================================================
