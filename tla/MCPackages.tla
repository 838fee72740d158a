------------------------------ MODULE MCPackages ------------------------------
(***************************************************************************)
(* The packages that do not call one another (in the program each of them  *)
(* is a directory of go-core, or a file of transport), in one run: package *)
(* is chosen at the start and never changes, and the state of the others   *)
(* stays what it was.                                                      *)
(***************************************************************************)
EXTENDS AutoCert, LoadBalancer, Heartbeat, HolePunch, HttpProxy, Relay, Framing

CONSTANT Packages

VARIABLE package

allVars == <<package, acVars, lbVars, hbVars, ppVars, hpVars, vars, frVars>>

(* A package that is not the chosen one has one initial state.             *)
MCInit ==
  /\ package \in Packages
  /\ ACInit /\ LBInit /\ HBInit /\ PPInit /\ HPInit /\ Init /\ FRInit
  /\ package # "loadbalancer" => strategy = CHOOSE s \in Strategies : TRUE
  /\ package # "heartbeat" =>
       sender = (CHOOSE s \in Senders : TRUE) /\ pongsRead = CHOOSE b \in PongsRead : TRUE
  /\ package # "p2p" => natKeeps = CHOOSE f \in [Peers -> BOOLEAN] : TRUE
  /\ package # "httpproxy" => method = (CHOOSE x \in Methods : TRUE) /\ polite
  /\ package # "framing" =>
       kind = (CHOOSE k \in Kinds : TRUE) /\ reader = CHOOSE r \in Readers : TRUE

InAutoCert(A) ==
  /\ package = "autocert"
  /\ A
  /\ UNCHANGED <<package, lbVars, hbVars, ppVars, hpVars, vars, frVars>>
InLoadBalancer(A) ==
  /\ package = "loadbalancer"
  /\ A
  /\ UNCHANGED <<package, acVars, hbVars, ppVars, hpVars, vars, frVars>>
InHeartbeat(A) ==
  /\ package = "heartbeat"
  /\ A
  /\ UNCHANGED <<package, acVars, lbVars, ppVars, hpVars, vars, frVars>>
InP2P(A) ==
  /\ package = "p2p"
  /\ A
  /\ UNCHANGED <<package, acVars, lbVars, hbVars, hpVars, vars, frVars>>
InHttpProxy(A) ==
  /\ package = "httpproxy"
  /\ A
  /\ UNCHANGED <<package, acVars, lbVars, hbVars, ppVars, vars, frVars>>
InRelay(A) ==
  /\ package = "relay"
  /\ A
  /\ UNCHANGED <<package, acVars, lbVars, hbVars, ppVars, hpVars, frVars>>
InFraming(A) ==
  /\ package = "framing"
  /\ A
  /\ UNCHANGED <<package, acVars, lbVars, hbVars, ppVars, hpVars, vars>>

MCNext ==
  \/ InAutoCert(ACNext)
  \/ InLoadBalancer(LBNext)
  \/ InHeartbeat(HBNext)
  \/ InP2P(PPNext)
  \/ InHttpProxy(HPNext)
  \/ InRelay(Next)
  \/ InFraming(FRNext)

(* The fairness of the packages' own specifications; the actions of one    *)
(* that was not chosen are never enabled.                                  *)
MCFairness ==
  /\ WF_allVars(InAutoCert(ServerProcess))
  /\ WF_allVars(InHeartbeat(Pinger))
  /\ WF_allVars(InHeartbeat(MonitorStops))
  /\ WF_allVars(InHeartbeat(Responder))
  /\ WF_allVars(InHeartbeat(ReadPong))
  /\ WF_allVars(InHeartbeat(TCPGivesUp))
  /\ WF_allVars(InHttpProxy(HandleHTTPProxy))
  /\ WF_allVars(InHttpProxy(Up))
  /\ WF_allVars(InHttpProxy(Down))
  /\ \A d \in Ends, n \in 1..2 : WF_allVars(InRelay(Copier(d, n)))
  /\ \A e \in Ends : WF_allVars(InRelay(RelayReturns(e)))
  /\ \A e \in Ends : WF_allVars(InRelay(Receive(e)))
  /\ \A e \in Ends : WF_allVars(InRelay(SeesEOF(e) /\ Close(e)))
  /\ WF_allVars(InRelay(DialLocal \/ DialFails))
  /\ WF_allVars(InRelay(StreamTimesOut))
  /\ WF_allVars(InFraming(Reader))

MCSpec == MCInit /\ [][MCNext]_allVars /\ MCFairness

(* The state of the first six is of its type: a back end is chosen or the  *)
(* caller panics, a peer punches at most Attempts times, and no buffer of  *)
(* a relay holds more than it can.  Framing has its own FRTypeOK.          *)
TypesOK == ACTypeOK /\ LBTypeOK /\ HBTypeOK /\ PPTypeOK /\ HPTypeOK /\ TypeOK
=============================================================================
