\* The server stops when a caller panics, a peer has failed, a heartbeat has
\* ended, a connection is closed, or a writer has written all it may.
CHECK_DEADLOCK FALSE
CONSTANTS
  Packages = {"autocert", "loadbalancer", "heartbeat", "p2p", "httpproxy", "relay", "framing"}
  ValidDays = 4
  RenewDays = 2
  ForceRegen = FALSE
  MaxKills = 3
  Callers = {c1, c2, c3}
  N = 3
  Strategies = {"round_robin", "random", "least_conn"}
  IndexValues = 8
  IntValues = 8
  Senders = {"monitor", "server"}
  InFlight = 2
  PongsRead = {TRUE, FALSE}
  MaxStops = 2
  Peers = {p1, p2}
  Attempts = 2
  MaxStrange = 2
  Methods = {"CONNECT", "GET"}
  MaxPieces = 2
  MaxBytes = 2
  Window = 1
  Kinds = {"noise", "ws"}
  Readers = {"client", "server"}
  Pinged = {"client"}
  HeaderSize = 2
  PayloadSizes = {1, 4}
  MuxSizes = {1, 4, 7}
  BufferSize = 3
  NoiseWidth = 6
  MaxWritten = 14
  MaxPings = 2
SPECIFICATION MCSpec
INVARIANTS
  TypesOK EOFMeansAll PairUnlessInterrupted CountsMatch LeastChosen ClosedOnce
  SuccessIsReal OnlyBufferedLost EndMeansWhole FRTypeOK WSTransparent ControlIntact
PROPERTIES
  BytesArrive TornDown ListensUnlessHalfRenewed InTurn MonitorNotices ResponderEnds
  HalfClosePasses WSDelivers
