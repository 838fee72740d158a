CONSTANTS
  None = None
  s1 = s1
  s2 = s2
  s3 = s3
  w1 = w1
  w2 = w2
  w3 = w3
  w4 = w4
  v1 = v1
  v2 = v2
  a1 = a1
  a2 = a2
  b1 = b1
  d1 = d1
  a3 = a3
  e1 = e1
  e2 = e2
  i1 = i1
  probe = probe
  Names = {s1, s2, s3}
  Services = {s1, s2}
  Workers = {w1, w2, w3}
  Idlers = {}
  Visitors = {v1}
  Conns = {a1, a2, b1, d1}
  Transports = {"tcp", "noise", "ws"}
  Owner <- MCOwner
  WorkerService <- MCWorkerService
  VisitorService <- MCVisitorService
  ServerToken <- MCServerToken
  WorkerToken <- MCWorkerToken
  ServerDefault <- MCServerDefault
  ClientDefault <- MCClientDefault
  MaxDrops = 2
SYMMETRY Symmetry
SPECIFICATION Spec
INVARIANT TypeOK
INVARIANT PoolAuthenticated
INVARIANT RightService
INVARIANT ClientsAreAvailable
PROPERTY PoolsAreSessionPools
