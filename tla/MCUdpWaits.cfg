CONSTANTS
  None = None
  NoAddr = NoAddr
  w1 = w1
  w2 = w2
  u1 = u1
  u2 = u2
  a1 = a1
  a2 = a2
  b1 = b1
  Workers = {w1}
  Visitors = {u1}
  Sessions = {a1, a2}
  Owner <- MCOwner
  MaxDrops = 0
  MaxBindFails = 0
  MaxSent = 1
SPECIFICATION FairSpec
PROPERTY WaitsForSession
CHECK_DEADLOCK FALSE
