CONSTANTS
  None = None
  NoAddr = NoAddr
  w1 = w1
  w2 = w2
  u1 = u1
  u2 = u2
  a1 = a1
  a2 = a2
  b1 = b1
  Workers = {w1, w2}
  Visitors = {u1}
  Sessions = {a1, a2, b1}
  Owner <- MCOwner
  MaxDrops = 1
  MaxBindFails = 1
  MaxSent = 2
SPECIFICATION FairSpec
INVARIANT TypeOK
INVARIANT NoSessionAbandoned
PROPERTY StaysInService
PROPERTY RequestsGetThrough
CHECK_DEADLOCK FALSE
