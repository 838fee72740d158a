CONSTANTS
  Kinds = {"noise"}
  Readers = {"client"}
  Pinged = {}
  HeaderSize = 2
  PayloadSizes = {1, 4}
  MuxSizes = {1, 4, 7}
  BufferSize = 3
  NoiseWidth = 6
  MaxWritten = 12
  MaxPings = 0
SPECIFICATION FRFairSpec
INVARIANT NoiseTransparent
CHECK_DEADLOCK FALSE
