CONSTANTS
  None = None
  Sessions = {s1, s2, s3, s4}
  Handlers = {h1, h2}
SYMMETRY Symmetry
SPECIFICATION HSpec
INVARIANT HTypeOK
INVARIANT NoDuplicates
INVARIANT QueueOrder
PROPERTY OnlyDeadLeave
PROPERTY ImplementsDispatcher
