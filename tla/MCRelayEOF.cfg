CONSTANTS
  MaxBytes = 1
  Window = 1
SPECIFICATION FairSpec
PROPERTY EOFArrives
CHECK_DEADLOCK FALSE
