CONSTANTS
  a = a
  b = b
  SIZE = 8
  Handles = {a, b}
  LEN <- MCLEN
  VALUES = {1, 2}
  MIN_SPACE = 1
  QUEUE_LEN = 2
SPECIFICATION MCStoreSpec
INVARIANTS NeverHalts ReadsStored SealKnown
PROPERTIES WritesLegal ImplementsStore RequestsEnd
