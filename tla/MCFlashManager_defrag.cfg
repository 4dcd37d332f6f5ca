CONSTANTS
  a = a
  b = b
  SIZE = 8
  Handles = {a, b}
  LEN <- MCLEN
  VALUES = {1, 2}
  MIN_SPACE = 1
  QUEUE_LEN = 2
SPECIFICATION MCDefragSpec
INVARIANT NeverHalts
