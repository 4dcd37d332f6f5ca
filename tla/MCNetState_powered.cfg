CONSTANTS
  SEQNUM_MAX = 3
  BLOCK_SIZE = 2
  BLOCK_THRESHOLD = 1
  START_THRESHOLD = 2
  END_THRESHOLD = 1
  IV_UPDATE_TIMEOUT = 1
  IN_PROGRESS_MAX_TIME = 2
  IV_RECOVERY_TIMEOUT = 1
  IV_RECOVERY_LIMIT = 2
  POOL_SIZE = 18
  MaxIv = 2
  MaxLocks = 2
  BeaconIvIndexes <- MCIndexes
SPECIFICATION MCPoweredSpec
INVARIANT NextNonceFresh
PROPERTIES NoncesLater LockHolds IvIndexMonotonic
