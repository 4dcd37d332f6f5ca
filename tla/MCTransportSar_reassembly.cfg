CONSTANTS
  a = a
  b = b
  all = all
  FREE = FREE
  m1 = m1
  m2 = m2
  m3 = m3
  NODES = {a, b}
  GROUP = all
  MESSAGES = {m1, m2, m3}
  SRC <- MCSrc
  DST <- MCDst
  LAST <- MCLast
  SEGMENTED <- MCSegmented
  MISFORMED <- MCMisformed
  SESSIONS_MAX = 1
  CACHE_LEN = 2
  TX_RETRIES = 2
  SEQZERO_MOD = 16
  REPLAY_CACHE_ENTRIES = 1
  SEQNUM_LIMIT <- MCLimit
  STACK_SEQZERO = {15}
  MaxSent = 4
SPECIFICATION FairSpec
PROPERTY LockReturned
INVARIANTS NeverHalts DeliveredOnce OutcomeIsTrue
CHECK_DEADLOCK FALSE
