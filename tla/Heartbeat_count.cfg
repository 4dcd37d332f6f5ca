CONSTANTS
  MAX_LOG = 3
  SUB_INTERVAL = 1
  COUNT_LOGS = {0, 2, 3, 5}
  PERIOD_LOGS = {0, 2, 4}
  HEARTBEAT_CHANGES = 3
SPECIFICATION HeartbeatSpec
INVARIANT SentAsAsked
CHECK_DEADLOCK FALSE
