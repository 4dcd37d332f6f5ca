CONSTANTS
  MODELS = {1, 2}
  COUNT = 2
  INTERVAL = 3
  RETRY_DELAY = 2
  TIMEOUTS = {5, 10}
  LATE = 1
SPECIFICATION ReliableSpec
INVARIANT CallbacksMayPublish
CHECK_DEADLOCK FALSE
