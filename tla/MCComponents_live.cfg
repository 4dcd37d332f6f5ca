CONSTANTS
  REPLAY_CACHE_ENTRIES = 2
  SOURCES = {1, 2, 3}
  MaxSeqno = 1
  MaxIv = 2
  EVENTS = {"a", "b", "c"}
  PERIODIC = {"a"}
  PERIOD = 2
  DELAYS = {1, 3}
  REPEATS = {1, 2, 255}
  CAPACITY = 3
  MODELS = {1, 2}
  COUNT = 2
  INTERVAL = 3
  RETRY_DELAY = 2
  TIMEOUTS = {4, 8}
  LATE = 1
  METHODS = {"NONE", "INPUT", "OUTPUT", "STATIC"}
  PUBKEY_TYPES = {FALSE, TRUE}
  MAX_LOG = 3
  SUB_INTERVAL = 1
  COUNT_LOGS = {0, 2, 3, 5}
  PERIOD_LOGS = {0, 2}
  SIZE = 11
  LENGTHS = {1, 2, 3, 6, 10}
  PUBLISHERS = {1, 2}
  RESOLUTIONS = {1, 3}
  STEPS = {1, 2}
  UNIT = 3
  PERIOD_CHANGES = 3
  BEHIND = 12
  TX_BUFFER = 2
  UNACKED_REPEATS = 2
  SCRIPT <- MCExchange
  SEGMENTS = 3
  LINKS = 1
  RETRIES_APART = TRUE
  OFFLOADING = {}
  HEARTBEAT_CHANGES = 2
  CLIENT_CHANGES = 2
  FLASH_WORDS = 18
  UNITS = {"advertiser", "reliable", "publish", "store", "link", "protocol", "heartbeat", "clients", "net"}
SPECIFICATION MCFairSpec
INVARIANTS SendsOn TimerWatches FirstIsNext
PROPERTIES PacketsMove TransfersEnd PublicationsGoOn StoredInTheEnd AllDelivered ProvisioningEnds PublicationEnds ConfigStored UpdatesEnd BlocksArrive
CHECK_DEADLOCK FALSE
