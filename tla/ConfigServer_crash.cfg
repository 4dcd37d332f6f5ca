CONSTANTS
  MODELS = {1, 2}
  LISTS = {1, 2}
  PERIODIC = {1, 2}
  HANDLES = {1, 2}
  VIRTUAL = {2}
  GROUPS = {11}
  LABELS = {12}
  APPKEYS = {1}
  STEPS = {1}
  MESSAGES = {"publication set", "subscription add", "subscription delete", "subscription delete all", "subscription overwrite", "app bind", "app unbind"}
  STRAY = FALSE
  ROOM = 9
  CHANGES = 3
  POWER_FAILURES = 1
SPECIFICATION Spec
INVARIANT AddressesKept
CHECK_DEADLOCK FALSE
