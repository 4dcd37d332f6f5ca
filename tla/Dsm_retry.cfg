CONSTANTS
  SUBNETS = {0}
  APPKEYS = {0}
  DEVKEYS = {0}
  ADDRESSES = {}
  GROUPS = {}
  ROOM = 2
  CHANGES = 5
  POWER_FAILURES = 1
SPECIFICATION Spec
INVARIANT KeysHaveSubnets
CHECK_DEADLOCK FALSE
