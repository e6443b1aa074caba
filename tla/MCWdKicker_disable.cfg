SPECIFICATION Spec
CONSTANTS
  NCPU = 2
  PwkBits <- MCPwkBits
  PwkHang = FALSE
  INTERVAL = 2
  TIMEOUT = 4
  SLACK = 1
  MIN_KICK_INTERVAL = 1
  MAX_KICK_INTERVAL = 5
  Requests <- MCDisabling
  MaxWrites = 1
  MaxPlugs = 0
  MaxStalls = 0
INVARIANT DisableSticks
CHECK_DEADLOCK FALSE
