SPECIFICATION Spec
CONSTANTS
  NCPU = 2
  PwkBits <- MCPwkBits
  PwkHang = FALSE
  INTERVAL = 2
  TIMEOUT = 4
  SLACK = 1
  MIN_KICK_INTERVAL = 1
  MAX_KICK_INTERVAL = 5
  Requests <- MCRequests
  MaxWrites = 1
  MaxPlugs = 1
  MaxStalls = 1
INVARIANTS NoFalseBite ArmedAsAsked
PROPERTIES ConfigLands StallBites
CHECK_DEADLOCK FALSE
