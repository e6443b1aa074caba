SPECIFICATION Spec
CONSTANTS
  NCPU = 3
  PwkBits <- MCPwkBits
  PwkHang = TRUE
  INTERVAL = 2
  TIMEOUT = 4
  SLACK = 1
  MIN_KICK_INTERVAL = 1
  MAX_KICK_INTERVAL = 4
  Requests <- MCNone
  MaxWrites = 0
  MaxPlugs = 2
  MaxStalls = 0
INVARIANTS TypeOK NoOneLeftBehind NoFalseBite HangIsReal HangOfThisRound

CHECK_DEADLOCK FALSE
