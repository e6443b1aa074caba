SPECIFICATION Spec
CONSTANTS
  WORD = 64
  PAGE = 8
  DUMP_CHUNK = 4
  DUMP_LINE = 2
  DUMP_LINES_MAX = 1
  DUMP_ONESHOT = 4
  DUMP_MAXLEN = 16
  INFO_MAX = 6
  Base = 28
  Total = 12
  Allowed <- MCAllowed
  Reach <- MCReach
  Protected <- MCNone
  Offsets <- MCNone
  Addrs <- MCNone
  Lens <- MCNone
  CHUNK = 4
  From = 22
  To = 39
INVARIANTS HostTypeOK GivesUpOnlyAfterThree
CHECK_DEADLOCK FALSE
