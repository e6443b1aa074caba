SPECIFICATION DevSpec
CONSTANTS
  WORD = 72
  PAGE = 8
  DUMP_CHUNK = 4
  DUMP_LINE = 2
  DUMP_LINES_MAX = 2
  DUMP_ONESHOT = 8
  DUMP_MAXLEN = 16
  INFO_MAX = 7
  Base = 28
  Total = 12
  Allowed <- MCAllowed
  Reach <- MCReach
  Protected <- MCProtected
  Offsets <- MCOffsets
  Addrs <- MCAddrs
  Lens <- MCLens
INVARIANTS
  TypeOK LineBufferSafe BytesAccounted LossIsOneLine InfoBudget MappingClosed
  AbortsOnlyUnreachable ReadsAllowedOnly
PROPERTIES CommandEnds
