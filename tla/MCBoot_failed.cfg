SPECIFICATION Spec
CONSTANTS
  Requests <- MCRequests
  Starts <- MCStarts
  INT_MAX = 9
  Overflown <- MCOverflown
  Wrap = 3
  MaxUptime = 5
  MaxHistory = 6
INVARIANT FastbootOnlyAfterFailures
CHECK_DEADLOCK FALSE
