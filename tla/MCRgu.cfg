SPECIFICATION Spec
CONSTANTS
  a = a
  b = b
  isr = isr
  pm = pm
  Callers <- MCCallers
  Sspm = isr
  Pm = pm
  Starts <- MCStarts
INVARIANTS TypeOK RequestsExact ModeFollowsEnable
           SuspendIsMarked SspmResetBypassesKey LockReturned
           DebounceWithKey RebootAsAsked
PROPERTY RebootCompletes
CHECK_DEADLOCK FALSE
