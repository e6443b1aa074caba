SPECIFICATION Spec
CONSTANTS
  a = a
  b = b
  isr = isr
  pm = pm
  Callers <- MCCallers
  Sspm = isr
  Pm = pm
  Starts <- MCRacing
INVARIANT SspmFlagSurvives
CHECK_DEADLOCK FALSE
