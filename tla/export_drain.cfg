SPECIFICATION Spec
CONSTANTS
  NoItem = NoItem
  Callers = {c1, c2}
  MaxCalls = 4
  MaxDeaths = 1
INVARIANT SentinelMeansDrained
CHECK_DEADLOCK FALSE
