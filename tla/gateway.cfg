SPECIFICATION Spec
CONSTANTS
  s1 = s1
  s2 = s2
  l1 = l1
  NoKey = NoKey
  Keys = {s1, s2, l1}
  Limit <- MCLimit
  Span <- MCSpan
  CooldownSeconds = 5
  PruneThreshold = 1
  PruneEvery = 2
  PruneHardBound = 2
  Callers = {c1, c2}
  Stall = 1
  MaxCalls = 4
  MaxTime = 6
INVARIANTS TypeOK WindowsHoldTheLimit
PROPERTIES CooldownsHold StaleWindowsGo
SYMMETRY Symmetry
CHECK_DEADLOCK FALSE
