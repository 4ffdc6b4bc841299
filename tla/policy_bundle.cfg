SPECIFICATION Spec
CONSTANTS
  NoTime = NoTime
  Keys = {p}
  Writers = {w1, w2}
  Routers = {r1}
  ValidTimes = {0, 2}
  MaxTime = 2
  MaxRecords = 2
  MaxDecisions = 1
INVARIANT BundlesShowPolicyUsed
SYMMETRY WritersAlike
CHECK_DEADLOCK FALSE
