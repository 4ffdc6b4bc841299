SPECIFICATION Spec
CONSTANTS
  NoTime = NoTime
  Keys = {p}
  Writers = {w1, w2}
  Routers = {r1}
  ValidTimes = {0, 2}
  MaxTime = 2
  MaxRecords = 3
  MaxDecisions = 1
INVARIANTS TypeOK CorrectionsSupersede BundlesAreExplained
PROPERTIES PastIsStable ViewsDoNotLookAhead
SYMMETRY WritersAlike
CHECK_DEADLOCK FALSE
