SPECIFICATION Spec
CONSTANTS
  t1 = t1
  t2 = t2
  t3 = t3
  x = x
  y = y
  NoId = NoId
  Tasks = {t1, t2, t3}
  Ids = {x, y}
  BatchSize = 2
  MaxCalls = 4
  MaxFailures = 0
INVARIANT AcknowledgedResolves
CHECK_DEADLOCK FALSE
