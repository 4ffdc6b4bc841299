SPECIFICATION Spec
CONSTANTS
  t1 = t1
  t2 = t2
  t3 = t3
  x = x
  y = y
  NoId = NoId
  Tasks = {t1, t2, t3}
  Ids = {x, y}
  BatchSize = 2
  MaxCalls = 5
  MaxFailures = 2
SYMMETRY Symmetry
INVARIANTS TypeOK FullBatchesLeave FlushCovers DeleteSticks MissesAreInFlight
PROPERTY ImplementsWriteBehind
CHECK_DEADLOCK FALSE
