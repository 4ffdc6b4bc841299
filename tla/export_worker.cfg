SPECIFICATION Spec
CONSTANTS
  NoItem = NoItem
  Callers = {c1, c2}
  MaxCalls = 4
  MaxDeaths = 1
INVARIANTS TypeOK InOrder MissedAreStranded
PROPERTY RecordsAreHandedOver
CHECK_DEADLOCK FALSE
