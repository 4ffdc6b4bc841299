SPECIFICATION Spec
CONSTANTS
  a = a
  b = b
  all = all
  other = other
  audit = audit
  ledger = ledger
  A = A
  B = B
  NoEntity = NoEntity
  w1 = w1
  w2 = w2
  w3 = w3
  Rows = {a, b, all, other}
  Tables = {audit, ledger}
  Entities = {A, B}
  TableOf <- MCTableOf
  EntityOf <- MCEntityOf
  Writers = {w1, w2, w3}
  MaxAttempts = 2
  MaxCalls = 3
INVARIANTS TypeOK SegmentsVerify NoFork ConflictsAreContention
PROPERTIES CallsReturn ImplementsChainLog
CHECK_DEADLOCK FALSE
