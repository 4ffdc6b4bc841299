SPECIFICATION Spec
CONSTANTS
  a = a
  b = b
  t = t
  A = A
  B = B
  s1 = s1
  s2 = s2
  w1 = w1
  w2 = w2
  w3 = w3
  NoEntity = NoEntity
  NoStore = NoStore
  Rows = {a, b}
  Tables = {t}
  Entities = {A, B}
  TableOf <- MCTableOf
  EntityOf <- MCEntityOf
  Stores = {s1, s2}
  Writers = {w1, w3}
  StoreOf <- MCStoreOf
  MaxAttempts = 2
  MaxCalls = 3
  MaxFaults = 2
  Faults = {"kill", "power", "write", "fsync"}
INVARIANTS TypeOK ReturnedIsDurable CachesMatchFile
PROPERTIES ImplementsUntilWriteFails TornLineIsFinal CallsReturn
CHECK_DEADLOCK FALSE
