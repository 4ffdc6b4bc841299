SPECIFICATION Spec
CONSTANTS
  a = a
  b = b
  t = t
  A = A
  B = B
  s1 = s1
  s2 = s2
  w1 = w1
  w2 = w2
  w3 = w3
  NoEntity = NoEntity
  NoStore = NoStore
  Rows = {a, b}
  Tables = {t}
  Entities = {A, B}
  TableOf <- MCTableOf
  EntityOf <- MCEntityOf
  Stores = {s1}
  Writers = {w1, w2}
  StoreOf <- MCStoreOf
  MaxAttempts = 2
  MaxCalls = 3
  MaxFaults = 1
  Faults = {"write"}
INVARIANT NoFork
CHECK_DEADLOCK FALSE
