CONSTANTS
  Context = {A, B}
  Op = {o1, o2}
  Client = {p}
  MaxRequests = 1
  PoolSize = 1
  Caller = {p, A}
  MaxBatch = 2
  NoContext = NoContext
  NoOne = NoOne
  NoOp = NoOp
SPECIFICATION FairSpec
INVARIANTS TypeOK SlotsExact
PROPERTIES ImplementsOneShot ClaimsSettle
CHECK_DEADLOCK FALSE
