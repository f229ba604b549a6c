CONSTANTS
  Context = {A, B}
  Op = {o1, o2}
  Client = {p}
  WriteOp = {o1}
  QueueSize = 2
  PoolSize = 2
  MaxBatch = 1
  Method = {"submit", "close", "drop", "set_callback"}
  Build = {TRUE, FALSE}
  CrossClose = FALSE
  NoContext = NoContext
  NoOne = NoOne
SPECIFICATION FairSpec
INVARIANTS DispatchedOnce DispatchedWithContext
PROPERTIES AcceptedCompletes CallsReturn ImplementsTaskPool
CHECK_DEADLOCK FALSE
