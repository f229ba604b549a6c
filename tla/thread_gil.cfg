CONSTANTS
  Context = {A, B}
  Op = {o1, o2, o3}
  Client = {p, q}
  WriteOp = {o1}
  QueueSize = 1
  PoolSize = 1
  MaxBatch = 2
  Method = {"submit", "close", "drop", "set_callback", "get_value"}
  Build = {FALSE}
  CrossClose = TRUE
  NoContext = NoContext
  NoOne = NoOne
SPECIFICATION Spec
INVARIANTS TypeOK RefsExact ReadersUndisturbed RefusedIsRetryable
PROPERTY ImplementsOneShot
SYMMETRY Symmetry
CHECK_DEADLOCK FALSE
