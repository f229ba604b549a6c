CONSTANTS
  Context = {A}
  Op = {o1}
  Client = {p}
  ReadOp = {o1}
  Entries = 1
  MaxBatch = 1
  MaxCancels = 0
  MaxDepth = 0
  Method = {"submit", "flush"}
  Waiter = {}
  MinRequests = {0}
  MaxRequests = {1}
  FreeThreaded = FALSE
  MaySqpoll = {TRUE}
  StoreBuffer = TRUE
  EnterFails = FALSE
  Sentinel = Sentinel
  NoContext = NoContext
  NoOne = NoOne
SPECIFICATION Spec
INVARIANT FlushReaches
CHECK_DEADLOCK FALSE
