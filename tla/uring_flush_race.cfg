CONSTANTS
  Context = {A}
  Op = {o1}
  Client = {p, q}
  ReadOp = {o1}
  Entries = 1
  MaxBatch = 1
  MaxCancels = 1
  MaxDepth = 0
  Method = {"submit", "flush"}
  Waiter = {}
  MinRequests = {0}
  MaxRequests = {1}
  FreeThreaded = TRUE
  MaySqpoll = {FALSE}
  StoreBuffer = FALSE
  EnterFails = FALSE
  Sentinel = Sentinel
  NoContext = NoContext
  NoOne = NoOne
SPECIFICATION FairSpec
PROPERTY FlushReturns
CHECK_DEADLOCK FALSE
