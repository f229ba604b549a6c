CONSTANTS
  Context = {A}
  Op = {o1, o2}
  Client = {p, q}
  ReadOp = {o1}
  Entries = 2
  MaxBatch = 2
  MaxCancels = 1
  MaxDepth = 1
  Method = {"submit", "flush", "cancel", "process_events", "poll", "get_value", "drop"}
  Waiter = {q}
  MinRequests = {0, 1}
  MaxRequests = {1}
  FreeThreaded = FALSE
  MaySqpoll = {FALSE}
  StoreBuffer = TRUE
  EnterFails = TRUE
  Sentinel = Sentinel
  NoContext = NoContext
  NoOne = NoOne
SPECIFICATION FairSpec
INVARIANTS TypeOK CompletedOnce RefsExact ClaimedIsInFlight FlushReaches
PROPERTIES NotReadInFlight FlushReturns
CHECK_DEADLOCK FALSE
