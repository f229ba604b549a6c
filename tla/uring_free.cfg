CONSTANTS
  Context = {A, B}
  Op = {o1, o2}
  Client = {p, q}
  ReadOp = {o1}
  Entries = 1
  MaxBatch = 1
  MaxCancels = 1
  MaxDepth = 0
  Method = {"submit", "flush", "process_events", "drop"}
  Waiter = {}
  MinRequests = {0}
  MaxRequests = {1}
  FreeThreaded = TRUE
  MaySqpoll = {TRUE, FALSE}
  StoreBuffer = TRUE
  EnterFails = FALSE
  Sentinel = Sentinel
  NoContext = NoContext
  NoOne = NoOne
SPECIFICATION Spec
INVARIANT RefsExact
PROPERTY ImplementsOneShot
SYMMETRY Symmetry
CHECK_DEADLOCK FALSE
