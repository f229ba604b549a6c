CONSTANTS
  Context = {A, B}
  Op = {o1, o2}
  Client = {p, q}
  MaxBatch = 2
  MaxDepth = 1
  Method = {"submit", "cancel", "process_events", "poll", "drop"}
  MinRequests = {0, 1}
  MaxRequests = {1, 2}
  Build = {TRUE, FALSE}
  MayRefuse = {FALSE}
  NoContext = NoContext
  NoOne = NoOne
SPECIFICATION Spec
INVARIANTS TypeOK ClaimedIsInFlight RefsExact
PROPERTY ImplementsOneShot
SYMMETRY Symmetry
CHECK_DEADLOCK FALSE
