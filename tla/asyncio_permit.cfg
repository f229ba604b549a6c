SPECIFICATION Spec
CONSTANTS
  t1 = t1  t2 = t2  t3 = t3
  Task = {t1, t2, t3}
  Op = {t1, t2, t3}
  operation <- MCOperation
  Kind = {"pool"}
  MaxRequests = {1}
  Entries <- MCEntries
  MaxCancels = 2
  Fails = {"submit", "flush"}
  NoTask = NoTask
INVARIANT InFlightBounded
CHECK_DEADLOCK FALSE
