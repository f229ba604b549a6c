SPECIFICATION Spec
CONSTANTS
  t1 = t1  t2 = t2  t3 = t3
  Task = {t1, t2, t3}
  Op = {t1, t2, t3}
  operation <- MCOperation
  Kind = {"uring", "sqpoll", "linux", "pool"}
  MaxRequests = {1, 2}
  Entries <- MCEntries
  MaxCancels = 2
  Fails = {"submit", "flush"}
  NoTask = NoTask
INVARIANTS TypeOK OutcomeTrue
PROPERTIES SettledOnce AwaiterResumes
CHECK_DEADLOCK FALSE
