CONSTANTS
  ThreadCount = 3
  QueueSize = 2
  Task = {t1, t2, t3}
  Caller = {c1}
  NoTask = NoTask
  NoThread = NoThread
  DestroyOnce = FALSE
SPECIFICATION FairSpec
INVARIANTS TypeOK NoLostWakeup HeldOnce SafeFree GracefulReturn
PROPERTIES ImplementsTaskPool AcceptedTasksRun DestroyReturns
CHECK_DEADLOCK FALSE
