CONSTANTS
  Uids = {u1, u2}
  Callers = {a, b}
  Executor = executor
  Objects = {o1, o2, o3, o4}
  NoObject = null
  NoUid = nouid
  NoCmd = none
  MaxTasks = 1
  Patient = TRUE
SPECIFICATION FairSpec
INVARIANTS
  ReturnsAfterExecution
  NotifyHasWaiter
PROPERTIES
  NotifyReturns
  CallerReleased
CHECK_DEADLOCK FALSE
