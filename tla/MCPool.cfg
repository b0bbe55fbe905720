SPECIFICATION FairSpec
CONSTANTS
  Tasks = {t1, t2, t3}
  Callers = {t1, t2, t3}
  CallerOf <- OwnCaller
  NilTasks = {t3}
  Size = 2
  MayCancel = TRUE
INVARIANT NilMeansAllTasksEnded
PROPERTIES
  EveryRunReturns
  UntilFinishedReturns
