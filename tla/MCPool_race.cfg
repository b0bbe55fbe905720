SPECIFICATION Spec
CONSTANTS
  Tasks = {t1, t2, t3}
  Callers = {t1, t2, t3}
  CallerOf <- OwnCaller
  NilTasks = {}
  Size = 1
  MayCancel = FALSE
INVARIANT GoroutinesWithinLimit
