SPECIFICATION FanFairSpec
CONSTANTS
  Tasks <- MCTasks
  Callers = {c}
  CallerOf <- MCCallerOf
  NilTasks = {}
  Size = 2
  MayCancel = TRUE
  Lengths <- MCLengths
  NoTask = NoTask
INVARIANTS
  ResultsAreInPlace
  CrashesOnlyIfOutShrinks
PROPERTIES
  ResultsAreFinal
  EveryCallReturns
