SPECIFICATION FairSpec
CONSTANTS
  Tasks = {1, 2}
  WorkerCount = 1
  Microsecond = 3
  ETA <- MCETA
  MaxDelay <- MCMaxDelay
  Sync = {1, 2}
  Faulty = {1}
  MayCancel = TRUE
  NoTask = NoTask
PROPERTY EveryRunReturns
