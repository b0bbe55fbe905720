SPECIFICATION FairSpec
CONSTANTS
  Tasks = {1, 2}
  WorkerCount = 3
  Microsecond = 3
  ETA <- MCETA
  MaxDelay <- MCMaxDelay
  Sync = {1, 2}
  Faulty = {1}
  MayCancel = TRUE
  NoTask = NoTask
INVARIANTS
  EtaIsTheBacklog
  EveryWorkerIsInOnePlace
  TreeIsSortedUntilATaskEnds
  AnswerTellsTheFate
PROPERTIES
  MailboxesAreFifo
  EverySubmitReturns
  EveryQueuedTaskIsAnswered
  WorkersExitAfterCancel
