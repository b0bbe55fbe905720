SPECIFICATION FairSpec
CONSTANTS
  Requests <- MCRequests
  Initially <- MCInitially
  Templates <- MCTemplates
  Absent = Absent
  MaxCalls = 2
INVARIANTS
  RemovedMeansGone
  RolloutSeesItsOwn
  DataGoesLast
PROPERTIES
  EveryCallReturns
  GoneEndsPollers
CHECK_DEADLOCK FALSE
