SPECIFICATION Spec
CONSTANTS
  Requests <- PvcsRequests
  Initially <- PvcsInitially
  Templates <- MCTemplates
  Absent = Absent
  MaxCalls = 1
INVARIANT OnlyItsOwnClaims
CHECK_DEADLOCK FALSE
