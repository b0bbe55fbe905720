SPECIFICATION FairSpec
CONSTANTS
  Pods = {"a", "b", "c"}
  Pattern = {"a", "b"}
  Statuses <- MCStatuses
  Initially = {"a"}
  Absent = Absent
  MaxChanges = 3
  MaxBookmarks = 1
INVARIANTS
  AnnouncementsAlternate
  SaidLastIsTrue
PROPERTY WatchEnds
CHECK_DEADLOCK FALSE
