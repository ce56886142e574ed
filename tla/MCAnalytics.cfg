\* Service and console rest when nobody asks: no deadlock check.
SPECIFICATION MCSpec
CONSTANTS
  l1 = l1 e1 = e1 e2 = e2 r1 = r1 r2 = r2
  Logs <- MCLogs
  Events <- MCEvents
  Files <- MCFiles
  Questions = {"statistics", "discover"}
  Discovery = {"discover"}
  Requests <- MCRequests
  Adhoc = "adhoc"
  Workers = 2
  MaxItems = 2
  MaxClock = 4
  StudioLogs = {a, b}
  NoLog = none
  plain = plain month = month main = main
  Filters <- MCFilters
  Plain = plain
  Local <- MCLocal
  MaxUses = 2
  MaxAppends = 1
  MaxFailures = 1
SYMMETRY MCSymmetry
INVARIANTS
  LogAnswerIsCurrent
  
  ScreenAgrees
CHECK_DEADLOCK FALSE
