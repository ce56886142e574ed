SPECIFICATION OneCSpec
CONSTANTS
  MinEdgeSamples = 5
  AnomalyRatio = 3
  AnomalyFloor = 5
  UnitSeconds = 86400
  MaxDocs = 3
  Clients = {1}
  DocKinds = 2
  LastDay = 1
  MonthDays = 2
  Window = 1
  PageSize = 2
  MaxRuns = 2
INVARIANTS SkipsAreExplained RepeatsAreExplained AnalysisAgrees
CHECK_DEADLOCK FALSE
