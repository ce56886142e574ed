SPECIFICATION FairSpec
CONSTANTS
  c1 = c1
  p2 = p2
  p1 = p1
  Clips <- MCClips
  MaxTasks = 2
  Phones <- MCPhones
  Slots = 1
  Tries = 3
  MaxAsks = 2
  MaxRestarts = 2
INVARIANT OneTaskPerRecording
PROPERTIES CompletedStays PoolMovesOn
CHECK_DEADLOCK FALSE
