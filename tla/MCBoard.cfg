\* Three stages (queue, one working stage, done), two request threads.  The board
\* and its page rest when nobody asks for anything more: no deadlock check.
SPECIFICATION MCSpec
CONSTANTS
  o1 = o1
  o2 = o2
  w1 = w1
  w2 = w2
  oven = oven
  s1 = s1
  s2 = s2
  NoUnit = NoUnit
  Batches <- MCBatches
  Orders <- MCOrders
  OrderOf <- MCOrderOf
  Grouped <- MCOneCard
  LastStage = 3
  Units = {oven}
  StageOf <- MCStageOf
  Workers = {w1, w2}
  MaxRequests = 4
  MaxCards = 2
  Lanes = {"a", "b"}
  Pools = {"a"}
  Slots <- MCSlots
  MaxChanges = 2
  MaxUses = 2
CHECK_DEADLOCK FALSE
SYMMETRY MCSymmetry
INVARIANTS
  UnitsAreNotShared
  ReadyMeansFinished
  CaughtUp
PROPERTIES
  LastBatchFinishesOrder
