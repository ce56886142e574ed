\* One recording, its callback sent twice, one text, two request threads.  When
\* everything is settled nobody asks for more: no deadlock check.
SPECIFICATION Spec
CONSTANTS
  spoken = spoken
  typed = typed
  w1 = w1
  w2 = w2
  tray = tray
  loaf = loaf
  Batches <- MCBatches
  CardOf <- MCCardOf
  Stages <- MCStages
  Done = 3
  NoStage = NoStage
  Commands <- MCCommands
  Texts <- MCTexts
  Lead <- MCLead
  To <- MCTo
  Also <- MCAlso
  Workers = {w1, w2}
  MaxPosts = 2
  MaxBoard = 2
  MayAbort = TRUE
CHECK_DEADLOCK FALSE
SYMMETRY MCSymmetry
INVARIANTS
  HeardOnce
PROPERTIES
  MovedAsHeard
  ExecutedIsWhole
