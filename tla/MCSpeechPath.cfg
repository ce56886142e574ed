SPECIFICATION FairSpec
CONSTANTS
  MaxTaps = 3
  MaxLeaves = 1
  Texts <- MCTexts
  MaxCrashes = 1
INVARIANTS CarriedOutOnce OneDispatch
PROPERTY ButtonUnlocks
CHECK_DEADLOCK FALSE
