SPECIFICATION Spec
CONSTANTS
  o1 = o1
  o2 = o2
  r1 = r1
  r2 = r2
  Orders <- MCOrders
  MaxItems = 2
  Week = 1
  Days <- MCDays
  Requests <- MCRequests
  MaxConfirms = 3
INVARIANTS OneCardPerNumber
SYMMETRY MCSymmetry
CHECK_DEADLOCK FALSE
