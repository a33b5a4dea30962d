CONSTANTS
  seller = seller
  r1 = r1
  r2 = r2
  i1 = i1
  i2 = i2
  Members <- MCMembers
  Reporters <- MCReporters
  Items <- MCItems
  Owner <- MCOwner
  MaxQuantity = 2
  StrikeLimit = 3
SPECIFICATION Spec
SYMMETRY MCSymmetry
CHECK_DEADLOCK FALSE
INVARIANTS TypeOK ListedWithinOwned CounterBehindStrikes LimitSuspends
PROPERTY SuspendedNeverRelists
