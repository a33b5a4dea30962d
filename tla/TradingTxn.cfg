CONSTANTS
  seller = seller
  r1 = r1
  r2 = r2
  i1 = i1
  t1 = t1
  t2 = t2
  t3 = t3
  Members <- MCMembers
  Reporters <- TwoReporters
  Items <- MCItems
  Owner <- MCOwner
  MaxQuantity = 2
  StrikeLimit = 2
  Txns <- TwoTxns
  Ops <- AllOps
SPECIFICATION TxnSpec
SYMMETRY SymmetryTwo
CHECK_DEADLOCK FALSE
INVARIANTS TxnInv
PROPERTIES ImplementsTrading NoLostUpdate
