CONSTANTS
  seller = seller
  r1 = r1
  r2 = r2
  i1 = i1
  t1 = t1
  t2 = t2
  t3 = t3
  Members <- MCMembers
  Reporters <- OneReporter
  Items <- MCItems
  Owner <- MCOwner
  MaxQuantity = 1
  StrikeLimit = 1
  Txns <- TwoTxns
  Ops = {"create_item", "update_item", "delete_item", "create_trade", "update_trade", "moderate_listing", "create_report", "uphold_report", "set_trading_status"}
SPECIFICATION TxnSpec
CHECK_DEADLOCK FALSE
PROPERTY EveryRequestAnswered
