CONSTANTS
  card = card
  foil = foil
  plain = plain
  p1 = p1
  p2 = p2
  doc = doc
  doc2 = doc2
  t1 = t1
  t2 = t2
  Ids = {1, 2}
  Printings <- MCPrintings
  Variants <- TwoVariants
  PreviewIds <- MCPreviewIds
  Sources <- MCSources
  Csv <- MCCsv
  Txns <- TwoTxns
  Ops <- ImportOps
  Unlisted = {}
  Amounts = {1}
  MaxQuantity = 2
  MaxRevision = 2
SPECIFICATION TxnSpec
SYMMETRY ImportSymmetry
CHECK_DEADLOCK FALSE
PROPERTIES ImplementsCollection NoLostEdit
