CONSTANTS
  card = card
  foil = foil
  plain = plain
  p1 = p1
  p2 = p2
  both = both
  single = single
  Ids = {1, 2}
  Printings <- MCPrintings
  Variants <- MCVariants
  PreviewIds <- MCPreviewIds
  Sources <- MCSources
  Csv <- MCCsv
  Unlisted <- Tuples
  Amounts = {1, 2}
  MaxQuantity = 2
  MaxRevision = 3
SPECIFICATION Spec
SYMMETRY MCSymmetry
CHECK_DEADLOCK FALSE
INVARIANTS TypeOK UniqueTuples OneOpenPreview PreviewExact
PROPERTY ReviewedIsApplied
