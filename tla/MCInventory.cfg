SPECIFICATION Spec
CONSTANTS
  Bins <- MCBins
  Method <- MCMethod
  StandardCost <- MCStandardCost
  AllowNegative <- MCAllowNegative
  LineLists <- MCLineLists
  Dates = {1, 2}
  Scale = 1
  MaxEvents = 4
  None = None
INVARIANTS TypeOK LedgerRebuildsBalances LayersCoverStock NoNegativeStock
INVARIANTS FifoValueIsLayers OldestLayerFirst ResidualIsRounding ReversalsBalanceQuantity
