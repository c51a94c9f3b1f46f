CONSTANTS
  Chains <- MCChains
  ForeignTx <- MCForeignTx
  Unknown = "none"
  Vouts = {0, 1}
  Amounts = {4, 5}
  ClaimedHeights = {0, 10}
  Clients = {1, 2}
  StartCount = 24
  MaxCount = 25
  MaxBlocks = 1
  MaxTxs = 2
  MaxItems = 1
  HasCache = FALSE
SPECIFICATION Spec
INVARIANT EntangleOrdered
