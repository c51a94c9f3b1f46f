CONSTANTS
  Chains <- MCChains
  ForeignTx <- MCForeignTx
  Unknown = "none"
  Vouts = {0, 1, 2}
  Amounts = {4, 5}
  ClaimedHeights = {0, 10}
  Clients = {1, 2}
  StartCount = 24
  MaxCount = 25
  MaxBlocks = 2
  MaxTxs = 1
  MaxItems = 2
  HasCache = FALSE
SPECIFICATION Spec
INVARIANTS CreditsMatchDeposits
