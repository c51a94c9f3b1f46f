CONSTANTS
  MaxHeight = 4
  EntangleHeight = 2
  CoinbaseMaturity = 2
  SubsidyReductionInterval = 2
  BaseSubsidy = 100
  MaxTxs = 1
  MaxIns = 2
  FeeChoices <- MCFees
  EntChoices <- MCEnt
  Slack <- MCSlack
  AnyMergeInputs = FALSE
  Missing = Missing
SPECIFICATION Spec
INVARIANTS MaturityBoundary PoolLedger MinerShareAfterEntangle
