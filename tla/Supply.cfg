CONSTANTS
  MaxHeight = 2
  EntangleHeight = 2
  CoinbaseMaturity = 2
  SubsidyReductionInterval = 2
  BaseSubsidy = 100
  MaxTxs = 0
  MaxIns = 1
  FeeChoices <- MCFees
  EntChoices <- MCEnt
  Slack <- MCSlack
  AnyMergeInputs = FALSE
  Missing = Missing
SPECIFICATION Spec
INVARIANT SupplyBounded
