CONSTANTS
  MaxHeight = 3
  EntangleHeight = 2
  CoinbaseMaturity = 2
  SubsidyReductionInterval = 2
  BaseSubsidy = 100
  MaxTxs = 2
  MaxIns = 1
  FeeChoices <- MCFees
  EntChoices <- MCEnt
  Slack <- MCNoSlack
  AnyMergeInputs = FALSE
  Missing = Missing
SPECIFICATION Spec
INVARIANT NoDoubleSpend
