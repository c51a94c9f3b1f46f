\* A peer sends a block whose second transaction has no inputs.
CONSTANTS
  Outpoints <- MCOutpoints
  NullOut = "null"
  View <- MCView
  TxPool <- MCTxPool
  EntangleHeight = 2
  MainEntangleHeight = 2
  MaxSatoshi = 10
  MaxBlockSize = 1000
  HeightBits = 8
  MagneticAnomaly = TRUE
  MaxTxs = 2
  MaxHeight = 3
  MaxCrashes = 1
SPECIFICATION Spec
INVARIANTS NoSanityPanic
