\* A network whose EntangleHeight (2) is not MainNet's (3). The chain halts:
\* no block can be connected, so deadlock is not an error here.
CONSTANTS
  Outpoints <- MCOutpoints
  NullOut = "null"
  View <- MCView
  TxPool <- MCTxPool
  EntangleHeight = 2
  MainEntangleHeight = 3
  MaxSatoshi = 10
  MaxBlockSize = 1000
  HeightBits = 8
  MagneticAnomaly = TRUE
  MaxTxs = 2
  MaxHeight = 3
  MaxCrashes = 1
SPECIFICATION Spec
PROPERTIES ChainGrows
CHECK_DEADLOCK FALSE
