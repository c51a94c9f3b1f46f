CONSTANTS
  WorkBits = 16
  DigitBits = 2
  PowLimit <- MCPowLimit
  GenesisBits <- MCGenesisBits
  MedianBlocks = 3
  Deltas <- MCDeltas
  MaxHeight = 6
SPECIFICATION Spec
INVARIANTS NoRetargetPanic RetargetMeetable CompactRoundTrip
