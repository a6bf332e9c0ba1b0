CONSTANTS
  Chunks = 5
  HighWater = 2
CHECK_DEADLOCK FALSE
SPECIFICATION StreamFairSpec
INVARIANTS DoneIsWhole
PROPERTIES ReportedOnce TransferSettles
