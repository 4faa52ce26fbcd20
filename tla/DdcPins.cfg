\* A monitor that may hold the clock past the timeout at any bit.
SPECIFICATION FairSpec
CONSTANTS
  Bits = 4
  Recoveries = 5
  Slow = TRUE
  SizeLimit = 3
  HighBit = 2
  MaxOutputs = 2
INVARIANTS WrittenAsSent ReadAsDriven BusFree RecoveryFrees
PROPERTIES DataStable CallReturns
