SPECIFICATION Spec
CONSTANTS
  SZ = 2
  CountMod = 8
  SoftValues = {75, 180}
  SoftBytes = 3
  TxBytes = 4
  MaxDepth = 3
INVARIANT SomeTransmitterClaimHolds
VIEW View
CHECK_DEADLOCK FALSE
