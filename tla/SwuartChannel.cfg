SPECIFICATION FairSpec
CONSTANTS
  Uses = {"tx", "rx"}
  CycleMod = 50
  Bit = 4
  Lead = 2
  Latency = 1
  MainTicks = 1
  SZ = 2
  CountMod = 8
  Values = {75, 180}
  MaxBytes = 3
INVARIANTS
  HeardIsWritten
  RxFaithful
PROPERTIES
  AllIsHeard
CHECK_DEADLOCK FALSE
