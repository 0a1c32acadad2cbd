SPECIFICATION Spec
CONSTANTS
  Delays = {0, 1, 3}
  Operands = {1, 3, 16, 127, 240}
INVARIANT SomeDeviceClaimHolds
VIEW View
CHECK_DEADLOCK FALSE
