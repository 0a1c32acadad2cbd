SPECIFICATION Spec
CONSTANTS
  Byte = 8
  Benches <- MCBenches
  MaxCalls = 3
  MaxEvents = 3
  MaxOthers = 1
INVARIANTS ConfiguredAsAsked ReadsAreTrue CallbacksAreOwed
PROPERTIES ShutStaysShut CallsReturn
CHECK_DEADLOCK FALSE
