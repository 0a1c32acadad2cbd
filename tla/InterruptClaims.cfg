SPECIFICATION ClaimsSpec
CONSTANTS
  Byte = 8
  Benches <- ClaimBenches
  MaxCalls = 3
  MaxEvents = 9
  MaxOthers = 1
  MaxRaised = 2
INVARIANT SomeInterruptClaimHolds
VIEW View
CHECK_DEADLOCK FALSE
