SPECIFICATION Spec
CONSTANTS
  Char = 5
  TickLen = 2
  PollMax = 2
  Pause = 7
  MaxAdu = 13
  Slave = 7
  NumCoils = 3
  NumInputs = 1
  NumHolding = 4
  Requests <- MCRequests
  MaxFrames = 2
INVARIANTS
  FramesGathered
  OnceInOrder
  ReadsSeeWrites
PROPERTIES
  RefusedChangesNothing
CHECK_DEADLOCK FALSE
