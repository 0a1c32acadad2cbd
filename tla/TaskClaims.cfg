SPECIFICATION ClaimsSpec
CONSTANTS
  MaxTasks = 2
  Periods = {0, 1}
  Priorities = {0, 255}
  TickModulus = 2
INVARIANTS
  SomeSchedulerClaimHolds
