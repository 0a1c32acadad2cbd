SPECIFICATION FairSpec
CONSTANTS
  MaxTasks = 2
  Periods = {0, 1, 3}
  Priorities = {0, 1}
  TickModulus = 1
INVARIANTS
  RoundTasksCallable
  RoundInPriorityOrder
  OneShotRunsOnce
PROPERTIES
  SpacingExact
  ImplementsRounds
  DueIsServed
