SPECIFICATION FairSpec
CONSTANTS
  Systems = {"pic16", "pic18", "pic18_locks", "pic18_low", "pic18_poll"}
  MaxEvents = 2
INVARIANTS
  OneCallbackPerEvent
  LockedOut
PROPERTIES
  EnabledIsServed
CHECK_DEADLOCK FALSE
