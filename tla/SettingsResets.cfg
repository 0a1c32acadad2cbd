SPECIFICATION FairSpec
CONSTANTS
  Bytes = {0, 1}
  Size = 3
  Default = 0
  TornBytes = {255}
  Disturbances = {"raw", "unlock", "dispatch"}
  MaxSaves = 2
  MaxResets = 2
INVARIANTS
  OldOrNew
  SavedStays
PROPERTIES
  Served
CHECK_DEADLOCK FALSE
