SPECIFICATION FairSpec
CONSTANTS
  SZ = 2
  CountMod = 8
  Family = "pic16"
  Uses = {"isr", "polled"}
  Prompt = FALSE
  TxBytes = 3
  RxBytes = 3
  MaxDepth = 3
INVARIANTS
  TxConserved
  RxConserved
PROPERTIES
  TransmitterIsFifo
  EverythingIsSent
  FlushDrains
CHECK_DEADLOCK FALSE
