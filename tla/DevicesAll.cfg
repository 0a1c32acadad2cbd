SPECIFICATION FairSpec
CONSTANTS
  Kinds = {"encoder", "debounce", "console", "bus", "tick", "pid", "lcd", "usb", "filter", "math", "fsm"}
  Gates = {0, 2}
  MaxTurn = 4
  MaxFaults = 2
  Windows = {0, 3}
  ClockMod = 8
  PollWithin = 2
  Letters = {"x", "y"}
  Commands <- MCCommands
  LineMax = 6
  MaxArgs = 2
  MaxKeys = 6
  MaxLen = 3
  MaxCalls = 2
  Base = 2
  Places = 3
  Phases = 3
  Targets = {1, 250, 1000, 1843, 2764, 5000, 12000}
  Delays = {0, 1, 3}
  Bits = 4
  Frac = 2
  Gains <- MCGains
  Rails <- MCRails
  Readings <- MCReadings
  Transports <- MCCallersOps
  MaxLcdCalls = 3
  RingSz = 2
  EpLen = 2
  UsbBytes = 3
  MaxBus = 2
  Counts = {1, 2, 3}
  Samples = {0, 3, 7, 15}
  WordBits = 4
  ExtraBits = 1
  MaxPushes = 5
  ByteBits = 4
  Families = {"pic16", "pic18"}
  Operands = {0, 1, 3, 15, 16, 127, 128, 240, 241, 255}
  Decimals = {0, 1, 5, 9, 10, 19, 45, 50, 90, 99}
  Table <- MCTable
  Start = "idle"
  MaxNest = 3
INVARIANTS
  EncoderDriftBounded
  ConsoleLines
  BusTransactions
  LcdShows
  NumbersExact
  PidKeepsRails
  FsmMoves
PROPERTIES
  DebounceReports
  TickTells
  PidControls
  
CHECK_DEADLOCK FALSE
