SPECIFICATION MCSpec
CONSTANTS
  FifoLen = 4
  Values = {0, 1, 2}
  Zero = 0
  TransferCycles = 3
  AckCycles = 2
  RxLen = 1
  Inputs = {"pressed", "released"}
  InitialInputs = "released"
  CardSectorLen = 2
  CardSectors = {0, 256}
  NoEvent = NoEvent
  MaxAdvance = 4
  MaxBehind = 4
  None = None
INVARIANTS
  PortIsOnTime
  ConversationsAreWhole
  ConfirmedWritesAreKept
  DiscReadsTrue
PROPERTIES
  RingImplementsQueue
  Settles
