SPECIFICATION MCSpec
CONSTANTS
  Starts = 2
  Thresholds = {1, 2}
  FrameSamples = 1
  QueueSizes = {8, 16}
  MaxCommands = 2
  MaxWrites = 1
  None = None
  Partial = Partial
  SWAP_CHAIN_LEN = 2
  Frames = 7
  MaxSubmissions = 2
  ClockDivider = 3
  RenderTimeout = 5
  FramePeriod = 4
  MaxInstruction = 2
  MaxWait = 2
  Never = Never
  MaxTime = 16
INVARIANTS
  AudioIsBounded
  CardLossNeedsMishap
  OneSaveAfterStop
  SwapChainIsExact
  TimeIsKept
PROPERTIES
  ThreadGoesOn
  SkippingEnds
CHECK_DEADLOCK FALSE
