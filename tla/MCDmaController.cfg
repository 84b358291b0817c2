SPECIFICATION FairSpec
CONSTANTS
  Channels = {1, 2, 6}
  MaxUnits = 1
  MaxAdvance = 1
  ControlWrites <- MCControlWrites
  InterruptWrites <- MCInterruptWrites
  BurstWait <- MCBurstWait
  BlockWait <- MCBlockWait
  BlockDelay <- MCBlockDelay
  PollDelay = 2
  NodeDelay = 1
  NoEvent = NoEvent
INVARIANTS
  TransfersAreScheduled
  CpuPaysForBus
PROPERTIES
  TransfersComplete
  HighestPriorityProceeds
  CompletionIsReported
CHECK_DEADLOCK FALSE
