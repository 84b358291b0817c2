SPECIFICATION MCSpec
CONSTANTS
  \* A two-bit counter, and catch-ups long enough to wrap twice.
  MaxCount = 3
  TimerClocks = 9
  NoIrq = NoIrq
  NoEvent = NoEvent
  CpuClock = 2
  GpuClock <- MCGpuClock
  CyclesPerLine <- MCCyclesPerLine
  LinesPerFrame <- MCLinesPerFrame
  RetraceCycles = 17
  SlowDivider = 2
  InitGpu <- MCInitGpu
  ModeWrites <- MCModeWrites
  TargetWrites <- MCTargetWrites
  CounterWrites <- MCCounterWrites
  HorizontalRanges <- MCHorizontalRanges
  VerticalRanges <- MCVerticalRanges
  DisplayModes <- MCDisplayModes
  ModeReads = {2}
  MaxAdvance = 2
  MaxBehind = 20
INVARIANTS
  CountsAndPredicts
  VideoClockIsExact
  CpuTimerIsExact
  SyncedStandStill
VIEW MCView
ACTION_CONSTRAINT ShorterBounds
