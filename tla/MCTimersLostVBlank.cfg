SPECIFICATION Spec
CONSTANTS
  MaxCount = 1
  NoIrq = NoIrq
  NoEvent = NoEvent
  CpuClock = 2
  GpuClock <- Hz
  CyclesPerLine <- MCCyclesPerLine
  LinesPerFrame <- MCLinesPerFrame
  RetraceCycles = 17
  SlowDivider = 2
  InitGpu <- MCInitGpu
  ModeWrites = {}
  TargetWrites = {}
  CounterWrites = {}
  HorizontalRanges = {}
  VerticalRanges <- SameY2
  DisplayModes = {}
  MaxAdvance = 1
  MaxBehind = 24
  ModeReads = {}
INVARIANTS
  VBlankWhileRangeValid
