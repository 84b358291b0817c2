SPECIFICATION Spec
CONSTANTS
  EventTypes = {VBlank, SpuAndCdClock, ProcessDma, Timer0Irq, Sio0Irq, Sio0Tx}
  DefaultType = VBlank
  Times <- MCTimes
  Capacity = 6
  Never = 9
INVARIANTS
  PeekIsEarliest
PROPERTIES
  ImplementsQueue
SYMMETRY MCSymmetry
