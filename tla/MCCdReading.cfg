SPECIFICATION MCSpec
CONSTANTS
  HostCommands = {"SetLoc", "ReadN", "SetMode", "Pause", "GetLocL", "Mute", "Test"}
  Params <- DataParams
  AsTime <- DataAsTime
  AsMode <- DataAsMode
  AsTrack <- AsOne
  AsFilter <- AsOne
  TestSupported <- AllSupported
  Invalid = Invalid
  None = None
  HasDisc = TRUE
  DiscEnd = 3
  TrackStart <- OneTrack
  TrackIndex1 <- OneTrack
  XaChannel <- DataXaChannel
  AckMasks <- MCAckMasks
  EnableMasks <- MCAckMasks
  ReceiveStopped = 1
  ReceiveRunning = 2
  InitCycles = 2
  SpinUpCycles = 1
  SecondCycles <- MCSecondCycles
  MinSeekCycles = 1
  SectorsPerSeekCycle = 2
  SectorCycles <- MCSectorCycles
  PrepareSectors = 1
  SamplesPerSector = 2
  SectorsBetweenReports = 2
INVARIANTS
  NoResponseOverwritten
PROPERTIES
  PoliteCommandsAreExecuted
  XaSectorsStayInside
  SectorsInOrder
CHECK_DEADLOCK FALSE
