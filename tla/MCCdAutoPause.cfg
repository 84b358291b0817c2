SPECIFICATION Spec
CONSTANTS
  HostCommands = {"Play", "SetMode"}
  Params <- AudioParams
  AsTime <- AudioAsTime
  AsMode <- AudioAsMode
  AsTrack <- AudioAsTrack
  AsFilter <- AsOne
  TestSupported <- AllSupported
  Invalid = Invalid
  None = None
  HasDisc = TRUE
  DiscEnd = 3
  TrackStart <- ThreeTracks
  TrackIndex1 <- ThreeTracks
  XaChannel <- NoXa
  AckMasks <- MCAckMasks
  EnableMasks <- MCAckMasks
  ReceiveStopped = 1
  ReceiveRunning = 2
  InitCycles = 2
  SpinUpCycles = 1
  SecondCycles <- MCSecondCycles
  MinSeekCycles = 1
  SectorsPerSeekCycle = 2
  SectorCycles <- MCSectorCycles
  PrepareSectors = 1
  SamplesPerSector = 2
  SectorsBetweenReports = 2
PROPERTIES
  AutoPausesAtTrackEnd
CHECK_DEADLOCK FALSE
