SPECIFICATION Spec
CONSTANTS
  HostCommands = {"Init", "Stop", "MotorOn", "GetId", "Pause", "SeekL", "ReadToc", "Play",
                  "SetMode", "GetLocP"}
  Params <- AudioParams
  AsTime <- AudioAsTime
  AsMode <- AudioAsMode
  AsTrack <- AudioAsTrack
  AsFilter <- AsOne
  TestSupported <- AllSupported
  Invalid = Invalid
  None = None
  HasDisc = TRUE
  DiscEnd = 3
  TrackStart <- ThreeTracks
  TrackIndex1 <- ThreeTracks
  XaChannel <- NoXa
  AckMasks <- MCAckEither
  EnableMasks <- MCEnableMasks
  ReceiveStopped = 1
  ReceiveRunning = 2
  InitCycles = 2
  SpinUpCycles = 1
  SecondCycles <- MCSecondCycles
  MinSeekCycles = 1
  SectorsPerSeekCycle = 2
  SectorCycles <- MCSectorCycles
  PrepareSectors = 1
  SamplesPerSector = 2
  SectorsBetweenReports = 2
INVARIANTS
  OnlyAcksAndAudioOverwrite
PROPERTIES
  EveryInterruptRaisedOnce
CHECK_DEADLOCK FALSE
