SPECIFICATION MCSpec
CONSTANTS
  Parts = {"commands", "keys", "loops", "irq", "sweep", "noise", "mdec", "wgpu"}
  LevelBits = 5
  UnitShift = 1
  MaxShift = 2
  SoundBlocks = 3
  SamplesPerBlock = 3
  PitchUnit = 2
  MaxPitchStep = 4
  CaptureLen = 2
  ReverbStart = 2
  NoisePeriods <- MCNoisePeriods
  Rates = {3, 9}
  Volumes <- MCVolumes
  NoiseShifts = {0, 1}
  NoiseSteps = {0, 3}
  TileCount = 3
  SyncDelay = 2
  MaxDraws = 4
  TileWidth = 4
  Texels = 8
  PaletteUnit = 2
  LongPalette = 4
  Triangles <- MCTriangles
  Rectangles <- MCRectangles
  Areas = {{1, 2}}
  Blits <- MCBlits
  Copies <- MCCopies
  Commands <- MCCommands
  Sizes = {1, 3, 4}
  RegisterWrites <- MCRegisterWrites
  MaxCommands = 2
  MaxWords = 12
INVARIANTS
  InStepWithSoftware
  VoicesObey
  PicturesAreWhole
  VramIsOne
PROPERTIES
  CommandsDrawWhatWasSent
  SoundRamIsObserved
  EnvelopesEnd
CHECK_DEADLOCK FALSE
