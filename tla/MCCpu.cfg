SPECIFICATION MCSpec
CONSTANTS
  ByteSize = 8
  Registers <- MCRegisters
  Link = 31
  SegmentSize = 128
  Lines = 2
  Decode <- MCDecode
  Starts <- MCStarts
  MemoryOf <- MCMemoryOf
  ExceptionVector = 160
  BootExceptionVector = 256
  CacheControlAddress = 4092
  IrqAck = 24
  MaxIrqs = 1
  UnalignedData = {0, 1, 64, 1234, 2047, 3501}
INVARIANTS
  FetchIsCurrent
  UnalignedWordsAreWhole
PROPERTIES
  ProgramUndisturbed

