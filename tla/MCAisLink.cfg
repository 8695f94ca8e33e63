CONSTANTS
  PreambleMin = 14
  BufLimit = 40
  DEMOD_BUFFER_LEN = 41
  ByteLen = 8
  CrcOk <- SdlcCrcOk
  Messages <- ManyBytes
  MaxBursts = 2
  MaxFlips = 1
SPECIFICATION LinkSpec
CHECK_DEADLOCK FALSE
INVARIANTS
  BufferInBounds
  EndsAtFlag
  CleanBurstDelivered
  NothingInvented
PROPERTIES
  StartsAtFlag
  FramesAccounted
