CONSTANTS
  PreambleMin = 14
  BufLimit = 449
  DEMOD_BUFFER_LEN = 450
  ByteLen = 8
  CrcOk <- SdlcCrcOk
  Messages <- TwoBytes
  MaxBursts = 1
  MaxFlips = 0
SPECIFICATION LinkSpec
CHECK_DEADLOCK FALSE
INVARIANT
  HuntingBurstDelivered
