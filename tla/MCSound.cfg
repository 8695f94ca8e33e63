CONSTANTS
  BufferLen = 5
  FilterLength = 2
  Samples = {0, 1}
  Silence = 0
  FILTERED_LEN = 2
  BlockLen = 2
  Periods = {2, 3}
  WarnGap = 2
  LevelLogs = {0, 1, 3}
  StatsInterval = 2
  MaxBack = 1
SPECIFICATION SoundSpec
CHECK_DEADLOCK FALSE
INVARIANTS
  WindowInBuffer
  HearsItsChannel
  AbortsOnLongPeriodsOnly
PROPERTIES
  SlidesLikeAWindow
  LevelIsReported
