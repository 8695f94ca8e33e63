CONSTANTS
  Threads = {main, t1, t2}
  Main = main
  MaxLines = 3
  MaxReopens = 2
SPECIFICATION FairSpec
CHECK_DEADLOCK FALSE
INVARIANTS
  LineGoesToOpenFile
PROPERTIES
  IsAReadWriteLock
  CallsReturn
