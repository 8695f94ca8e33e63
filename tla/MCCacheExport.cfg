CONSTANTS
  Vessels = {1}
  Uplinks = 1
  Ticks = 1
  MaxMsgs = 3
  None = None
SPECIFICATION FairSpec
CHECK_DEADLOCK FALSE
INVARIANTS
  NoUseAfterFree
  SentInOrder
  ExportIsCurrent
PROPERTIES
  NoFactVanishes
  PositionExported
  ShutdownCompletes
