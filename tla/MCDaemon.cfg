CONSTANTS
  Clients = {1, 2, 3}
  Limit = 2
  SockLen = 1
  MaxSentences = 2
  None = None
  Null = Null
  MaxStarts = 2
  Templates <- MCTemplates
  Given <- MCGiven
  UserTexts <- MCUserTexts
  CommandLines <- MCCommandLines
SPECIFICATION FairSpec
CHECK_DEADLOCK FALSE
INVARIANTS
  StreamIsComplete
  SocketComesUp
  UserConfigKept
  ConfigIsWhatFileSays
  HalfCopyNotRead
  FreedAfterUse
PROPERTIES
  ConnectedIsServed
  ShutdownCompletes
