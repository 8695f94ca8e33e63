CONSTANTS
  Ships = {1}
  Values = {"a", "b"}
  mysql_keepsmall = TRUE
  mysql_oldlimit = 1
  DeleteEvery = 2
  MaxMsgs = 3
  MaxTime = 4
  Null = Null
SPECIFICATION Spec
CHECK_DEADLOCK FALSE
INVARIANTS
  DatabaseIsCurrent
  ReconnectsAtTheSecond
PROPERTY RecentRowsKept
