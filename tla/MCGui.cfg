CONSTANTS
  Ships = {s1, s2}
  Positions = {p1, p2}
  MAXSHIPS = 2
  ReadLen = 16
  SockLen = 20
  MaxMsgs = 4
  Junk = Junk
SPECIFICATION Spec
SYMMETRY Symmetry
CHECK_DEADLOCK FALSE
INVARIANTS
  ShowsOnlyReports
  ShowsLatest
