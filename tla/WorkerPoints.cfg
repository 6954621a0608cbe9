SPECIFICATION PSpec

CONSTANTS
  Addr = {a1, lo}
  Local = {lo}
  MaxScore = 6
  BanTime = 2
  ResetTime = 3
  ConnectPoints = 1
  Points = {}
  Width = 16
  Worker = {w1, w2}
  KkdcpPoints = 1
  WrongPoints = 2
  MaxDue = 7

INVARIANTS
  PointsCounted

CHECK_DEADLOCK FALSE
