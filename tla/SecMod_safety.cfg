SPECIFICATION Spec
CONSTANTS
  s1 = s1
  s2 = s2
  p1 = p1
  SID = {s1, s2}
  PID = {p1}
  NoPid = NoPid
  CookieTimeout = 1
  Slack = 1
  Persistent = FALSE
  BanEnabled = TRUE
  HasAcct = TRUE
  StrictWorkers = FALSE
  MainMayRefuse = TRUE
  MaxInUse = 2
SYMMETRY Symmetry
INVARIANTS
  TypeOK
  InUseCoversHeld
  AcctPaired
PROPERTIES
  HeldEntrySurvives
  FailedIsFinal
CHECK_DEADLOCK FALSE
