SPECIFICATION FairSpec
CONSTANTS
  s1 = s1
  s2 = s2
  p1 = p1
  SID = {s1, s2}
  PID = {p1}
  NoPid = NoPid
  CookieTimeout = 1
  Slack = 1
  Persistent = TRUE
  BanEnabled = FALSE
  HasAcct = FALSE
  StrictWorkers = TRUE
  MainMayRefuse = FALSE
  MaxInUse = 2
INVARIANTS
  InUseExact
PROPERTIES
  UnusedCookieExpires
CHECK_DEADLOCK FALSE
