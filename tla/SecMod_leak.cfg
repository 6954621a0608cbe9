SPECIFICATION FairSpec
CONSTANTS
  s1 = s1
  p1 = p1
  SID = {s1}
  PID = {p1}
  NoPid = NoPid
  CookieTimeout = 1
  Slack = 1
  Persistent = FALSE
  BanEnabled = FALSE
  HasAcct = FALSE
  StrictWorkers = TRUE
  MainMayRefuse = TRUE
  MaxInUse = 2
PROPERTIES
  UnusedCookieExpires
CHECK_DEADLOCK FALSE
