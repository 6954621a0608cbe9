SPECIFICATION Spec

CONSTANTS
  SID = {s1}
  PID = {w1, w2, w3}
  NoPid = NoPid
  CookieTimeout = 1
  Slack = 1
  Persistent = FALSE
  BanEnabled = FALSE
  HasAcct = FALSE
  StrictWorkers = TRUE
  MaxInUse = 3
  NoSid = NoSid
  IP = {a1, a2}
  NoIP = NoIP
  MaxSame = 0
  Scripts = FALSE
  DenyRoaming = FALSE
  Faults = FALSE
  Admin = FALSE
  MaxForks = 3

INVARIANTS
  CookiesUnique

CHECK_DEADLOCK FALSE
