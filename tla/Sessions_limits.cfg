SPECIFICATION Spec

CONSTANTS
  SID = {s1}
  PID = {w1, w2, w3}
  NoPid = NoPid
  CookieTimeout = 0
  Slack = 1
  Persistent = FALSE
  BanEnabled = TRUE
  HasAcct = FALSE
  StrictWorkers = TRUE
  MaxInUse = 3
  NoSid = NoSid
  IP = {a1, a2}
  NoIP = NoIP
  MaxSame = 1
  Scripts = TRUE
  DenyRoaming = FALSE
  Faults = FALSE
  Admin = FALSE
  MaxForks = 3

SYMMETRY Symmetry

INVARIANTS
  SameClientsBound
  LeasesDistinct

CHECK_DEADLOCK FALSE
