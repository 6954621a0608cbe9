SPECIFICATION Spec

CONSTANTS
  SID = {s1}
  PID = {w1, w2}
  NoPid = NoPid
  CookieTimeout = 0
  Slack = 1
  Persistent = FALSE
  BanEnabled = FALSE
  HasAcct = FALSE
  StrictWorkers = TRUE
  MaxInUse = 3
  NoSid = NoSid
  IP = {a1, a2}
  NoIP = NoIP
  MaxSame = 0
  Scripts = TRUE
  DenyRoaming = TRUE
  Faults = TRUE
  Admin = TRUE
  MaxForks = 3

SYMMETRY Symmetry

INVARIANTS
  TypeOK

PROPERTIES
  ImplementsSecMod

CHECK_DEADLOCK FALSE
