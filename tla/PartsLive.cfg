SPECIFICATION BenchSpec
CHECK_DEADLOCK FALSE

CONSTANTS
  Addr = {a1, lo}
  Local = {lo}
  MaxScore = 4
  BanTime = 2
  ResetTime = 3
  ConnectPoints = 1
  Points = {0, 3, 7}
  Width = 8
  TcSlots = {1, 2, 3}
  Ids = {i1, i2}
  Peers = {a1, a2}
  Vhosts = {v1}
  Default = NULL
  Limits = {1, 2}
  MaxRenewals = 1
  MaxSeconds = 3
  MinMtu = 3
  BufSize = 12
  Slack = 1
  Overhead = 1
  Mtu6 = 4
  ConfMtus = {5, 9, 12}
  PeerMtus = {0, 2, 10}
  PathMtus = {2, 4, 7}
  MaxEvents = 3
  CtClients = {"c1", "c2"}
  CtWorkers = {"p1"}
  CtUser <- CtUsers
  CtSid <- CtSids
  CtShort <- CtShorts
  CtOnline = {}
  CtIps = {"x"}
  CtFds = {1, 2}
  CtRuns <- CtCommands
  CtRoom = 1
  NoClient = "none"

INVARIANTS
  BanKept
  BanNotProlonged

PROPERTIES
  BanEnds
  CacheKept
  FilesServed
  
  ClientsServed
