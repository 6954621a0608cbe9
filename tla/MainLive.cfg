SPECIFICATION BenchSpec
CHECK_DEADLOCK FALSE

CONSTANTS
  Tcp = {t1}
  Udp = {u1}
  Procs = {p1, p2}
  Instances = {i1}
  MlNone = MlNone
  MaxGen = 2
  LimitOf <- FileLimits
  BadVersions = {3}
  RateLimit = TRUE
  DrainOf <- FileDrains
  LkSids = {"s1"}
  LkUser <- LkOwners
  LkHome <- LkHomes
  LkCount = 1
  AsyncRoom = 1
  MaxAsks = 3
  Reporters = {0}

INVARIANTS
  ConfigInUseKept

PROPERTIES
  LoopGoesOn
  BlockedSendEnds
