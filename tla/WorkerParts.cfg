SPECIFICATION BenchSpec
CHECK_DEADLOCK FALSE

CONSTANTS
  WaConfigs <- WaSettings
  GroupNames = {"g1", "g2", "f1"}
  NoGroup = "nogroup"
  MaxRequests = 3
  Fds = {f1, f2, f3}
  NoFd = NoFd
  Timeouts <- TnTimeouts
  LzByte = 4
  LzExtra = 1
  LzInputs <- LzAll
  LzMissing = {0, 1}
  NgConfs <- NgConfSet
  NgEarlier <- NgEarlierSet
  NgOffers <- NgOfferSet
  Browsers = {"a1", "a2", "a3"}
  OidcInstances = {0}
  AssignedTo <- OiAssigned
  MaxPending = 2
  MaxPendingPerIp = 1
  LoginTimeout = 2
  ClaimTimeout = 1
  MinRefresh = 1
  OidcModes = {"browser", "bearer"}
  IdTokens <- OiTokens
  Documents <- OiDocuments
  MaxLogins = 2
  MaxClock = 2
  AmConfigs <- AmSettings
  AmPrompts = {"", "p", "q"}
  NoName = "noname"
  MaxTries = 3
  MaxChallenges = 2
  MaxRounds = 5
  AcWorkers = {w1, w2}
  Causes = {"user"}
  Word = 2
  MaxBytes = 1
  MaxAcClock = 1

INVARIANTS
  
  ChannelsKept
  Lossless
  BestIsChosen
  
  
  
