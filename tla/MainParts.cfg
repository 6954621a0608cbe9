SPECIFICATION BenchSpec
CHECK_DEADLOCK FALSE

CONSTANTS
  TProcs = {p1, p2}
  Addrs = {a1, a2, a3}
  Sids = {s1}
  NoAddr = NoAddr
  Elems = {1, 2, 3, 4}
  HashOf <- Hashes
  MaxBits = 3
  LProcs = {l1, l2}
  Hosts4 = 8
  Hosts6 = 4
  LowPart = 4
  SubnetSize = 2
  Hash4 <- Hash4Of
  Hash6 <- Hash6Of
  Seeds = {3}
  UdProcs = {d1, d2}
  CookieOf <- OneCookie
  TunNames = {1, 2}
  NoTun = 0
  UdConfs <- DeviceConfs
  Files <- CfFiles
  MaxAuth = 4
  MaxEdits = 2
  UcUsers = {"u", "v"}
  UcGroups = {"", "g"}
  NoUcGroup = ""
  UnsafeName = "../u"
  UcFiles <- UcFileSet
  NoUcFile = NoUcFile
  UcConfs <- UcHosts
  UcV6 = {"r6"}
  UcReplies <- UcReplySet
  MaxGroups = 3
  MaxUcEdits = 1
  CountMod = 4
  AuthSecs = {1, 3}
  SessionMins = {0, 2}
  SessionKb = {1, 3}
  StatMtus = {5}
  MaxStatSteps = 5
  CtClients = {"c1", "c2"}
  CtWorkers = {"p1", "p2"}
  CtUser <- CtUsers
  CtSid <- CtSids
  CtShort <- CtShorts
  CtOnline = {"p2"}
  CtIps = {"x"}
  CtFds = {1, 2}
  CtRuns <- CtCommands
  CtRoom = 1
  NoClient = "none"
  LkSids = {"s1", "s2"}
  LkUser <- LkOwners
  LkHome <- LkHomes
  LkCount = 2
  AsyncRoom = 1
  MaxAsks = 2
  Reporters = {}
  PwRuns = {"r1", "r2"}
  PwUsers = {"u", "v"}
  PwLines <- PwContents

INVARIANTS
  ProcsFound
  MembersKept
  AddressesOwned
  
  UserGetsOwn
  StatsAddUp
  CommandsExact
  
  


  
