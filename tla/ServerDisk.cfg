\* One submission; the other parts rest.
SPECIFICATION MCSpec
CONSTANTS
  j1 = j1
  j2 = j2
  e1 = e1
  e2 = e2
  NoJob = NoJob
  Jobs = {j1}
  Enders = {e1}
  WanKinds = {"static", "dynamic", "missing"}
  SdnSites = {"src"}
  SdnTries = 2
  WanTries = 2
  PingTries = 2
  MaxLost = 0
  ByteJobs = {"j1"}
  NBlocks <- TwoAndOne
  BlockSize = 1
  CheckedJobs = {"j1"}
  ByteHandlers = {"h1"}
  MaxTransferRetry = 1
  MaxRepeats = 0
  MaxPolls = 0
  Posters = {"p1", "p2"}
  MaxPosts = 0
  Dtns = {"d1", "d2", "d3"}
  Storages = {"s1"}
  Launchers = {}
  Sdns = {}
  Attached <- SiteAttached
  NoNode = NoNode
  Dangling = Dangling
  CmdThreads = {"w"}
  MqttThread = "mqtt"
  CmdRequests <- SiteRequests
  AgentModules <- SiteAgents
  DtnRate <- SiteRates
  StorageRate0 = 9
  LinkRate = 4
  LeastRate = 3
  MaxChanges = 0
  MaxCommands = 0
  SubThreads = {"t1", "t2"}
  RawJobs <- SubmittedJobs
  GroupsOf <- SubmittedGroups
  FileSize <- SubmittedFiles
  DiskFree = 4
  MaxSubmits = 1
  MaxCrashes = 0
INVARIANT FitsDestination
CHECK_DEADLOCK FALSE
