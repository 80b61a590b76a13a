\* Two sjobs between the same DTNs with two threads tearing down; two counted sjobs with a
\* redelivered report; two posters; a worker and the MQTT thread with three changes of the
\* site; two submissions of a raw job with one crash.
SPECIFICATION MCSpec
CONSTANTS
  j1 = j1
  j2 = j2
  e1 = e1
  e2 = e2
  NoJob = NoJob
  Jobs = {j1, j2}
  Enders = {e1, e2}
  WanKinds = {"static", "dynamic", "missing"}
  SdnSites = {"src"}
  SdnTries = 2
  WanTries = 2
  PingTries = 2
  MaxLost = 1
  ByteJobs = {"j1", "j2"}
  NBlocks <- TwoAndOne
  BlockSize = 1
  CheckedJobs = {"j1"}
  ByteHandlers = {"h1"}
  MaxTransferRetry = 1
  MaxRepeats = 1
  MaxPolls = 2
  Posters = {"p1", "p2"}
  MaxPosts = 2
  Dtns = {"d1", "d2", "d3"}
  Storages = {"s1"}
  Launchers = {}
  Sdns = {}
  Attached <- SiteAttached
  NoNode = NoNode
  Dangling = Dangling
  CmdThreads = {"w"}
  MqttThread = "mqtt"
  CmdRequests <- SiteRequests
  AgentModules <- SiteAgents
  DtnRate <- SiteRates
  StorageRate0 = 9
  LinkRate = 4
  LeastRate = 3
  MaxChanges = 3
  MaxCommands = 2
  SubThreads = {"t1", "t2"}
  RawJobs <- SubmittedJobs
  GroupsOf <- SubmittedGroups
  FileSize <- SubmittedFiles
  DiskFree = 4
  MaxSubmits = 2
  MaxCrashes = 1
INVARIANTS
  LeftIsLost ActiveIsComplete
   FinishedExact
  AloneGetsOwn
  EndsForWantOfNode SteadyDtnsServed ProvidesAskedRate
  SjobsWhole SubmittedOnce FailedSubmitsNothing
PROPERTY ImplementsLifecycle
CHECK_DEADLOCK FALSE
