CONSTANTS
    f1 = f1
    f2 = f2
    MapThreads = {m1, m2}
    SystemLines <- MCSystemLines
    Pushes <- MCPushes
    MaxPushes = 3
    MaxMapCrash = 1
    Trees <- MCTrees
    GroupRoot <- MCGroupRoot
    Orders <- MCOrders
    GroupSizes = {1, 2, 3, 4}
    GroupCounts = {0, 1, 2}
    NoInput = NoInput
    SourceThreads = {f1, f2}
    TargetThread = f3
    SourceDisk <- MCSource
    TargetDisk <- MCTarget
    DirOrder <- MCDirOrder
    NameOrder <- MCNameOrder
    DataFolders <- MCFolders
    Users = {"u"}
    DstPath <- MCDst
    MaxGroupSize = 3
    MaxGroupFiles = 0
    ParentList = TRUE
    Requests <- MCRequests
    MaxRequests = 1
    ChecksumThreads = 2
    SizeThreshold = 0
    Fragile <- MCFragile
    MaxCorrupt = 1
    Configs <- MCConfigs
    Mounts <- MCMounts
    Unwritable <- MCUnwritable
    Mac <- MCMac
    MaxStarts = 2
    MaxCommands = 1
    Scanners = {n1, n2}
    Readers = {r1}
    Osts = 2
    Rounds = 2
    Rates = {1, 2}
    IostatOutputs <- MCIostat
    ScanOutputs <- MCScanOutputs
    MaxScans = 1
    MaxMeasures = 2
    MaxReads = 1
    HostThreads = {h1, h2}
    RouteKeys = {k1}
    BadKey = kbad
    MaxFds = 2
    MaxHostCmds = 3
    MkdirUsers = {u1, u2}
    NoUser = unone
    Dirs = {d1}
    Orphan = dorphan
    Modulus = 65536
    QuotaBlock = 4
    DiskRequests <- MCDiskRequests
SPECIFICATION MCSpec
INVARIANTS
      GroupsPartition
    VerifyTruth TasksBounded 
    StorageAgrees RatesMeasured 

     
CHECK_DEADLOCK FALSE
