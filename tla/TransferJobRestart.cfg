\* The server process ends once, the launching agent leaves once.
SPECIFICATION Spec
CONSTANTS
  SJobs = {s1}
  NBlocks = 2
  ChecksumBlocks = {2}
  RetryLimit = 0
  Handlers = {h1, h2}
  NoSJob = NoSJob
  Overlap = TRUE
  MaxDup = 0
  MaxFail = 0
  MaxLeave = 1
  MaxRestart = 1
SYMMETRY HandlerSymmetry
INVARIANT StrongInv
CHECK_DEADLOCK FALSE
