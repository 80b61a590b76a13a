\* A checksummed block, with one redelivered status.
SPECIFICATION Spec
CONSTANTS
  SJobs = {s1}
  NBlocks = 1
  ChecksumBlocks = {1}
  RetryLimit = 1
  Handlers = {h1, h2}
  NoSJob = NoSJob
  Overlap = TRUE
  MaxDup = 1
  MaxFail = 0
  MaxLeave = 0
  MaxRestart = 0
SYMMETRY HandlerSymmetry
INVARIANTS  RetryBound
CHECK_DEADLOCK FALSE
