\* A redelivered status, blocks without checksum.
SPECIFICATION Spec
CONSTANTS
  SJobs = {s1}
  NBlocks = 2
  ChecksumBlocks = {}
  RetryLimit = 1
  Handlers = {h1, h2}
  NoSJob = NoSJob
  Overlap = TRUE
  MaxDup = 1
  MaxFail = 0
  MaxLeave = 0
  MaxRestart = 0
SYMMETRY HandlerSymmetry
INVARIANTS FinishedIsDelivered
CHECK_DEADLOCK FALSE
