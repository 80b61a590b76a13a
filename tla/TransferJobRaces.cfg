\* Two handlers and both timers over one sjob; every status is delivered once.
SPECIFICATION Spec
CONSTANTS
  SJobs = {s1}
  NBlocks = 2
  ChecksumBlocks = {}
  RetryLimit = 1
  Handlers = {h1, h2}
  NoSJob = NoSJob
  Overlap = TRUE
  MaxDup = 0
  MaxFail = 1
  MaxLeave = 0
  MaxRestart = 0
SYMMETRY HandlerSymmetry
INVARIANTS EndedHoldsNoPath FinishedIsDelivered
PROPERTIES MatchedOnce
CHECK_DEADLOCK FALSE
