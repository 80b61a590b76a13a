CONSTANTS
    Callers = {c1, c2}
    MaxCalls = 1
    Kinds = {"sync", "posted", "empty", "unknown"}
    Workers = 1
    MaxDup = 1
    MaxLost = 1
    NoCall = NoCall
    PingCallers = {p1}
    Slots = {s1, s2}
SPECIFICATION MCSpec
INVARIANTS TableIsPending AnsweredWasRun 
PROPERTIES CallsComplete 
CHECK_DEADLOCK FALSE
