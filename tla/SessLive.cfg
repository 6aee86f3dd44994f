SPECIFICATION LiveSpec
CONSTANTS
    Procs <- TwoProcs
    AgentOf <- SameAgent
    Agents = {a1}
    Jobs = {j1}
    Capacity = 2
    SendBuffer = 2
    MaxAttempts = 1
    Overlap = FALSE
    MaxClaims = 4
    MaxCancels = 0
    MaxReruns = 0
    MaxRevivals = 0
    MaxStale = 0
    MaxLosses = 1
    None = None
INVARIANTS
    SessionImpliesOnline
PROPERTIES
    JobsSettle
    CancelSettles
    SingleSlotReturns
CHECK_DEADLOCK FALSE
