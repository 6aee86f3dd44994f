SPECIFICATION FairSpec
CONSTANTS
    Procs <- TwoProcs
    AgentOf <- SameAgent
    Agents = {a1}
    Jobs = {j1}
    Capacity = 1
    SendBuffer = 2
    MaxAttempts = 1
    Overlap = FALSE
    MaxClaims = 4
    MaxCancels = 1
    MaxReruns = 0
    MaxRevivals = 0
    MaxStale = 0
    MaxLosses = 0
    None = None
PROPERTIES
    CancelSettles
CHECK_DEADLOCK FALSE
