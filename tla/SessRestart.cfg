SPECIFICATION Spec
CONSTANTS
    Procs <- TwoProcs
    AgentOf <- SameAgent
    Agents = {a1}
    Jobs = {j1}
    Capacity = 1
    SendBuffer = 2
    MaxAttempts = 1
    Overlap = TRUE
    MaxClaims = 4
    MaxCancels = 0
    MaxReruns = 1
    MaxRevivals = 0
    MaxStale = 1
    MaxLosses = 0
    None = None
INVARIANTS
    TypeOK
    CapacityRespected
    ResultIsCurrent
CHECK_DEADLOCK FALSE
