SPECIFICATION FairSpec
CONSTANTS
    Procs <- OneProc
    AgentOf <- SameAgent
    Agents = {a1}
    Jobs = {j1}
    Capacity = 1
    SendBuffer = 2
    MaxAttempts = 1
    Overlap = FALSE
    MaxClaims = 4
    MaxCancels = 0
    MaxReruns = 0
    MaxRevivals = 0
    MaxStale = 1
    MaxLosses = 0
    None = None
PROPERTIES
    FencedAgentReturns
CHECK_DEADLOCK FALSE
