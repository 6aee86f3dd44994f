CONSTANTS
    Stages <- GatedStages
    NotifyStage = 0
    Jobs <- GatedJobs
    StageOf <- GatedStageOf
    Needs <- GatedNeeds
    Trigger <- AnyTrigger
    Gates = {"approve"}
    RetryUnsafe = {}
    Native = {}
    Agents = {a1}
    NoAgent = NoAgent
    NoJob = NoJob
    MaxAttempts = 0
    MaxReruns = 0
    MaxCancels = 0
    MaxReclaims = 0
    MaxLosses = 0
SPECIFICATION Spec
INVARIANTS NoWedgedRun
CHECK_DEADLOCK FALSE
