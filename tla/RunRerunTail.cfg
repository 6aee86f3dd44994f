CONSTANTS
    Stages <- ReleaseStages
    NotifyStage = 0
    Jobs <- ChainJobs
    StageOf <- ChainStageOf
    Needs <- NoNeeds
    Trigger <- AnyTrigger
    Gates = {}
    RetryUnsafe = {}
    Native = {}
    Agents = {a1}
    NoAgent = NoAgent
    NoJob = NoJob
    MaxAttempts = 0
    MaxReruns = 1
    MaxCancels = 0
    MaxReclaims = 0
    MaxLosses = 0
SPECIFICATION Spec
INVARIANTS RevivedTailIsCulled
CHECK_DEADLOCK FALSE
