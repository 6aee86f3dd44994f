CONSTANTS
    Stages <- ShipStages
    NotifyStage = 3
    Jobs <- ShipJobs
    StageOf <- ShipStageOf
    Needs <- ShipNeeds
    Trigger <- ShipTrigger
    Gates = {}
    RetryUnsafe <- ShipUnsafe
    Native = {}
    Agents = {a1}
    NoAgent = NoAgent
    NoJob = NoJob
    MaxAttempts = 0
    MaxReruns = 0
    MaxCancels = 1
    MaxReclaims = 0
    MaxLosses = 0
SPECIFICATION FairSpec
PROPERTIES NotificationsDrain
CHECK_DEADLOCK FALSE
