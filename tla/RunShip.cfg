CONSTANTS
    Stages <- ShipStages
    NotifyStage = 3
    Jobs <- ShipJobs
    StageOf <- ShipStageOf
    Needs <- ShipNeeds
    Trigger <- ShipTrigger
    Gates = {}
    RetryUnsafe <- ShipUnsafe
    Native = {"deploy"}
    Agents = {a1}
    NoAgent = NoAgent
    NoJob = NoJob
    MaxAttempts = 1
    MaxReruns = 0
    MaxCancels = 1
    MaxReclaims = 1
    MaxLosses = 1
SPECIFICATION FairSpec
INVARIANTS
    TypeOK
    OrderHonoured
    ClosedStageIsDrained
    RunVerdictSound
    NoWedgedRun
    NotifyFitsOutcome
PROPERTIES
    RunCloses
CHECK_DEADLOCK FALSE
