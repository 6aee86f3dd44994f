CONSTANTS
    Stages <- ReleaseStages
    NotifyStage = 0
    Jobs <- ReleaseJobs
    StageOf <- ReleaseStageOf
    Needs <- NoNeeds
    Trigger <- AnyTrigger
    Gates = {"approve"}
    RetryUnsafe = {"deploy"}
    Native = {"deploy"}
    Agents = {a1}
    NoAgent = NoAgent
    NoJob = NoJob
    MaxAttempts = 1
    MaxReruns = 1
    MaxCancels = 1
    MaxReclaims = 1
    MaxLosses = 1
SPECIFICATION Spec
INVARIANTS
    DispatchBounded
    RunningIsOwned
    GatesNeverDispatched
PROPERTIES
    CancelHonoured
    FinishedIsFinal
    RowContract
CHECK_DEADLOCK FALSE
