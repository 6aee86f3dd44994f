SPECIFICATION Spec
CONSTANTS
    Definitions <- GraphDefinitions
    NoEnv = NoEnv
    NoDefinition = NoDefinition
    LaneRuns = {1, 2}
    LaneDef <- LanePipeline
    Approvers = {u1, u2}
    Dispatchers = {d1}
    Nobody = Nobody
    LaneBudget = 1
    Waiting = {1, 2}
    Voters = {v1, v2}
    Required <- ApprovalQuorum
    AuthDisabled = TRUE
    NeverExpires = {1}
    EnvOf <- ApprovalEnvs
    MaxArms = 2
    MaxHolds = 1
    ScanCap = 1
    NobodyHolds = NobodyHolds
    Replicas = {r1, r2}
    MaxLives = 1
    MaxOutages = 1
    NoClaim = NoClaim
    SerialRuns = {q1, q2}
    LastStage = 2
    Schedulers = {s1, s2}
    MaxReopens = 1
    MaxSerialCancels = 1
    MaxSerialFaults = 1
    NoRun = NoRun
    Pauses = 2
    Watchers = {w1, w2}
    GateVoters = {u1, u2}
    GateQuorum = 2
    MaxMishaps = 1
    Outsiders = TRUE
    NoWatcher = NoWatcher
    NoGate = NoGate
    Materials = {m1}
    MaxPush = 2
    Wanted <- AllWanted
    Requests = {h1, h2}
    Pollers = {p1}
    MaxTriggerFaults = 1
    Quiet = Quiet
    MaxAttempt = 2
    MaxSeq = 2
    PipeCap = 2
    ArchiveCap = 1
    Archivers = {w1}
    MaxFaults = 1
    NoLines = NoLines
    DrainJobs = {d1, d2}
    OutCap = 1
    Listeners = {m1, m2}
    Deliveries = {h1, h2}
    MaxGroupFaults = 1
    NoDelivery = NoDelivery
INVARIANTS
    TypeOK
    GraphSound
    MarkersMatchGates
    GatesBeforeDeploys
    QuorumSinceArmed
    OneAtATime
    LogsIntact
    ShutdownSound
    DestroyedStaysClosed
    PushRunsOnce
PROPERTIES
    NoStaleDeploy
    FrozenAdmitsNothing
    ExpirySparesHeld
    RevivedPodsSurvive
    PromoteIsApproved
    AbandonedGatesExpire
    EffectsCompleted
    SerialRunsClose
    GatedDeployEnds
    HeadsAreRun
CHECK_DEADLOCK FALSE
