SPECIFICATION RolloutSpec
CONSTANTS
    Pauses = 2
    Watchers = {w1, w2}
    GateVoters = {u1, u2}
    GateQuorum = 2
    MaxMishaps = 1
    Outsiders = FALSE
    NoWatcher = NoWatcher
    NoGate = NoGate
PROPERTY OnlyApprovedPausesLeft
CHECK_DEADLOCK FALSE
