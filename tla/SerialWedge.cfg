SPECIFICATION SerialSpec
CONSTANTS
    SerialRuns = {q1, q2, q3}
    LastStage = 2
    Schedulers = {s1}
    MaxReopens = 1
    MaxSerialCancels = 0
    MaxSerialFaults = 0
    NoRun = NoRun
PROPERTIES
    QueuedRunDispatches
CHECK_DEADLOCK FALSE
