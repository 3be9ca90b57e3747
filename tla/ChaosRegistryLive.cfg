\* Liveness: one fault type, two enables that may overlap.
SPECIFICATION FairSpec
CONSTANTS
    cpu = cpu
    db = db
    Types = {cpu}
    Actions = {"restart"}
    OpsClears <- MCOpsClears
    Restart = "restart"
    Operators = {"op"}
    Durations <- MCOverflow
    DefaultDuration = 1
    MaxDuration = 2
    Replicas = {2}
    MaxStarts = 2
    StartHorizon = 4
    MaxParallel = 2
PROPERTIES
    TimedFaultEnds
CHECK_DEADLOCK FALSE
