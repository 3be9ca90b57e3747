\* One EnableSpec call at a time: only a timer that has already checked can
\* meet a later activation.
SPECIFICATION Spec
CONSTANTS
    cpu = cpu
    db = db
    Types = {cpu}
    Actions = {"restart"}
    OpsClears <- MCOpsClears
    Restart = "restart"
    Operators = {"op"}
    Durations <- MCDurations
    DefaultDuration = 1
    MaxDuration = 2
    Replicas = {2}
    MaxStarts = 2
    StartHorizon = 4
    MaxParallel = 1
PROPERTIES
    StickyNeverExpires
CHECK_DEADLOCK FALSE
