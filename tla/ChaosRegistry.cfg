\* Safety: two fault types, timed (short and clamped to the cap) and sticky, two
\* enables that may overlap, the first timer over before the second enable or not.
SPECIFICATION Spec
CONSTANTS
    cpu = cpu
    db = db
    Types = {cpu, db}
    Actions = {"restart"}
    OpsClears <- MCOpsClears
    Restart = "restart"
    Operators = {"op"}
    Durations <- MCDurations
    DefaultDuration = 1
    MaxDuration = 2
    Replicas = {1}
    MaxStarts = 2
    StartHorizon = 4
    MaxParallel = 2
INVARIANTS
    TypeOK
    TimedFaultHasTimer
    NeverCutShort
    SweepClears
PROPERTIES
    KeepsContract
CHECK_DEADLOCK FALSE
