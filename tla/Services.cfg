\* Each component on its own: knobs of a few ticks, two or three actors, a channel of two places.
SPECIFICATION MCSpec
CONSTANTS
    ForceNames = {"network_saturation"}
    Intensities = {0, 1}
    Standings = {1}
    DefaultForce = 10
    Starts = {14, 31, 57}
    SysHorizon = 2
    SysCommands = 2
    MaxPages = 1
    FaultTypes = {"latency", "error_budget"}
    Sensitive = {"latency"}
    Specs <- MCSpecs
    Replicas = {0, 2, 3}
    RampDefault = 4
    PeriodDefault = 2
    LengthDefault = 2
    Longest = 4
    LeakClimb = 6
    ShapeHorizon = 7
    ShapeCommands = 2
    Scenarios = {"warehouse_sla_breach", "coupon_abuse"}
    Dims = {"", "wh-west"}
    Durations <- MCDurations
    DefaultDuration = 2
    MaxInject = 3
    MaxAsked = 2
    ChaosKinds = {"latency", "error"}
    Sent <- MCSent
    Clients = {"c1", "c2"}
    MaxPosted = 3
    Messages = {"m1", "m2", "m3"}
    Buffer = 2
    Seeded = {"1"}
    Drawn = {"1000"}
    Fields = {"name", "email"}
    Values = {"new"}
    OldValue = "old"
    Callers = {"c1", "c2"}
    MaxWrites = 3
    Tokens = {"t1", "t2"}
    Usernames = {"alice", "bob"}
    Strangers = {"user-7"}
    Verifiers = {"v1", "v2"}
    Requests = {"r1", "r2"}
    Limit = 1
    MaxArrived = 3
    Journeys = {"check", "converter"}
    Picked = {"auth_login", "orders_create"}
    Names = {"a"}
    Sessions = {"s1", "s2"}
    MaxSize = 1
    MaxLaunched = 2
    MaxBursts = 2
INVARIANTS
    ProbesJustified
    StruckByItsOwn
    HandledInOrder
    UsersConsistent
    TokenKeepsUser
    RequestsAccounted
    StatsAddUp
PROPERTIES
    SwitchesKeepTime
    WorkerFinishes
CHECK_DEADLOCK FALSE
