\* Two campaigns, which may carry the same ID, real or dry, and the kill-switch.
SPECIFICATION FairSpec
CONSTANTS
    errors = errors
    latency = latency
    Types = {errors, latency}
    Ids = {"a", "b"}
    Plans <- MCPlans
    MaxSteps = 2
    DefaultStep = 2
    MaxDuration = 3
    Second = 2
    MaxLate = 1
    MaxRuns = 2
    Horizon = 2
INVARIANTS
    TypeOK
    RunningHasCloser
PROPERTIES
    
    CampaignEnds
CHECK_DEADLOCK FALSE
