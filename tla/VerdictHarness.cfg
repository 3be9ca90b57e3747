\* Suites of two scenarios: the full loop, the control, the KPI slump.
SPECIFICATION FairSpec
CONSTANTS
    payment = payment
    shopify = shopify
    a1 = a1
    Alerts = {a1}
    Scenarios <- MCScenarios
    SkipRemediation = FALSE
    MaxRuns = 2
    MaxDedup = 1
INVARIANTS
    TypeOK
    DetectionIsAPage
    NoMissedPage
    KillHolds
    VerdictHonest
PROPERTIES
    ScenarioEnds
CHECK_DEADLOCK FALSE
