\* A scenario over while its faults are not.
SPECIFICATION Spec
CONSTANTS
    payment = payment
    shopify = shopify
    a1 = a1
    Alerts = {a1}
    Scenarios <- JustKpi
    SkipRemediation = FALSE
    MaxRuns = 1
    MaxDedup = 1
INVARIANTS
    NoLeak
CHECK_DEADLOCK FALSE
