\* A control that passes because nobody answered.
SPECIFICATION Spec
CONSTANTS
    payment = payment
    shopify = shopify
    a1 = a1
    Alerts = {a1}
    Scenarios <- JustControl
    SkipRemediation = FALSE
    MaxRuns = 1
    MaxDedup = 1
PROPERTIES
    QuietMeansSilent
CHECK_DEADLOCK FALSE
