\* Two orders that draw the same id, and a reader that fills the cache.
SPECIFICATION FairSpec
CONSTANTS
    r1 = r1
    r2 = r2
    d1 = d1
    o1 = o1
    Requests = {r1, r2}
    Readers = {d1}
    OrderIds = {o1}
    MaxAttempts = 2
INVARIANTS
    TypeOK
    StatusIsWhatWasHeard
    ChargedAgainOnlyIfLost
PROPERTIES
    OrderSettles
CHECK_DEADLOCK FALSE
