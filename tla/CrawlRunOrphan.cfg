SPECIFICATION Spec
CONSTANTS
    w1 = w1
    u1 = u1
    Workers = {w1}
    Users = {u1}
    ClaimTTL = 1
    LeaseTTL = 2
    RetryDelay = 3
    MaxDeliveries = 5
    MaxFaults = 3
    MaxClaims = 7
INVARIANT NoOrphanedRun
CHECK_DEADLOCK FALSE
