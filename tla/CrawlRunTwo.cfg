SPECIFICATION Spec
CONSTANTS
    w1 = w1
    w2 = w2
    u1 = u1
    Workers = {w1, w2}
    Users = {u1}
    ClaimTTL = 1
    LeaseTTL = 2
    RetryDelay = 3
    MaxDeliveries = 3
    MaxFaults = 2
    MaxClaims = 5
INVARIANT OneHolder
INVARIANT CancelBeatsReport
INVARIANT ReportIsFull
PROPERTY SupersededIsInert
PROPERTY ImplementsLifecycle
SYMMETRY Symmetry
CHECK_DEADLOCK FALSE
