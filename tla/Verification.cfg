SPECIFICATION FairSpec
CONSTANTS
    w1 = w1
    w2 = w2
    Workers = {w1, w2}
    ClaimTTL = 1
    RetryBase = 2
    MaxChallenges = 2
    MaxAttempts = 3
    MaxFaults = 2
INVARIANT AckIsAtomic
INVARIANT OneActiveCheck
PROPERTY LostClaimIsInert
PROPERTY CheckSettles
CHECK_DEADLOCK FALSE
