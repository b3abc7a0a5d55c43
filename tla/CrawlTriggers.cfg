SPECIFICATION Spec
CONSTANTS
    p1 = p1
    p2 = p2
    k1 = k1
    k2 = k2
    Nobody = Nobody
    NoKey = NoKey
    Processes = {p1, p2}
    Keys = {k1, k2}
    KeyTTL = 2
    Spacing = 1
    Day = 2
    MaxDaily = 2
    Interval = 2
    MaxTime = 4
INVARIANT OneActiveRun
INVARIANT OneRunPerKey
INVARIANT QuotaHolds
INVARIANT SlotsAccounted
SYMMETRY Symmetry
