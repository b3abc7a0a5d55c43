SPECIFICATION Spec
CONSTANTS
    w1 = w1
    w2 = w2
    p1 = p1
    p2 = p2
    p3 = p3
    k1 = k1
    k2 = k2
    k3 = k3
    None = None
    Workspaces = {w1, w2}
    Projects = {p1, p2, p3}
    Home <- Homes
    Founded = {w1, p1, p2}
    Connections = {k1, k2, k3}
    MaxRuns = 2
    MaxClicks = 3
    MaxFailures = 1
    Patient = TRUE
INVARIANT OnePoll
PROPERTY ShownInOrder
PROPERTY SelectionIsLoaded
PROPERTY RunsAreFollowed
CHECK_DEADLOCK FALSE
