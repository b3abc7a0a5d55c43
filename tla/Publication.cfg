SPECIFICATION Spec
CONSTANTS
    w1 = w1
    w2 = w2
    a = a
    Workers = {w1, w2}
    Pages = {a}
    Answers <- SixAnswers
    Rest <- Shrinking
    HalvesDown <- LostHalves
    MaxRuns = 3
    MaxTokens = 2
    MaxSuppressed = 1
INVARIANT ComparedWithBaseline
INVARIANT IssuesFollowReports
INVARIANT FlipsAreReported
PROPERTY ScoreFollowsIssues
SYMMETRY Symmetry
CHECK_DEADLOCK FALSE
