SPECIFICATION FairSpec
CONSTANTS
    a = a
    b = b
    c = c
    e1 = e1
    e2 = e2
    NoUrl = NoUrl
    Executions = {e1, e2}
    Urls = {a, b}
    Seeds = {a}
    SitemapUrls = {b}
    Disallowed = {}
    Links <- SiteLinks
    Target <- SiteTarget
    Answers = {"html", "redirect", "network", "security"}
    MaxPages = 3
    MaxFrontier = 3
    MaxRetries = 1
    ByteBudget = 1
    MaxTokens = 2
INVARIANT NothingStranded
INVARIANT FullIsClean
INVARIANT GivenUpAfterRetries
PROPERTY FrozenWhenObserved
PROPERTY SupersededWritesNothing
PROPERTY ImplementsLifecycle
PROPERTY RunEnds
CHECK_DEADLOCK FALSE
