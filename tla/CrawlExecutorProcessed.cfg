SPECIFICATION Spec
CONSTANTS
    a = a
    b = b
    c = c
    e1 = e1
    e2 = e2
    NoUrl = NoUrl
    Executions = {e1, e2}
    Urls = {a, b}
    Seeds = {a}
    SitemapUrls = {b}
    Disallowed = {}
    Links <- SiteLinks
    Target <- SiteTarget
    Answers = {"plain"}
    MaxPages = 2
    MaxFrontier = 2
    MaxRetries = 1
    ByteBudget = 4
    MaxTokens = 2
INVARIANT FullIsProcessed
CHECK_DEADLOCK FALSE
