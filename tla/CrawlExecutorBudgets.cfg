SPECIFICATION Spec
CONSTANTS
    a = a
    b = b
    c = c
    e1 = e1
    e2 = e2
    NoUrl = NoUrl
    Executions = {e1, e2}
    Urls = {a, b, c}
    Seeds = {a}
    SitemapUrls = {c}
    Disallowed = {}
    Links <- SiteLinks
    Target <- SiteTarget
    Answers = {"html", "redirect", "network"}
    MaxPages = 1
    MaxFrontier = 2
    MaxRetries = 1
    ByteBudget = 2
    MaxTokens = 2
INVARIANT LinksBeforeObservation
INVARIANT BudgetsHold
SYMMETRY Symmetry
CHECK_DEADLOCK FALSE
