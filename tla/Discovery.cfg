SPECIFICATION DiscoverySpec
CONSTANTS
    site = site
    other = other
    local = local
    literal = literal
    NoAddress = NoAddress
    NoUrl = NoUrl
    None = None
    Hosts = {site, other, local, literal}
    Scope = site
    Localhosts = {local}
    Addresses <- SomeAddresses
    LiteralOf <- Literals
    Urls <- SomeUrls
    Statuses = {200, 301, 304, 403, 404, 500}
    MaxRedirects = 1
    MaxBody = 2
    MaxChunk = 2
    RobotsAt <- Robots
    SitemapAt <- Sitemap
    RobotsFiles <- SomeRobots
    Documents <- SomeDocuments
    Identity <- Identities
    MaxDepth = 1
    MaxDocs = 3
    MaxCandidates = 2
INVARIANT RequestsAreVetted
INVARIANT ResultTellsTheRequests
INVARIANT RefusalIsFinal
INVARIANT TruncationIsTold
PROPERTY DiscoveryEnds
CHECK_DEADLOCK FALSE
