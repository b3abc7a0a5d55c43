----------------------------- MODULE MCDiscovery -----------------------------
(* A small world for Discovery: one project, its site and what it says. *)
EXTENDS Discovery

CONSTANTS site, other, local, literal     \* hosts

V4(a, b, c, d) == [version |-> 4, part |-> <<a, b, c, d>>]
V6(p)          == [version |-> 6, part |-> p]

\* A public address, the last private /16 of 172.16.0.0/12 and an IPv4-mapped
\* link-local address.
SomeAddresses == {V4(93, 184, 216, 34), V4(172, 31, 0, 1),
                  V6(<<0, 0, 0, 0, 0, 65535, 43518, 43518>>)}

Literals == [h \in Hosts |-> IF h = literal THEN V4(10, 0, 0, 5) ELSE NoAddress]

Plain(scheme, host, path) ==
    [scheme |-> scheme, credentials |-> FALSE, defaultPort |-> TRUE,
     host |-> host, path |-> path, long |-> FALSE]

Robots  == [s \in {"https", "http"} |-> Plain(s, site, "robots")]
Sitemap == [s \in {"https", "http"} |-> Plain(s, site, "sitemap")]

More(path) == Plain("https", site, path)

\* robots.txt, sitemaps, and URLs that are refused for one reason each.
SomeUrls == {Robots["https"], Robots["http"], Sitemap["https"], Sitemap["http"],
             More("a"), More("b"), Plain("https", other, "a"), Plain("https", literal, "a"),
             [More("a") EXCEPT !.credentials = TRUE]}

\* Pages, two of which are the same after normalization.
Page(path) == Plain("https", site, path)

Pages == {Page("p"), Page("p#"), Page("q"), Plain("https", other, "p")}

Identities == [page \in Pages |-> IF page.path = "p#" THEN Page("p") ELSE page]

SomeRobots == {<<>>, <<More("a"), Plain("https", other, "a"), Sitemap["http"], More("b")>>}

Index(locs)  == [kind |-> "INDEX", locs |-> locs]
UrlSet(locs) == [kind |-> "URLSET", locs |-> locs]

SomeDocuments ==
    {Index(<<Sitemap["https"], More("a")>>), Index(<<More("b"), Plain("https", other, "a")>>),
     UrlSet(<<Page("p"), Page("p#"), Page("q")>>), UrlSet(<<Plain("https", other, "p"), Page("p")>>),
     [kind |-> "UNKNOWN", locs |-> <<>>]}
=============================================================================
