------------------------------ MODULE Discovery ------------------------------
(***************************************************************************)
(* How a crawl begins: robots.txt is asked for, over https and then over   *)
(* http, and the sitemaps that it names are walked for pages to start      *)
(* from.  Every request is a call of SafeFetch, whose steps are taken in   *)
(* between.                                                                *)
(*                                                                         *)
(* The site may answer differently whenever it is asked.  Lost leases,     *)
(* cancellation, the byte budget and the time limit stop the crawl before  *)
(* any request.                                                            *)
(***************************************************************************)
EXTENDS SafeFetch, FiniteSets

CONSTANTS
    RobotsAt,        \* RobotsAt[scheme]: robots.txt of the project's host
    SitemapAt,       \* SitemapAt[scheme]: /sitemap.xml of the project's host
    RobotsFiles,     \* the sitemaps that a robots.txt may name, in order
    Documents,       \* what a sitemap may say: its kind and its locations, in order
    Identity,        \* normalizeUrl of the URLs of pages
    MaxDepth, MaxDocs, MaxCandidates,   \* limits of the walk
    None             \* null

Schemes == {"https", "http"}

ASSUME DiscoveryAssumption ==
    /\ RobotsAt \in [Schemes -> Urls] /\ SitemapAt \in [Schemes -> Urls]
    /\ RobotsFiles \subseteq Seq(Urls)
    /\ \A d \in Documents :
          \/ d.kind = "INDEX" /\ d.locs \in Seq(Urls)
          \/ d.kind = "URLSET" /\ d.locs \in Seq(DOMAIN Identity)
          \/ d.kind = "UNKNOWN" /\ d.locs = <<>>
    /\ \A page \in DOMAIN Identity : Identity[page] \in DOMAIN Identity
    /\ {MaxDepth, MaxDocs, MaxCandidates} \subseteq Nat \ {0}

VARIABLES
    stage,     \* where the crawl is
    robots,    \* acquireRobotsPolicy: its locals, its result, and what it was answered
    walk       \* collectSitemapSeeds: its locals, and the documents it has read

discovery == <<stage, robots, walk>>

NoResult == [outcome |-> "NETWORK_ERROR", initialStatus |-> 0, finalStatus |-> 0,
             finalUrl |-> NoUrl, redirectChain |-> <<>>, body |-> NoBody]

Calling(pc, url) == [pc |-> pc, current |-> url, redirects |-> 0, wire |-> 0, decoded |-> 0]

\* No request is under way.
Idle(f, r, q) == f = Calling("done", RobotsAt["https"]) /\ r = NoResult /\ q = <<>>

DiscoveryInit ==
    /\ stage = "ask"
    /\ robots = [scheme |-> "https", attempt |-> 1, fallback |-> TRUE,
                 policy |-> None, sitemaps |-> <<>>, tried |-> {}]
    /\ walk = [queue |-> <<>>, depth |-> 0, seen |-> {}, candidates |-> {}, limit |-> FALSE,
               read |-> {}]
    /\ Idle(fetch, result, requests)

\* A request of the crawl begins.
Ask(url) ==
    /\ fetch' = Calling("check", url)
    /\ result' = NoResult
    /\ requests' = <<>>

\* It has an answer, which the crawl looks at and drops.
GotAnswer(s) == stage = s /\ At("done") /\ Idle(fetch', result', requests')

Status(s) == result.outcome = "HTTP_RESPONSE" /\ result.finalStatus = s

-----------------------------------------------------------------------------
(* robots.txt. *)

AskRobots ==
    /\ stage = "ask" /\ stage' = "robots"
    /\ Ask(RobotsAt[robots.scheme])
    /\ UNCHANGED <<robots, walk>>

Tried == robots.tried \cup
            {[scheme |-> robots.scheme, outcome |-> result.outcome,
              status |-> IF result.outcome = "HTTP_RESPONSE" THEN result.finalStatus ELSE 0]}

Decided(policy, next) ==
    /\ stage' = next
    /\ robots' = [robots EXCEPT !.policy = policy, !.tried = Tried]

RobotsRead ==
    /\ Status(200)
    /\ stage' = "seed"
    /\ \E sitemaps \in RobotsFiles :
          robots' = [robots EXCEPT !.policy = "OK", !.tried = Tried, !.sitemaps = sitemaps,
                                   !.scheme = result.finalUrl.scheme]

Absent == Status(404) \/ Status(410)

\* Only http says that there is none; the crawl is not restricted.
NoRobots == robots.scheme = "http" /\ Absent /\ Decided("OK", "seed")

Denied == Status(401) \/ Status(403)

RobotsDenied == Denied /\ Decided("DENIED", "over")

\* Too many requests, or an error of the site.
Overloaded == \E s \in Statuses : Status(s) /\ (s = 429 \/ s >= 500)

NotReached == result.outcome \in Failures

RobotsUnusable ==
    /\ ~Status(200) /\ ~Absent /\ ~Denied /\ ~Overloaded /\ ~NotReached
    /\ Decided("UNAVAILABLE", "over")

Attempts(scheme) == IF scheme = "https" THEN 3 ELSE 1

\* Mutation: only the last attempt decides whether http is asked.
FallbackOfLast == ~Overloaded

\* fallbackAllowed.
Fallback == robots.fallback /\ ~Overloaded

\* The next attempt, or the attempt over http after the last over https.
AskAgain ==
    /\ Overloaded \/ NotReached \/ (robots.scheme = "https" /\ Absent)
    /\ \/ /\ robots.attempt < Attempts(robots.scheme)
          /\ stage' = "ask"
          /\ robots' = [robots EXCEPT !.attempt = @ + 1, !.fallback = Fallback, !.tried = Tried]
       \/ /\ robots.attempt = Attempts(robots.scheme)
          /\ robots.scheme = "https" /\ Fallback
          /\ stage' = "ask"
          /\ robots' = [robots EXCEPT !.scheme = "http", !.attempt = 1, !.tried = Tried]
       \/ /\ robots.attempt = Attempts(robots.scheme)
          /\ robots.scheme = "http" \/ ~Fallback
          /\ Decided("UNAVAILABLE", "over")

RobotsAnswer ==
    /\ GotAnswer("robots")
    /\ RobotsRead \/ NoRobots \/ RobotsDenied \/ RobotsUnusable \/ AskAgain
    /\ UNCHANGED walk

-----------------------------------------------------------------------------
(* Sitemaps. *)

\* sameHostIdentity is not null.
SameHost(u) == u.scheme \in Schemes /\ u.host = Scope

\* Where a sequence has what it did not have before.
Firsts(s) == {i \in DOMAIN s : \A j \in 1..(i - 1) : s[j] # s[i]}

\* What a sequence has in some places, in order.
Entries(s, places) ==
    [n \in 1..Cardinality(places) |->
        s[CHOOSE i \in places : Cardinality({j \in places : j <= i}) = n]]

Queued(urls, depth) == [n \in DOMAIN urls |-> [url |-> urls[n], depth |-> depth]]

\* The sitemaps that robots.txt names and the usual one, each once.  The history of the
\* attempts ends here.
StartWalk ==
    /\ stage = "seed" /\ stage' = "next"
    /\ LET named   == Append(robots.sitemaps, SitemapAt[robots.scheme])
           sources == Entries(named, Firsts(named))
       IN  walk' = [walk EXCEPT !.queue = Queued(sources, 0),
                                !.read = {[kind |-> "INDEX", locs |-> sources]}]
    /\ robots' = [robots EXCEPT !.tried = {}, !.sitemaps = <<>>]
    /\ UNCHANGED <<fetch, result, requests>>

MoreToWalk == /\ walk.queue # <<>>
              /\ Cardinality(walk.seen) < MaxDocs
              /\ Cardinality(walk.candidates) < MaxCandidates

NextUrl == Head(walk.queue).url

Skipped == NextUrl \in walk.seen \/ ~SameHost(NextUrl)

SkipSitemap ==
    /\ stage = "next" /\ MoreToWalk /\ Skipped
    /\ walk' = [walk EXCEPT !.queue = Tail(@)]
    /\ UNCHANGED <<stage, robots, fetch, result, requests>>

AskSitemap ==
    /\ stage = "next" /\ MoreToWalk /\ ~Skipped
    /\ stage' = "sitemap"
    /\ Ask(NextUrl)
    /\ walk' = [walk EXCEPT !.queue = Tail(@), !.depth = Head(walk.queue).depth,
                            !.seen = @ \cup {NextUrl}]
    /\ UNCHANGED robots

\* Mutation: what is left out is left out in silence.
NotTold(w, all, taken) == w

\* limitReached, if not all is taken.
Told(w, all, taken) == [w EXCEPT !.limit = @ \/ taken # all]

PagesAt(locs, places) == {Identity[locs[i]] : i \in {j \in places : SameHost(locs[j])}}

\* The pages of a URL set; the loop ends when there is no room for another.
WithPages(w, locs) ==
    LET Found(n) == w.candidates \cup PagesAt(locs, 1..n)
        taken    == {i \in DOMAIN locs : Cardinality(Found(i - 1)) < MaxCandidates}
    IN  Told([w EXCEPT !.candidates = @ \cup PagesAt(locs, taken)], DOMAIN locs, taken)

Known(w, child) == child \in w.seen \/ \E i \in DOMAIN w.queue : w.queue[i].url = child

\* The sitemaps of an index, as long as there is room for them.
WithChildren(w, locs) ==
    LET new   == {i \in Firsts(locs) : SameHost(locs[i]) /\ ~Known(w, locs[i])}
        taken == {i \in new : /\ w.depth < MaxDepth
                              /\ Cardinality(w.seen) + Len(w.queue)
                                     + Cardinality({j \in new : j < i}) < MaxDocs}
        added == Queued(Entries(locs, taken), w.depth + 1)
    IN  Told([w EXCEPT !.queue = @ \o added], new, taken)

\* A document that cannot be had is passed over.
SitemapAnswer ==
    /\ GotAnswer("sitemap")
    /\ stage' = "next"
    /\ \/ ~Status(200) /\ walk' = walk
       \/ /\ Status(200)
          /\ \E d \in Documents :
                LET w == [walk EXCEPT !.read = @ \cup {d}]
                IN  walk' = CASE d.kind = "URLSET"  -> WithPages(w, d.locs)
                              [] d.kind = "INDEX"   -> WithChildren(w, d.locs)
                              [] d.kind = "UNKNOWN" -> w
    /\ UNCHANGED robots

EndWalk ==
    /\ stage = "next" /\ ~MoreToWalk
    /\ stage' = "over"
    /\ walk' = [walk EXCEPT !.limit = @ \/ (walk.queue # <<>> /\ Cardinality(walk.seen) >= MaxDocs)]
    /\ UNCHANGED <<robots, fetch, result, requests>>

-----------------------------------------------------------------------------

\* The lease is lost, the crawl is cancelled, or its bytes or its time are used up; the
\* executor looks before every request.
Stop ==
    /\ stage \in {"ask", "next"}
    /\ stage' = "stopped"
    /\ UNCHANGED <<robots, walk, fetch, result, requests>>

\* The steps of the request under way.
Fetch == Next /\ UNCHANGED discovery

Proceed ==
    \/ AskRobots \/ RobotsAnswer \/ StartWalk
    \/ SkipSitemap \/ AskSitemap \/ SitemapAnswer \/ EndWalk
    \/ Fetch

DiscoveryNext == Proceed \/ Stop

\* The executor goes on; nothing has to stop it.
DiscoverySpec == /\ DiscoveryInit /\ [][DiscoveryNext]_<<discovery, vars>>
                 /\ WF_<<discovery, vars>>(Proceed)

-----------------------------------------------------------------------------
(* What must hold of the beginning of a crawl. *)

\* An attempt at robots.txt, an entry of the queue and a list of sitemaps.
Try   == [scheme : Schemes, outcome : Outcomes, status : Statuses \cup {0}]
Entry == [url : Urls, depth : 0..MaxDepth]
Lists == [kind : {"INDEX"}, locs : Seq(Urls)]

DiscoveryTypeOK ==
    /\ stage \in {"ask", "robots", "seed", "next", "sitemap", "over", "stopped"}
    /\ robots \in [scheme : Schemes, attempt : 1..3, fallback : BOOLEAN,
                   policy : {None, "OK", "DENIED", "UNAVAILABLE"},
                   sitemaps : Seq(Urls), tried : SUBSET Try]
    /\ walk \in [queue : Seq(Entry), depth : 0..MaxDepth, seen : SUBSET Urls,
                 candidates : SUBSET DOMAIN Identity, limit : BOOLEAN,
                 read : SUBSET (Documents \cup Lists)]

\* Attempts of which the site may not be there, or not over https.
Inconclusive(try) ==
    try.outcome \in Failures \/ (try.outcome = "HTTP_RESPONSE" /\ try.status \in {404, 410})

\* A refusal is final and a permission is the site's: after whatever attempts, http is
\* asked only if no attempt over https was conclusive, a 401 or 403 denies the crawl at
\* once, and the crawl goes on only after a 200, or a 404 or 410 over http
\* (acquireRobotsPolicy).
RefusalIsFinal ==
    /\ \A try \in robots.tried :
          /\ robots.scheme = "http" /\ try.scheme = "https" /\ stage = "ask" => Inconclusive(try)
          /\ try.status \in {401, 403} => robots.policy = "DENIED"
    /\ stage = "seed" => \E try \in robots.tried :
                            \/ try.status = 200
                            \/ try.scheme = "http" /\ try.status \in {404, 410}
    /\ stage \in {"next", "sitemap"} => robots.policy = "OK"

\* A walk that was cut short says so: if the limit was not reached, then every sitemap
\* that robots.txt or an index named was asked for, and every page that a sitemap listed
\* is a candidate, unless the candidates were just used up (collectSitemapSeeds).
TruncationIsTold ==
    /\ stage = "over" /\ robots.policy = "OK" /\ ~walk.limit
    /\ Cardinality(walk.candidates) < MaxCandidates
    => \A d \in walk.read : \A i \in DOMAIN d.locs :
          SameHost(d.locs[i]) => IF d.kind = "INDEX" THEN d.locs[i] \in walk.seen
                                 ELSE Identity[d.locs[i]] \in walk.candidates

\* The walk ends, although sitemaps may name each other in a cycle, and every request of
\* it ends, although redirects may form a cycle and a body may never end.
DiscoveryEnds == <>(stage \in {"over", "stopped"})
=============================================================================
