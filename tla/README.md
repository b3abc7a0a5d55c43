# A verification project for seohelper

seohelper verifies domains, crawls sites on demand or weekly, and publishes a report of what
changed and which SEO issues are open. It is a Next.js application and one or more worker
processes; they share nothing but a PostgreSQL database. This directory models the part of it
where things go wrong between processes: TLA+ modules translated from `src/`, TLC runs on small
instances, and TLAPS proofs for every size.

All paths below are relative to the repository; `executor.ts` is `src/server/crawl/executor.ts`,
and so on. `PROJECT.json` maps every definition to the lines it models, lists the hazards each
property is aimed at, and pairs every checked property with a mutated definition that TLC must
refute.

## 1. Inventory

| component | state | operations | correct when |
|---|---|---|---|
| **Outbox and worker tick** (`repositories/outbox.ts`, `workers/main.ts`) | `OutboxEvent`: delivered, attempts, claim token and expiry, `nextAttemptAt` | `emit`, `claimBatch`, `markDelivered`, `reschedule`, `processCrawlJob`, `tick` | a job is done even if workers die, and is off the queue in the end; an acknowledgement needs the claim |
| **Crawl run** (`repositories/crawls.ts`, `executor.ts`, `services/crawl-service.ts`) | `CrawlRun`: status, completeness, lease and token, cancel flag, `publishedAt` | `acquireLease`, `renewLease`, `withRunFence`, `finalize`, `publishRun`, `cancelCrawl` | one holder; superseded workers are inert; terminal is final; report iff COMPLETED/FULL; cancelled means no report |
| **Crawl executor** (`executor.ts`) | `CrawlFrontier` and `PageObservation` rows, byte count; in memory flags and counters | robots, sitemaps, claim, fetch, retry, links, observation, done, finalize | nothing lost or stranded by a takeover; budgets hold for the run; FULL means complete and clean |
| **Publication, issues, retention** (`publisher.ts`, `issue-rules`, `change-detection`, `health-score`, `issue-service.ts`, `cleanup.ts`) | `ChangeEvent`, `Issue`, `IssueTransition`, `CrawlSummary`, `latestPublishedRunId`, `detailsExpiredAt` | `publishRun`, `updateIssueSuppression`, `cleanupRunDetails` | a report is compared with all of its baseline; issues follow the published runs and nothing else |
| **Crawl creation and schedules** (`crawl-service.ts`, `idempotency.ts`, `schedule-service.ts`, `project-service.ts`) | `CrawlRun` rows of a project, `IdempotencyRecord`, `CrawlSchedule`, `ScheduleOccurrence`, `archivedAt` | `createCrawl`, `withIdempotency`, `processDueSchedules`, `updateSchedule`, `updateProject` | one active run per project; one run per key; quota; every slot accounted for once |
| **Domain verification** (`project-service.ts`, `verification-runner.ts`, `crawl-guard.ts`) | `DomainVerification` rows, project status | `requestVerification`, `processVerificationJob` | result and acknowledgement are one commit; only the latest challenge is active; every check settles |
| **Workspace membership** (`member-service.ts`, `permissions.ts`, `repositories/invitations.ts`) | `Membership`, `Invitation` | invite, revoke, accept, change role, remove | always an owner; only owners decide on owners; one membership per invitation |
| **HTTP fetching** (`packages/crawler`: `safe-fetch.ts`, `node-transport.ts`, `safe-url.ts`, `address-classification.ts`) | one call's current URL, redirects, byte counts, result | `safeFetch`, `validatedLookup`, `decodeBody` | only vetted connections; the result tells what was requested; a fetch ends |
| **Discovery** (`executor.ts`: robots.txt, sitemaps; `packages/crawler`: `robots.ts`, `sitemap.ts`) | the policy, the queue of sitemaps, the candidates, the limits reached | `acquireRobotsPolicy`, `collectSitemapSeeds` | a refusal is final; a walk that was cut short says so; it ends |
| **Dashboard and overview** (`app/page.tsx`, `app/dashboard/client.ts`, `report-service.ts`) | in a tab: selection, lists, what is shown, poll timer, requests under way, request and selection counters | `loadWorkspaces`, `loadProjects`, `loadProjectData`, `clearProjectData`, the operations behind the buttons, `getOverview` | answers are shown under their project and in order; polls do not multiply; a run is followed to its end |
| Parsing (`packages/crawler`: extraction, URL identity, robots rules, XML) | none | pure functions | section 7 |
| Listings, members panel, sign-in, rate limiting, audit log, routes | read-only, a library's, or append-only | | section 7 |

How they interact: a request writes business rows and an outbox event in one transaction; a worker
claims the event for 30 s and, to execute a crawl, takes a lease of 60 s on the run.
Writes of a worker are fenced by the lease token (`withRunFence`). Requests that decide on a project
as a whole (creation, scan, archive, publication, cleanup, suppression) serialise on
`SELECT ... FOR UPDATE` of the project row. No in-process callbacks or shared memory cross these
boundaries. The page in the browser learns of all this by asking: its requests overlap, their answers
arrive in any order, and what the user clicks meanwhile decides which of them still count.

What makes it hard: claims and leases that lapse under a slow holder, so that two workers go on with
one run; values read before a lock or a lease and used after it; death between two transactions
(observation / done mark, freeze / publish, write / acknowledgement); cancellation racing with
publication; retries counted in rows that several executions share; check-then-write on counts,
quotas and the last owner. `hazards` in `PROJECT.json` lists each at its line.

## 2. Modules

| module | models | composition |
|---|---|---|
| `Outbox` | pure operators on one event row: `Claimable`, `Claimed`, `MarkDelivered`, `Reschedule` | extended by `CrawlRun`, `Verification` |
| `RunLifecycle` | abstract specification: the status diagram of a run, its report and the accepted cancellation | implemented by `CrawlRun` and by `CrawlExecutor` |
| `CrawlRun` | one run: workers claiming its event, lease, plan, verdict, freeze, publish, cancel endpoint, crashes, failed calls, time | `Lifecycle == INSTANCE RunLifecycle WITH ...` |
| `CrawlExecutor` | the crawl phase that `CrawlRun` reduces to a verdict: frontier, answers, retries, links, budgets, recovery of flags | same refinement mapping |
| `Assessment` | pure operators: observation of an answer, verdicts of the four rules, change events with severities, health score | extended by `Publication` |
| `Publication` | what a sequence of runs leaves behind: reports, issues, suppression, cleanup | runs follow one another, as `CrawlTriggers` establishes |
| `CrawlTriggers` | how runs come about: API calls with keys, scanners, archive, schedule switch | runs are active until they end |
| `Verification` | challenges, jobs, two-transaction checks with a DNS lookup in between | extends `Outbox` |
| `AddressClasses` | pure operators: which addresses are public, and the reserved blocks as a reference | extended by `SafeFetch` |
| `SafeFetch` | one fetch: checks, DNS, connection with its own lookup, redirects, capped body | its outcomes are the answers of `CrawlExecutor` |
| `Discovery` | the beginning of a crawl: robots.txt over https and http with retries, then the walk over sitemaps | extends `SafeFetch`: each request is one of its fetches, step by step |
| `Dashboard` | one tab, its requests, and the server as far as the tab shows it | runs and checks start and end as `CrawlTriggers`, `CrawlRun` and `Verification` establish |
| `Membership` | requests split into the route (reads the actor) and the transaction (locks the workspace) | |
| `CrawlRunProofs`, `CrawlExecutorProofs`, `CrawlTriggersProofs`, `VerificationProofs`, `PublicationProofs`, `MembershipProofs`, `DiscoveryProofs`, `DashboardProofs` | theorems | extend the module they prove about; `DiscoveryProofs` also proves what `SafeFetch` guarantees |
| `MC*` | symmetry sets and small sites for TLC | extend the module they check |

Conventions. An action is one database statement or transaction, whole; what a process remembers
between two of them is in its record (`worker[w]`, `exec[e]`, `call[u]`, `proc[p]`), and `pc` names the
call it makes next. So every unlocked read is a step of its own, and anything may happen before the
write that uses it. A crash empties the record and leaves the rows. A process that waits for a row
lock has not taken its step yet; where the lock outlives one step (`CrawlTriggers`) it is a variable.
Data is abstracted to what properties tell apart: a site is a graph of a few model values and a set of
answers, a page's field is absent or one of a few values, time is a small countdown.

State and code, for the central modules:

* `CrawlRun.run` is the `CrawlRun` row (`lease` is the time left until `leaseExpiresAt`), `event` its
  `crawl.requested` row. `ReadRun` is the unlocked read at executor.ts:83 whose result, the `plan`, is
  used after `Acquire` (executor.ts:92). `MarkFinalizing` freezes, `CheckPublished` is the unlocked read
  of `publishRun`, `Publish` its transaction, `TerminalWrite` every other ending, `Recheck` the read after
  a refused publication. `Exhaust` is the branch after `MAX_CRAWL_DELIVERIES` (main.ts:49-61).
  `CancelRead`, `CancelDirect`, `CancelFlag` are the three statements of `cancelCrawl`.
* `CrawlExecutor`: `AskRobots` ... `SitemapAnswers` seed the frontier, `Loop` checks budgets and claims an
  item, `Fetch`/`PageAnswers`/`Retry` are the request, `AddLinks`, `Save`, `AddTarget`, `MarkDone` the
  separate writes after it, `Recover` what a takeover does (`resetStaleFrontier`, flags re-derived from
  observations). `Sizes` and `Charge` model the persisted byte count, `Unseen` the unique key of the frontier (`addFrontierUrl`).
* `SafeFetch.fetch` is the local state of `safeFetch` (`current`, `redirects`, what `decodeBody` and
  `readCappedBody` have counted), `result` the object it fills in over the hops, `requests` the connections
  opened so far. `Vet` and `Connect` each resolve the name, as the code does (safe-fetch.ts:173,
  node-transport.ts:41-64), and get independent answers. A URL is a record of what the checks look at.
* `Discovery.robots` is the state of `acquireRobotsPolicy` (scheme asked, what was tried, the policy reached), `walk` that of
  `collectSitemapSeeds` (queue with depths, documents seen, candidates, `limitReached`). `fetch`, `result` and
  `requests` are those of `SafeFetch`; when a call has returned, a step of `Discovery` consumes its result and makes the next.
* `Publication`: `Take` ... `Publish` are the reads and the transaction of `publishRun`, `Evaluated` is `nextIssueState`,
  `Found` the verdict of `Assessment`, `Rest` the pages of the site that only count in the score, `Cleanup` the
  transaction of `cleanupRunDetails`.
* `Dashboard.call[c]` is a request: which one, for which selection, and what each of its reads on the server found;
  `live` says that it is still `dataRequest.current` or `projectRequest.current`. `Outdated` stands for incrementing such a
  counter; a call that does not count any more keeps nothing but its kind. `Render` runs the effects that depend on the
  selection; what a click sets is rendered in the same step. `op` is the operation that keeps the buttons disabled.

## 3. Runs

| run | question | instance |
|---|---|---|
| `crawl_run_two` | safety and refinement when two workers and a user race for a run | 2 workers, 1 user, 2 faults, 3 deliveries before exhaustion |
| `crawl_run_live` | does the run settle, and is the queue rid of the event, whatever fails | 1 worker, the code's 5 deliveries, 2 faults |
| `crawl_executor_two` | does a takeover at any step lose, strand, repeat or falsify anything; does the phase end on a site of cycles | 2 executions, 2 pages that link and redirect to each other, 4 kinds of answers; no budget ends the cycle |
| `crawl_executor_budgets` | do page budget and frontier cap hold for the run, are links safe | 3 pages that link and redirect to each other, page budget 1, frontier cap 2 |
| `verification` | are checks atomic, exclusive and live | 2 workers, 2 challenges, 3 attempts, 2 faults |
| `membership` | do concurrent requests keep the ownership rules | 2 users, 2 invitations |
| `crawl_triggers` | are runs exclusive, idempotent, within quota, and slots accounted for | 2 processes, 2 keys, 5 moments |
| `publication` | are reports, issues and scores what the published runs say | 2 workers, 1 page with 6 answers and some that only count, 3 runs |
| `discovery` | are refusals final, cuts told, connections vetted, results truthful, and does the beginning of a crawl end, whatever DNS and sites answer | 9 URLs, 5 documents, 2 robots files, 6 statuses; 1 redirect, depth 1, 3 documents, 2 candidates |
| `dashboard` | is what is shown that of the selection, in order, asked for once, and followed to the end | 2 workspaces, 3 projects, 3 clicks, 1 failure, 3 connections |
| `crawl_run_orphan`, `crawl_executor_processed` | violations: section 4 | |

Bounds and why they are enough. Two workers suffice for every takeover: a third only repeats it, since
tokens grow and at most one is current (and `CrawlRunProofs` and `CrawlExecutorProofs` hold for any number).
Two leases (`MaxTokens`) are one takeover; what holds across more of them is proved. A time unit of
`CrawlRun` is 30 s: claim 1, lease 2, retry delay 3 keep the order of the code's 30 s, 60 s, 90 s.
`MaxFaults`, `MaxClaims`, `MaxTokens`, `MaxRuns`, `MaxChallenges`, `MaxTime`, `MaxJoins` bound behaviours
and are named in the modules as bounds; with two faults a run can die in the crawl phase and again
between freezing and publishing. `CrawlRunTwo` lowers `MaxDeliveries` to 3 so that exhaustion happens
within five claims. `CrawlTriggers` scales the day, the spacing and the week to 2, 1 and 2 units: a slot
missed, a slot hit late and a quota filled all happen by time 4. Three runs let an issue open, resolve
and reopen, and let cleanup prune what is older than the baseline. The six answers of the page turn every
rule both ways; the pages that only count bring the site to half of its pages evaluated and one issue to
less than a fifth of them and to more. With 3 pages and a
frontier cap of 2 the cap bites, and with a page budget of 1 the budget stops a run that has more to do.
`crawl_executor_two` is bounded the other way, so that `RunEnds` does not hold thanks to a bound: page budget and frontier cap
are one more than the pages of the site, bodies may be too small to count against the byte budget, and the time limit may but need not
strike. What ends the cycles of links and redirects is that a page enters the frontier once, what ends failing pages is that their
attempts are counted in the row; without either (the two mutants of `RunEnds`) TLC finds a run that goes on for ever. The run
has no symmetry set, which would be unsound with a liveness property.
`CHECK_DEADLOCK FALSE` is set where a system really stops (a settled run, no calls left within a bound).

In `discovery` one redirect and a cap of two bytes are enough for a cycle, the limit and a body that exceeds one cap and not the
other; the documents list each other, a foreign host, a refused URL and two URLs of one identity, and depth, documents and
candidates are each cut by some behaviour. `DiscoveryProofs` covers any limits.

In `dashboard` three clicks suffice to leave a project and come back while an answer is under way, or to create one and switch;
three connections carry the two requests an effect may make beside one that is late. `DashboardProofs` covers any number of
them for `OnePoll`. `MaxRuns = 2` lets a report be replaced by a newer one.

Fairness. `CrawlRun`, `Verification`: weak fairness of each worker's own steps (the worker loop polls
every few seconds and awaits each call; a call that fails is `Fail` or `Crash`, never fair) and of the
clock. Users, crashes, failures and cancellations are not fair. In `CrawlRun` this is assumed for every
call of the loop because one process runs them in sequence. `CrawlExecutor` assumes that executions keep
being started for an active run, which stands for the deliveries that `CrawlRun` checks within
`MaxDeliveries`, and that the lease of a dead execution lapses.
`SafeFetch` and `Discovery` assume that each await ends: DNS queries and idle sockets time out.
`Dashboard` assumes that the page renders and its timer fires, that each request is answered or fails, and that runs and
checks come to an end, which `RunSettles` and `CheckSettles` say of the server. Clicks, failures of data requests and
scheduled runs are not fair. Its constant `Patient` assumes of the user that no workspace is created while the first list of
workspaces loads; section 4 says what happens otherwise.

## 4. Where the code and what is said of it part

Checked by violation runs, each with a finding in `PROJECT.json`:

* **`NoOrphanedRun`** - after `MAX_CRAWL_DELIVERIES` the event is marked delivered although the run may
  still be leased to a dead worker, or FINALIZING, which the update of main.ts:54 does not match. There is no recovery
  scan, so nothing ends the run, and the project cannot start another.
* **`FullIsProcessed`** - an execution that read the run before another one froze it crawls on while
  FINALIZING; observations are refused but done marks are not, and the report is FULL. With a third lease (`MaxTokens = 3`) there is
  a second way: that execution dies after it added what the sitemaps list, and the next one publishes without looking at the
  frontier, part of which is PENDING. `FrozenWhenObserved` says what does hold: at the moment of the freeze everything in the
  frontier has been observed.

Met while modelling, described here and not stated by a run:

* A cancellation accepted while a partial or failed run is being finalized ends COMPLETED or FAILED; only the FULL
  path reads the flag again under the lock ("Cancellation always results in CANCELLED", ARCHITECTURE.en.md:329).
* The request timeout is an idle timeout of the socket (node-transport.ts:163), where ARCHITECTURE.en.md:308 allows a
  complete request 20 seconds: a body that trickles is ended by the byte cap only, which `FetchEnds` checks.
* The comment at address-classification.ts:108 speaks of `::/96`; the comparison covers `::/32`, which rejects more.
* The byte count an execution starts from is read before it holds the lease (executor.ts:83, 130) and
  written over the row at the end (657, 721): bytes persisted in between are taken back (against the comment at 143).
* `crawlBlockReason` looks at the latest challenge, so a re-verification in progress blocks crawls although the last
  success is recent; and it is not evaluated when a queued crawl is claimed (ARCHITECTURE.en.md:127 says both otherwise).
* The scanner does not queue a re-verification; the partial unique index of ARCHITECTURE.en.md:180 is not in the schema:
  the project lock alone keeps runs exclusive, which `OneActiveRun` checks.
* `startedAt` is set anew by each takeover, so the time limit restarts.
* A redirect target is added after its source is observed; a crash in between loses it if the site answers differently next time.
* That the frontier cap turned links away is kept in memory only and forgotten by a takeover, so a truncated run may be FULL:
  `FullIsClean` speaks of failed and blocked pages only.
* `BudgetsHold` speaks of pages and URLs. The byte budget does not bound the run, since executions count from a stale base (above).
* With two workers, a fenced-out one may hold the newer claim and acknowledge the event while the other
  still crawls; if that one then dies, no delivery is left. `DeliveredIsSettled` therefore holds for one worker only, which is
  what docker-compose.prod.yml:46 deploys.
* `publishRun` counts an issue as suppressed with `lt`, the report page with `lte`.
* `updateSchedule` reads `archivedAt` without the lock.

Reports and issues:

* A canonical link that does not resolve is a fault for `evaluateAllRules` and left out by `compareObservations`: such a
  verdict can turn without `CANONICAL_CHANGED`. `FlipsAreReported` makes this exception and no other.
* A page that redirects is judged by the status of its first hop, so a redirect to an error page is in order.
* A page that disappears from one run and is back in the next gets `URL_ADDED` again; there is no event for its disappearance.
* A deduction of exactly half a point may fall below it in doubles and is then rounded down (`HalvesDown`); `ScoreFollowsIssues`
  holds whichever way it goes.

Discovery:

* The cap on candidates reached exactly at the end of a document leaves the queued sitemaps unvisited without `limitReached`;
  `TruncationIsTold` makes this exception.
* A redirect from https whose second hop fails counts as a failure of the network and leads to the plain-HTTP probe, although the comment at
  executor.ts:492-494 says that a site that answers over TLS is never asked again.
* Depths 0 to 3 are visited, which is four levels of sitemaps.

Dashboard:

* `loadWorkspaces` has no request counter. A first answer that arrives after a workspace was created selects another one under the
  new selection's requests; with `Patient = FALSE` TLC finds `ShownInOrder` violated.
* The overview is read in several queries: a publication between the read of the project (report-service.ts:24) and that of the active run
  answers with the old report and no active run, and the page stops polling.
* The schedule that `toggleSchedule` shows may be overwritten by the answer of a poll that was read before.
* The form for a project is there only while the list is empty, and an empty list that arrives while the project is being created
  leaves the new project to the next load.
* A list that fails to load is not asked for again, while project data are; polling neither pauses in the background nor backs off.
* The list of changes without a run id follows the newest run from page to page.

## 5. Proofs

All theorems hold for every value of the constants allowed by the named assumptions
(`CrawlRunAssumption`, `ClaimTTLAssumption`, `ExecutorAssumption`, `TriggersAssumption`, `VerificationAssumption`, `PublicationAssumption`,
`MembershipAssumption`, `FetchAssumption`, `DiscoveryAssumption`, `DashboardAssumption`), which TLC evaluates in each run.

`CrawlRunProofs` - any number of workers and users, any durations.

* `TypeCorrect`: `[]TypeOK`, one step per action.
* `Invariance`: `HolderInv /\ RowInv`. `OneHolder` alone is not inductive: a worker could reach a
  holding pc with a token never handed out, or the token could be handed out twice. The strengthening adds
  `TokenBound` (no worker carries a token above the row's, so an acquired token is new) and
  `QueuedUnheld`. `ReportIsFull` and `CancelBeatsReport` need `TerminalUnleased`: only an active run can be
  leased, so no acquisition moves an ended run. `NoNewHolder` states what all actions but `Acquire` have in
  common, so that only one lemma treats the others.
* `OneHolderAlways`, `CancelBeatsReportAlways`, `ReportIsFullAlways` follow from it;
  `TerminalIsFinalAlways` and `SupersededIsInertAlways` are action properties proved under the same invariant.
* `Refinement`: `Spec => ImplementsLifecycle`; each step is one of `RunLifecycle` or leaves its variables alone.
* `DeliveredIsSettledAlone` assumes `Alone`, that there is one worker, and says so in its statement. `SoloInv` is what that worker may
  rely on: nobody takes its run over, so what it wrote is still there, or the run has ended, when it acknowledges the event.

`CrawlExecutorProofs` - any number of executions, any site, policy, and number of takeovers.

* `Invariance`: `IInv`, the conjunction of `RunInv` (of the rows, at any time) and `HolderInv` (of the execution whose token is current).
  The argument has three parts. Tokens are handed out once (`OneCurrent`), so at most one execution passes the fence, and the
  steps of all others leave rows and the holder alone (`Undisturbed`). What the holder did itself is therefore still there: the claim
  it took is its own (`OwnClaim`), the answer it is about to save is that of the page it claimed, its flags tell of every failure in the
  rows. And what it found when it took over, `Recover` makes true again: claims go back to PENDING, and the flags are derived from the
  observations of all its predecessors.
* `DoneIsObserved`, `NoItemIsStranded`, `FullHasNoFailure`, `GivenUpLate`, `LinksAreNotLost` and `BudgetsAreKept` follow from it;
  `FreezeFindsAllObserved` and `SupersededIsHarmless` are action properties under the same invariant; `Refinement` maps each step to
  one of `RunLifecycle`.
* `DoneMeansObserved` (until the freeze, a page marked done has its observation) is the invariant behind `FrozenWhenObserved`; no run lists it.
  None of the properties is inductive. That a FULL run has no open item, which a conjunct of `FullIsClean` used to say and two leases confirm,
  is false with three: the attempt to prove it led to the second way of section 4.

`CrawlTriggersProofs` - any number of processes and keys, any times.

* The argument is that of two locks. `LocksHeld` and `ChecksHold`: whoever is past its check holds the lock of the project, so what it
  checked still holds when it commits. `RecordExpired`: whoever creates a run with a key holds the lock of the key, so the record found
  expired is still expired. `AtMostOneActive` follows from the first, `KeysMakeOneRun` from the second with `RecordsLast` and `KeysApart`.
* `QuotaKeeps` counts: the window of a day that ends now contains the windows in which earlier runs were counted, so a creation
  that finds room leaves at most `MaxDaily` runs in every window.
* `SlotsAreAccounted`: `NextOnGrid` keeps the next slot on the grid of the first, and the lemmas `GridAdds` and `GridIsSparse` on multiples of
  the interval say that a scan finds exactly the slots between the next one and the last (`ScanCounts`). That runs and triggered slots
  are equally many needs `Decided`: a scanner that commits has decided the fate of its slot, which is a new one (`ScanKeepsSlots`).

`VerificationProofs` - any number of workers and challenges.

* `AcknowledgedIsSettled`, `LatestIsActive` and `TypeCorrect` from `TokensAreAttempts` and `AttemptsBounded` (a claim counts an attempt, and only
  a fault makes one in vain) and `WorksOnRequested` (a worker works on a challenge that was requested).
  `LostClaimsWriteNothing` is an action property under the same invariant.

`PublicationProofs` - any number of workers, pages, answers, runs and suppressions.

* `AlwaysComparedWithBaseline`: the invariant `BaseInv` says what each worker remembers. `RememberedInv` is the heart: what was read of the baseline
  is true as long as the worker's run is active. It needs `ActiveInv` (the active run is the last and not published) and
  `LatestInv` (the latest report has its details). The lease token has no part in it.
* `IssuesAlwaysFollowReports`: `SameHistory` says that what runs up to r say depends on them alone, so a publication adds one verdict to
  the history (`IssuesPublished`) and nothing else changes it (`KeptIssues`).
* `FlipsAlwaysReported`: rule by rule, a verdict that turns is a field that differs (`FlipHasEvent`).
* `ScoreAlwaysFollowsIssues`: division lemmas (`Quotient`, `QuotientAtLeast`, `QuotientGrows`), then `DeductionBounded` and `DeductionGrows`,
  the latter with the case that both counts are at or above the saturation and one is rounded down.

`MembershipProofs` - any set of users and invitations.

* `AlwaysOwned`: every write that takes an owner away leaves another one, which `SparesLastOwner` guarantees
  because it counts under the lock; the lemma `AnotherOwner` turns the count into a witness.
* `JoiningAlwaysConsumesInvitation` needs `Addressed` (a pending acceptance names an invitation that was
  addressed to its caller, and addresses never change).
* `OwnersAlwaysDecideOnOwners`: action by action, from `canModifyMember` evaluated on the role read in the transaction.

`DiscoveryProofs` - any hosts, URLs, addresses, documents and limits. First a single fetch, then the beginning of a crawl:

* `PublicV4IsUnreserved`: the octet comparisons of the code are exactly the reserved blocks, one step per block.
  `PublicIsUnreserved` lifts this to IPv6 and the addresses it wraps.
* `RequestsAlwaysVetted` needs what the call has established so far (`VettedInv`): a literal host is never resolved,
  so the only check of its address is the one made with the URL.
* `ResultAlwaysTellsTheRequests` needs `Running`: hops and requests grow in turn, which ties the redirect counter
  to the length of the chain.
* `WalkIsVetted`: every connection of the whole beginning of a crawl is to a vetted address. Nothing is assumed of the URLs that
  sitemaps and robots.txt name: `CallInv` holds for a call whatever it was made with.
* `RefusalsAreFinal`: `PolicyInv` relates the policy to the answers that were tried; a refusal among them denies.
* `DiscoveryTypeCorrect` and `WalkTellsTheRequests`: types and calls need each other (`BeginInv`). A call begins with a URL because the queue holds
  only URLs, and the walk starts at an http or https origin because the final URL of an answer is one that was vetted (`AnswerHasScheme`).
* `TruncationIsAlwaysTold` needs `WalkInv`: as long as `limitReached` is not set, every sitemap that a document named is asked for or in the
  queue (`Known`), and every page it listed is a candidate (`Accounted`); and the walk ends with an empty queue, with `limitReached`, or with
  the candidates used up. `PagesTold` and `ChildrenTold` say this of one document: its loops are
  modelled by the set of places they take, not by folds, so that no induction over documents is needed. `EntriesOf` (entries counted by
  rank cover exactly the places) and `FirstsSuffice` (leaving out repetitions leaves out no URL) carry them.

`DashboardProofs` - any number of workspaces, projects, connections and clicks.

* `PollsDoNotMultiply`: each call for data outdates the ones before (`DataRequested`, `EffectsCalls`), and the timer starts only with the answer of the one
  that counts, which is gone by then (`AnswerPolls`).
* `AnswersAreShownInOrder` assumes `Patient` (section 4 says what happens otherwise) and says so in its statement. `ShownInv` has a part for each
  way in which a late answer could be wrong. `DataInOrder`: the call for data that counts is about the project rendered, and what it
  has read is at least as new as what is shown, since reports only grow newer (`ServerGrows`). `OpInOrder`: an operation that is still
  current is about that project too, so what it loads is. This needs `ListsInOrder`, that one list counts and has every project
  the page knows: only then does a list leave the selection alone, or prefer a new project for an operation of another kind. And it needs
  `WorkspacesFirst`, that a list of workspaces comes before everything else or to the operation that waits for it.

Only model-checked: every liveness property (fairness and `ENABLED` are out of the prover's reach); `DeliveredIsSettled` for more than
one worker, where it is false. What a recursive definition computes for every input could not be proved either; none of the modules uses
recursion.

## 6. Plan

The order was: the run and its lease (the heart of the system), the crawl phase inside it, then what feeds
the run (verification, triggers, discovery) and what it feeds (publication, dashboard), membership beside them. Left:

1. Model: the time limit with a clock, the acknowledgement race of two workers as a run of its own; pure algorithms against
   reference definitions - robots precedence, URL identity, the sign-in rate limiter.
2. Prove: every safety property that a passing run checks is proved; the algorithms of item 1 against their definitions are next.

## 7. Not modelled, and why

* Parsing of robots.txt and matching of its rules, XML, HTML, URL identity (`packages/crawler`): no state; appears as the set of answers and documents.
* The syntax of URLs and addresses, and the encodings a body may have: a record of what the checks look at, two byte counts.
* Listings with their cursors, the members panel, login and invitation pages, the wrapper of the routes (validation, CSRF, error envelopes):
  single reads, or stateless.
* Sessions are kept by a library; the rate limiter is planned.
* The audit log is appended to by every operation and read by none.
* Issue transitions as rows: `Publication` keeps state and occurrence, which the transitions repeat.
* Creation of workspaces, projects and policies on the server: one project with its single immutable policy is the setting of every module but `Dashboard`.
