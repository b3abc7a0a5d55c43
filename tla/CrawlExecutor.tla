--------------------------- MODULE CrawlExecutor ---------------------------
(***************************************************************************)
(* The crawl phase of one run: seeds, the persisted URL frontier, page     *)
(* fetches with retries, observations, budgets, and the decision at the    *)
(* end whether the run is complete enough to be published.                 *)
(*                                                                         *)
(* An execution is one call of executeCrawl.  What it keeps in memory is   *)
(* in its own record and is lost when it crashes; a later execution has    *)
(* only the database.  The lease lapses whenever its holder is slow, so an *)
(* old execution may go on beside the one that took over.  Deliveries and  *)
(* direct cancellation are in CrawlRun.                                    *)
(***************************************************************************)
EXTENDS Naturals, FiniteSets

CONSTANTS
    Executions,   \* calls of executeCrawl on the run
    Urls,         \* page identities of the site
    NoUrl,        \* no frontier item
    Seeds,        \* the entry and the monitored pages
    SitemapUrls,  \* what the sitemaps list, when they can be fetched
    Disallowed,   \* pages robots.txt excludes
    Links,        \* Links[u]: in-scope links of u, if it answers with HTML
    Target,       \* Target[u]: where u redirects, if it redirects
    Answers,      \* the ways the site may answer a page request
    MaxPages, MaxFrontier, MaxRetries, ByteBudget,    \* the crawl policy
    MaxTokens     \* bound: lease acquisitions of one behaviour

ASSUME ExecutorAssumption ==
    /\ NoUrl \notin Urls
    /\ Seeds \subseteq Urls /\ SitemapUrls \subseteq Urls /\ Disallowed \subseteq Urls
    /\ Links \in [Urls -> SUBSET Urls] /\ Target \in [Urls -> Urls]
    /\ Answers \subseteq {"html", "redirect", "plain", "network", "security",
                          "toolarge", "blocked"}
    /\ {MaxPages, MaxFrontier, MaxRetries, ByteBudget, MaxTokens} \subseteq Nat
    /\ IsFiniteSet(Urls)

VARIABLES
    run,          \* the CrawlRun row
    frontier,     \* frontier[u]: state of the CrawlFrontier row of u, if any
    attempts,     \* attempts[u]: failed attempts recorded in that row
    obs,          \* obs[u]: outcome of the PageObservation of u, if any
    exec          \* exec[e]: what execution e is doing and remembers

vars == <<run, frontier, attempts, obs, exec>>
db   == <<run, frontier, attempts, obs>>

Active   == {"QUEUED", "RUNNING", "FINALIZING"}
Terminal == {"COMPLETED", "CANCELLED", "FAILED"}

\* CrawlFlags, with frontierTruncated and the forced robots failure.
Flags == {"unrecovered", "limit", "security", "budget", "cancelled", "truncated", "forced"}

\* Fetch outcomes, by what the executor makes of them.
HttpAnswers == {"html", "redirect", "plain"}
Unrecovered == {"network", "toolarge"}

Pcs == {"off", "acquire", "publish", "recover", "robots", "rules", "sitemap", "lists",
        "loop", "fetch", "wire", "retry", "links", "save", "target", "done", "finalize"}

\* Where an execution has a token of its own.
Started == Pcs \ {"off", "acquire"}

RunRow == [status : Active \cup Terminal, completeness : {"NONE", "PARTIAL", "FULL"},
           token : Nat, lease : BOOLEAN, cancelled : BOOLEAN, bytes : Nat]

\* What an execution remembers.
ExecState == [pc : Pcs, plan : {"publish", "cancel", "crawl"}, token : Nat,
              item : Urls \cup {NoUrl}, answer : {"none", "robots"} \cup Answers,
              bytes : Nat, flags : SUBSET Flags]

TypeOK ==
    /\ run \in RunRow
    /\ frontier \in [Urls -> {"absent", "PENDING", "FETCHING", "DONE"}]
    /\ attempts \in [Urls -> 0..MaxRetries]
    /\ obs \in [Urls -> {"none", "robots"} \cup Answers]
    /\ exec \in [Executions -> ExecState]

Fresh == [pc |-> "off", plan |-> "crawl", token |-> 0, item |-> NoUrl,
          answer |-> "none", bytes |-> 0, flags |-> {}]

Init ==
    /\ run = [status |-> "QUEUED", completeness |-> "NONE", token |-> 0,
              lease |-> FALSE, cancelled |-> FALSE, bytes |-> 0]
    /\ frontier = [u \in Urls |-> "absent"]
    /\ attempts = [u \in Urls |-> 0]
    /\ obs = [u \in Urls |-> "none"]
    /\ exec = [e \in Executions |-> Fresh]

At(e, pc) == exec[e].pc = pc

Goto(e, pc) == exec' = [exec EXCEPT ![e].pc = pc]

\* The call returns or throws; the slot may be used by a later delivery.
Abandon(e) == exec' = [exec EXCEPT ![e] = Fresh]

\* The execution goes to finalize with one more flag; CrawlStopped does this too.
Stop(e, flag) == exec' = [exec EXCEPT ![e].pc = "finalize",
                                      ![e].flags = @ \cup {flag}]

\* Mutation: a fence that forgets to compare tokens.
FenceAnyToken(e) == run.status \in Active

\* withRunFence.
Fence(e) == run.token = exec[e].token /\ run.status \in Active

InFrontier == {u \in Urls : frontier[u] # "absent"}
Unfinished == {u \in Urls : frontier[u] \in {"PENDING", "FETCHING"}}
Observed   == {u \in Urls : obs[u] # "none"}

-----------------------------------------------------------------------------
(* Starting, taking over, resuming. *)

\* The unlocked read: what it says of the run is used after the lease is held.
ReadRun(e) ==
    /\ At(e, "off")
    /\ run.status \in Active
    /\ exec' = [exec EXCEPT
         ![e].pc = "acquire",
         ![e].plan = IF run.cancelled THEN "cancel"
                     ELSE IF run.status = "FINALIZING" THEN "publish" ELSE "crawl",
         ![e].bytes = run.bytes]
    /\ UNCHANGED db

\* Mutation: what an earlier execution was fetching stays claimed.
FrontierKept == frontier

\* resetStaleFrontier: what an earlier execution was fetching is due again.
FrontierReset == [u \in Urls |-> IF frontier[u] = "FETCHING" THEN "PENDING" ELSE frontier[u]]

\* Mutation: an execution that takes over starts with clean flags.
NothingRecovered == {}

\* The flags that an execution can recover from the recorded observations.
RecoveredFlags == (IF \E u \in Urls : obs[u] = "security" THEN {"security"} ELSE {})
                  \cup (IF \E u \in Urls : obs[u] \in Unrecovered THEN {"unrecovered"} ELSE {})

\* Mutation: a takeover restarts the crawl phase.
LeasedRestarted(status) == "RUNNING"

\* A takeover keeps the phase FINALIZING.
Leased(status) == IF status = "FINALIZING" THEN "FINALIZING" ELSE "RUNNING"

\* acquireLease, then a frozen run is published at once; any other is recovered.
Acquire(e) ==
    /\ At(e, "acquire")
    /\ run.status \in Active
    /\ ~run.lease
    /\ run.token < MaxTokens
    /\ run' = [run EXCEPT !.status = Leased(@), !.token = @ + 1, !.lease = TRUE]
    /\ exec' = [exec EXCEPT ![e].token = run.token + 1,
                            ![e].pc = IF exec[e].plan = "publish" THEN "publish" ELSE "recover"]
    /\ UNCHANGED <<frontier, attempts, obs>>

AcquireFails(e) ==
    /\ At(e, "acquire")
    /\ run.lease \/ run.status \notin Active
    /\ Abandon(e)
    /\ UNCHANGED db

\* Frontier reset and recovered flags.  A cancellation counts here only if the
\* first read saw it.
Recover(e) ==
    /\ At(e, "recover")
    /\ frontier' = IF Fence(e) THEN FrontierReset ELSE frontier
    /\ exec' = [exec EXCEPT
         ![e].pc = IF exec[e].plan = "cancel" THEN "finalize" ELSE "robots",
         ![e].flags = RecoveredFlags
                      \cup (IF exec[e].plan = "cancel" THEN {"cancelled"} ELSE {})]
    /\ UNCHANGED <<run, attempts, obs>>

-----------------------------------------------------------------------------
(* Requests. *)

\* The wrapper around the fetcher, before the request: a superseded execution
\* throws; a cancellation, the byte budget and the time limit stop the crawl.
\* The time limit is not modelled by a clock: it may be found exceeded any time.
BeforeRequest(e, next) ==
    \/ run.token # exec[e].token /\ Abandon(e)
    \/ run.token = exec[e].token /\ run.cancelled /\ Stop(e, "cancelled")
    \/ /\ run.token = exec[e].token /\ ~run.cancelled
       /\ IF exec[e].bytes >= ByteBudget
            THEN Stop(e, "budget")
            ELSE Stop(e, "limit") \/ Goto(e, next)

\* Bodies are counted in units and may be smaller than one, as those of
\* redirects are; a request that fails brings none.
Sizes(answer) == IF answer \in HttpAnswers THEN 0..1 ELSE {0}

\* The wrapper after the request: the size is added to the row under the fence.
Charge(n) == run' = [run EXCEPT !.bytes = @ + n]

\* Mutation: the cap is checked against the frontier without its DONE part.
RoomIgnoringDone == IF Cardinality(Unfinished) >= MaxFrontier
                      THEN 0 ELSE MaxFrontier - Cardinality(Unfinished)

\* Places left under maxFrontierUrls.
Room == IF Cardinality(InFrontier) >= MaxFrontier
          THEN 0 ELSE MaxFrontier - Cardinality(InFrontier)

\* What the execution remembers once an answer has brought n units of body and
\* the flags seen.
Answered(e, n, seen, next) == [exec[e] EXCEPT !.pc = next, !.bytes = @ + n,
                                              !.flags = @ \cup seen]

\* Mutation: a page that is done may enter the frontier again.
UnseenOrDone(S) == {u \in S : frontier[u] \in {"absent", "DONE"}}

\* addFrontierUrl: each page enters the frontier of a run at most once.
Unseen(S) == {u \in S : frontier[u] = "absent"}

\* addCapped for each URL of S: unseen ones enter while there is room; the rest is
\* turned away, which only memory remembers.  The calls are transactions of their
\* own: an execution may die among them.
AddUrls(e, S, me) ==
    LET new == Unseen(S)
    IN  \E added \in SUBSET new :
          /\ Cardinality(added) <= Room
          /\ frontier' = IF Fence(e)
                           THEN [u \in Urls |-> IF u \in added THEN "PENDING" ELSE frontier[u]]
                           ELSE frontier
          /\ \/ /\ new = added \/ Cardinality(added) = Room
                /\ exec' = [exec EXCEPT ![e] =
                      [me EXCEPT !.flags = @ \cup IF new = added THEN {} ELSE {"truncated"}]]
             \/ /\ new # added
                /\ run.token < MaxTokens
                /\ Abandon(e)

\* renewLease, then the wrapper; without the fence the execution throws.
Ask(e, next) ==
    IF Fence(e)
      THEN run' = [run EXCEPT !.lease = TRUE] /\ BeforeRequest(e, next)
      ELSE Abandon(e) /\ UNCHANGED run

\* robots.txt is requested; its retries and its fallback to HTTP count as one.
AskRobots(e) ==
    /\ At(e, "robots")
    /\ Ask(e, "rules")
    /\ UNCHANGED <<frontier, attempts, obs>>

\* It denies or cannot be had, which forces a failure, or the seeds are added.
RobotsAnswers(e) ==
    /\ At(e, "rules")
    /\ \/ ~Fence(e) /\ Abandon(e) /\ UNCHANGED <<run, frontier>>
       \/ /\ Fence(e)
          /\ \E n \in 0..1 :
                /\ Charge(n)
                /\ \/ /\ exec' = [exec EXCEPT ![e] = Answered(e, n, {"forced"}, "finalize")]
                      /\ UNCHANGED frontier
                   \/ AddUrls(e, Seeds, Answered(e, n, {}, "sitemap"))
    /\ UNCHANGED <<attempts, obs>>

\* The sitemaps are requested; the walk over their documents counts as one request.
AskSitemap(e) ==
    /\ At(e, "sitemap")
    /\ Ask(e, "lists")
    /\ UNCHANGED <<frontier, attempts, obs>>

\* What they list is added.  The crawl goes on without an answer; documents and
\* entries beyond the caps of the walk count as a limit.
SitemapAnswers(e) ==
    /\ At(e, "lists")
    /\ \/ ~Fence(e) /\ Abandon(e) /\ UNCHANGED <<run, frontier>>
       \/ /\ Fence(e)
          /\ \E listed \in {{}, SitemapUrls}, n \in 0..1, seen \in {{}, {"limit"}} :
                /\ listed \cup seen # {} => n = 1
                /\ Charge(n)
                /\ AddUrls(e, listed, Answered(e, n, seen, "loop"))
    /\ UNCHANGED <<attempts, obs>>

-----------------------------------------------------------------------------
(* The frontier loop. *)

\* Mutation: the page budget is off by one.
PagesExceeded == Cardinality(Observed) > MaxPages

\* The page budget is used up.
PagesUsedUp == Cardinality(Observed) >= MaxPages

\* The checks at the top of the loop, in the order of the code, and the claim
\* of one due item (an item waiting for its retry is due at any later time; by
\* NothingStranded there is one whenever the fence holds).
Loop(e) ==
    /\ At(e, "loop")
    /\ \/ /\ Unfinished = {}
          /\ Goto(e, "finalize")
          /\ UNCHANGED <<run, frontier>>
       \/ /\ Unfinished # {}
          /\ \/ PagesUsedUp /\ Stop(e, "limit")
             \/ /\ ~PagesUsedUp
                /\ IF exec[e].bytes >= ByteBudget THEN Stop(e, "budget") ELSE Stop(e, "limit")
          /\ UNCHANGED <<run, frontier>>
       \/ /\ Unfinished # {}
          /\ ~PagesUsedUp
          /\ exec[e].bytes < ByteBudget
          /\ \/ ~Fence(e) /\ Abandon(e) /\ UNCHANGED <<run, frontier>>
             \/ Fence(e) /\ run.cancelled /\ Stop(e, "cancelled") /\ UNCHANGED <<run, frontier>>
             \/ /\ Fence(e) /\ ~run.cancelled
                /\ run' = [run EXCEPT !.lease = TRUE]
                /\ \E u \in Urls :
                      /\ frontier[u] = "PENDING"
                      /\ frontier' = [frontier EXCEPT ![u] = "FETCHING"]
                      /\ exec' = [exec EXCEPT ![e].pc = "fetch", ![e].item = u]
    /\ UNCHANGED <<attempts, obs>>

\* A disallowed page is recorded without a request.
Fetch(e) ==
    /\ At(e, "fetch")
    /\ IF exec[e].item \in Disallowed
         THEN exec' = [exec EXCEPT ![e].pc = "save", ![e].answer = "robots"]
         ELSE BeforeRequest(e, "wire")
    /\ UNCHANGED db

\* Mutation: links are not looked for.
AfterAnswerNoLinks(a) == IF a = "network" THEN "retry" ELSE "save"

\* A network error may be retried; HTML is searched for links before it is saved.
AfterAnswer(a) == CASE a = "network" -> "retry"
                    [] a = "html" -> "links"
                    [] OTHER -> "save"

\* The flags that an answer raises at once.
SeenIn(a) == CASE a = "security" -> {"security"}
               [] a = "toolarge" -> {"unrecovered"}
               [] OTHER -> {}

\* The page answers; what is done next depends on how.
PageAnswers(e) ==
    /\ At(e, "wire")
    /\ \/ ~Fence(e) /\ Abandon(e) /\ UNCHANGED run
       \/ /\ Fence(e)
          /\ \E a \in Answers :
             \E n \in Sizes(a) :
                /\ Charge(n)
                /\ exec' = [exec EXCEPT
                     ![e] = [Answered(e, n, SeenIn(a), AfterAnswer(a)) EXCEPT !.answer = a]]
    /\ UNCHANGED <<frontier, attempts, obs>>

\* Mutation: one retry too many.
MayRetryAgain(n) == n <= MaxRetries

\* Mutation: one retry too few.
MayRetryOnce(n) == n + 1 < MaxRetries

\* MAX_PAGE_RETRIES.
MayRetry(n) == n + 1 <= MaxRetries

\* Mutation: the failed attempt is not written back to the row.
Uncounted(n) == n

\* item.attempts + 1.
Counted(n) == n + 1

\* A network error puts the item back until its retries are used up.
Retry(e) ==
    LET u == exec[e].item
    IN  /\ At(e, "retry")
        /\ IF MayRetry(attempts[u])
             THEN /\ exec' = [exec EXCEPT ![e].pc = "loop", ![e].item = NoUrl,
                                          ![e].answer = "none"]
                  /\ IF Fence(e)
                       THEN /\ frontier' = [frontier EXCEPT ![u] = "PENDING"]
                            /\ attempts' = [attempts EXCEPT ![u] = Counted(@)]
                       ELSE UNCHANGED <<frontier, attempts>>
             ELSE /\ exec' = [exec EXCEPT ![e].pc = "save",
                                          ![e].flags = @ \cup {"unrecovered"}]
                  /\ UNCHANGED <<frontier, attempts>>
        /\ UNCHANGED <<run, obs>>

\* Links are discovered before the observation is saved.
AddLinks(e) ==
    /\ At(e, "links")
    /\ AddUrls(e, Links[exec[e].item], Answered(e, 0, {}, "save"))
    /\ UNCHANGED <<run, attempts, obs>>

\* Mutation: observations need a lease that has not lapsed.
CanObserveWhileLeased(e) == Fence(e) /\ run.status = "RUNNING" /\ run.lease

\* saveObservation writes only while the run is RUNNING, under the fence.
CanObserve(e) == Fence(e) /\ run.status = "RUNNING"

\* saveObservation keeps the first observation of a page.
Save(e) ==
    LET u == exec[e].item
    IN  /\ At(e, "save")
        /\ obs' = IF CanObserve(e) /\ obs[u] = "none"
                    THEN [obs EXCEPT ![u] = exec[e].answer] ELSE obs
        /\ Goto(e, IF exec[e].answer = "redirect" THEN "target" ELSE "done")
        /\ UNCHANGED <<run, frontier, attempts>>

\* The target of a redirect chain becomes a page of its own.
AddTarget(e) ==
    /\ At(e, "target")
    /\ AddUrls(e, {Target[exec[e].item]}, Answered(e, 0, {}, "done"))
    /\ UNCHANGED <<run, attempts, obs>>

MarkDone(e) ==
    /\ At(e, "done")
    /\ frontier' = IF Fence(e) THEN [frontier EXCEPT ![exec[e].item] = "DONE"] ELSE frontier
    /\ exec' = [exec EXCEPT ![e].pc = "loop", ![e].item = NoUrl, ![e].answer = "none"]
    /\ UNCHANGED <<run, attempts, obs>>

-----------------------------------------------------------------------------
(* finalize and publishRun. *)

\* Everything that finalize holds against a run that wants to be complete.
Missing(e) == exec[e].flags
              \cup (IF exec[e].bytes > ByteBudget THEN {"budget"} ELSE {})
              \cup (IF Unfinished # {} THEN {"limit"} ELSE {})

AnyHttp == \E u \in Urls : obs[u] \in HttpAnswers

FullCandidate(e) == Missing(e) = {} /\ AnyHttp

\* Status and completeness of a run without a report, in the order of the code.
Outcome(e) ==
    CASE "forced" \in exec[e].flags    -> <<"FAILED", "NONE">>
      [] "forced" \notin exec[e].flags /\ "cancelled" \in exec[e].flags
                                       -> <<"CANCELLED", "NONE">>
      [] exec[e].flags \cap {"forced", "cancelled"} = {} /\ ~AnyHttp
                                       -> <<"FAILED", "NONE">>
      [] OTHER                         -> <<"COMPLETED", "PARTIAL">>

\* A full candidate freezes the observations, unless a cancellation was recorded.
\* What the execution counted replaces the bytes in the row.
MarkFinalizing(e) ==
    /\ At(e, "finalize")
    /\ FullCandidate(e)
    /\ \/ ~Fence(e) /\ Abandon(e) /\ UNCHANGED run
       \/ Fence(e) /\ run.cancelled /\ Stop(e, "cancelled") /\ UNCHANGED run
       \/ /\ Fence(e) /\ ~run.cancelled
          /\ run' = [run EXCEPT !.status = "FINALIZING", !.bytes = exec[e].bytes]
          /\ Goto(e, "publish")
    /\ UNCHANGED <<frontier, attempts, obs>>

\* Any other run gets its terminal status and releases the lease.
TerminalWrite(e) ==
    /\ At(e, "finalize")
    /\ ~FullCandidate(e)
    /\ run' = IF Fence(e)
                THEN [run EXCEPT !.status = Outcome(e)[1], !.completeness = Outcome(e)[2],
                                 !.lease = FALSE, !.bytes = exec[e].bytes]
                ELSE run
    /\ Abandon(e)
    /\ UNCHANGED <<frontier, attempts, obs>>

CanPublish(e) == Fence(e) /\ run.status = "FINALIZING" /\ ~run.cancelled

\* The publication transaction.
Publish(e) ==
    /\ At(e, "publish")
    /\ CanPublish(e)
    /\ run' = [run EXCEPT !.status = "COMPLETED", !.completeness = "FULL", !.lease = FALSE]
    /\ Abandon(e)
    /\ UNCHANGED <<frontier, attempts, obs>>

\* Publication is refused.  An execution that only resumed a frozen run goes on
\* to crawl; one that froze it itself confirms a cancellation or gives up.
PublishRefused(e) ==
    /\ At(e, "publish")
    /\ ~CanPublish(e)
    /\ \/ /\ exec[e].plan = "publish"
          /\ exec' = [exec EXCEPT ![e].pc = "recover", ![e].plan = "crawl"]
       \/ exec[e].plan # "publish" /\ run.cancelled /\ Stop(e, "cancelled")
       \/ exec[e].plan # "publish" /\ ~run.cancelled /\ Abandon(e)
    /\ UNCHANGED db

-----------------------------------------------------------------------------
(* The world around an execution. *)

\* A slow holder lets its lease lapse and works on.
Lapse == /\ run.lease
         /\ run' = [run EXCEPT !.lease = FALSE]
         /\ UNCHANGED <<frontier, attempts, obs, exec>>

\* The process dies between two steps, or a database call throws.
Crash(e) == /\ exec[e].pc \in Started
            /\ run.token < MaxTokens
            /\ Abandon(e)
            /\ UNCHANGED db

\* cancelCrawl leaves a flag, or ends a run without a live lease and fences out
\* whoever works on it.
CancelFlag == /\ run.status \in Active \ {"QUEUED"}
              /\ run' = [run EXCEPT !.cancelled = TRUE]
              /\ UNCHANGED <<frontier, attempts, obs, exec>>

CancelDirect == /\ run.status \in Active
                /\ ~run.lease
                /\ run.token < MaxTokens
                /\ run' = [run EXCEPT !.status = "CANCELLED", !.cancelled = TRUE,
                                      !.token = @ + 1]
                /\ UNCHANGED <<frontier, attempts, obs, exec>>

-----------------------------------------------------------------------------

Step(e) == \/ ReadRun(e) \/ Acquire(e) \/ AcquireFails(e) \/ Recover(e)
           \/ AskRobots(e) \/ RobotsAnswers(e) \/ AskSitemap(e) \/ SitemapAnswers(e)
           \/ Loop(e) \/ Fetch(e) \/ PageAnswers(e) \/ Retry(e) \/ AddLinks(e)
           \/ Save(e) \/ AddTarget(e) \/ MarkDone(e)
           \/ MarkFinalizing(e) \/ TerminalWrite(e) \/ Publish(e) \/ PublishRefused(e)

Next == \/ \E e \in Executions : Step(e) \/ Crash(e)
        \/ Lapse \/ CancelFlag \/ CancelDirect

Spec == Init /\ [][Next]_vars

\* Executions go on and the lease of a dead one lapses; deliveries keep coming,
\* as CrawlRun shows within its bounds.
FairSpec == /\ Spec
            /\ \A e \in Executions : WF_vars(Step(e))
            /\ WF_vars(Lapse /\ \A e \in Executions : At(e, "off") \/ ~Fence(e))

-----------------------------------------------------------------------------
(* What must hold. *)

\* Before the observations are frozen, a page that is done has an observation,
\* though the two are written by separate transactions of an execution that may
\* be superseded or die between them (saveObservation, markFrontierDone).
DoneMeansObserved ==
    run.status \in {"QUEUED", "RUNNING"}
    => \A u \in Urls : frontier[u] = "DONE" => u \in Observed

\* No item is stranded by a crash: the execution that holds the run finds no
\* item FETCHING that nobody fetches (resetStaleFrontier).
NothingStranded ==
    \A e \in Executions : At(e, "loop") /\ Fence(e)
                           => \A u \in Urls : frontier[u] # "FETCHING"

\* No failed page was seen by a FULL run, also when the failure was seen by an
\* execution that died long before (finalize, recovery of the flags).
FullIsClean ==
    run.completeness = "FULL"
    => AnyHttp /\ \A u \in Urls : obs[u] \notin Unrecovered \cup {"security"}

\* When the observations are frozen, every URL the run has heard of has one,
\* whichever executions worked on it (finalize counts open items of the frontier
\* only, and knows nothing of what its predecessors observed).
FrozenWhenObserved ==
    [][run.status = "RUNNING" /\ run'.status = "FINALIZING" => InFrontier \subseteq Observed]_vars

\* A page is recorded as unreachable only after all its retries, whichever
\* executions made them (the attempts in the frontier row survive a takeover).
GivenUpAfterRetries ==
    \A u \in Urls : obs[u] = "network" => attempts[u] = MaxRetries

\* Links are in the frontier before their page is observed, so that no crash
\* loses them; only the frontier cap turns links away (executeCrawl, addCapped).
LinksBeforeObservation ==
    \A u \in Urls : obs[u] = "html" => \/ Links[u] \subseteq InFrontier
                                       \/ Cardinality(InFrontier) >= MaxFrontier

\* Page budget and frontier cap hold for the run, not for one execution of it:
\* the pages observed and the URLs remembered, over all takeovers (executeCrawl,
\* addCapped).  The byte budget is no such bound: each execution counts on from
\* what it read before it held the lease.
BudgetsHold ==
    Cardinality(Observed) <= MaxPages /\ Cardinality(InFrontier) <= MaxFrontier

\* A superseded execution writes nothing at all, wherever it was when it lost
\* the run (withRunFence around every write of the crawl phase).
SupersededWritesNothing ==
    [][\A e \in Executions :
          exec[e].pc \in Started /\ run.token # exec[e].token /\ exec'[e] # exec[e]
          => UNCHANGED db]_vars

\* The crawl phase moves the run only along its status diagram.
Lifecycle == INSTANCE RunLifecycle WITH
                status         <- run.status,
                reported       <- run.completeness = "FULL",
                cancelAccepted <- run.cancelled

ImplementsLifecycle == Lifecycle!Spec

\* Every run ends: pages that link or redirect to each other, and pages that
\* keep failing, cannot keep it busy for ever, even if the time limit and the
\* byte budget never stop it (addFrontierUrl, MAX_PAGE_RETRIES).
RunEnds == <>(run.status \in Terminal)

-----------------------------------------------------------------------------
(* What the documentation says and the code does not do. *)

\* FULL: "The frontier within configured scope has been processed".
FullIsProcessed ==
    run.completeness = "FULL" => \A u \in InFrontier : frontier[u] = "DONE" /\ u \in Observed

=============================================================================
