------------------------------ MODULE CrawlRun ------------------------------
(***************************************************************************)
(* One crawl run and everything that races for it: worker processes that   *)
(* claim its outbox event and execute it under a lease, users who cancel   *)
(* it, crashes, failed database calls, claims and leases that lapse while  *)
(* their holder is slow.                                                   *)
(*                                                                         *)
(* One action is one database statement or transaction; what a worker      *)
(* remembers between two of them is in its own record.  The crawl phase    *)
(* itself (frontier, fetches, budgets) is reduced here to its verdict.     *)
(***************************************************************************)
EXTENDS Outbox

CONSTANTS
    Workers,          \* worker processes
    Users,            \* callers of the cancel endpoint
    LeaseTTL,         \* LEASE_MS of the executor, in time units
    RetryDelay,       \* CRAWL_RETRY_DELAY_MS, in time units
    MaxDeliveries,    \* MAX_CRAWL_DELIVERIES
    MaxFaults,        \* bound: crashes and failed calls of one behaviour
    MaxClaims         \* bound: claims of the event in one behaviour

ASSUME CrawlRunAssumption ==
    /\ LeaseTTL \in Nat \ {0}
    /\ RetryDelay \in Nat
    /\ MaxDeliveries \in Nat
    /\ MaxFaults \in Nat
    /\ MaxClaims \in Nat

VARIABLES
    run,       \* the CrawlRun row
    event,     \* its crawl.requested outbox row
    worker,    \* worker[w]: what process w is doing and remembers
    user,      \* user[u]: where a cancel call of u stands
    faults     \* faults so far

vars == <<run, event, worker, user, faults>>

Active   == {"QUEUED", "RUNNING", "FINALIZING"}
Terminal == {"COMPLETED", "CANCELLED", "FAILED"}

\* What the crawl phase found out, which is all finalize looks at: everything
\* in scope was observed; something is missing; no page answered; robots.txt
\* forced a failure; the cancel flag was seen.  "unset" before the phase ends.
Verdicts == {"unset", "full", "partial", "none", "forced", "cancelled"}

\* What the unlocked read at the top of executeCrawl makes the worker do after
\* it gets the lease: publish a frozen run, confirm a cancellation, or crawl.
Plans == {"publish", "cancel", "crawl"}

\* The program counter: the call a worker makes next.
Pcs == {"idle", "exhaust", "read", "acquire", "crawl", "finalize",
        "checkPublished", "publish", "recheck", "deliver", "reschedule"}

\* The points of executeCrawl at which the worker believes it holds the lease.
Holding == {"crawl", "finalize", "checkPublished", "publish", "recheck"}

IdleWorker == [pc |-> "idle", claim |-> NoClaim, plan |-> "crawl",
               token |-> 0, verdict |-> "unset"]

RunRow == [status       : Active \cup Terminal,
           completeness : {"NONE", "PARTIAL", "FULL"},
           token        : Nat,
           lease        : 0..LeaseTTL,
           cancelled    : BOOLEAN,
           published    : BOOLEAN]

EventRow == [delivered  : BOOLEAN,
             attempts   : Nat,
             claimToken : Nat,
             claim      : 0..ClaimTTL,
             delay      : 0..RetryDelay]

WorkerState == [pc : Pcs, claim : Nat, plan : Plans, token : Nat, verdict : Verdicts]

TypeOK ==
    /\ run \in RunRow
    /\ event \in EventRow
    /\ worker \in [Workers -> WorkerState]
    /\ user \in [Users -> {"idle", "direct", "flag"}]
    /\ faults \in 0..MaxFaults

Init ==
    /\ run = [status |-> "QUEUED", completeness |-> "NONE", token |-> 0,
              lease |-> 0, cancelled |-> FALSE, published |-> FALSE]
    /\ event = NewEvent
    /\ worker = [w \in Workers |-> IdleWorker]
    /\ user = [u \in Users |-> "idle"]
    /\ faults = 0

At(w, pc) == worker[w].pc = pc

Goto(w, pc) == worker' = [worker EXCEPT ![w].pc = pc]

\* Mutation: a fence that forgets to compare tokens.
FenceAnyToken(w) == run.status \in Active

\* Mutation: a fence that forgets to ask whether the run is still active.
FenceAnyStatus(w) == run.token = worker[w].token

\* withRunFence: the row lock is taken and the token and status still match.
Fence(w) == /\ run.token = worker[w].token
            /\ run.status \in Active

-----------------------------------------------------------------------------
(* The outbox side of a worker: tick and processCrawlJob. *)

\* claimBatch hands the event out; too many deliveries lead to the exhaustion
\* branch instead of another execution.
Claim(w) ==
    /\ At(w, "idle")
    /\ Claimable(event)
    /\ event.attempts < MaxClaims
    /\ event' = Claimed(event)
    /\ worker' = [worker EXCEPT ![w] =
                    [IdleWorker EXCEPT
                       !.pc = IF event.attempts + 1 > MaxDeliveries
                                THEN "exhaust" ELSE "read",
                       !.claim = event.attempts + 1]]
    /\ UNCHANGED <<run, user, faults>>

\* The updateMany of the exhaustion branch: a run nobody holds becomes FAILED,
\* unless it is FINALIZING; the event is marked delivered in every case.
Exhaust(w) ==
    /\ At(w, "exhaust")
    /\ run' = IF run.status \in {"QUEUED", "RUNNING"} /\ run.lease = 0
                THEN [run EXCEPT !.status = "FAILED"]
                ELSE run
    /\ Goto(w, "deliver")
    /\ UNCHANGED <<event, user, faults>>

\* markDelivered after executeCrawl returned, whatever it returned.
Deliver(w) ==
    /\ At(w, "deliver")
    /\ event' = MarkDelivered(event, worker[w].claim)
    /\ worker' = [worker EXCEPT ![w] = IdleWorker]
    /\ UNCHANGED <<run, user, faults>>

\* reschedule after executeCrawl threw.
RescheduleEvent(w) ==
    /\ At(w, "reschedule")
    /\ event' = Reschedule(event, worker[w].claim, RetryDelay)
    /\ worker' = [worker EXCEPT ![w] = IdleWorker]
    /\ UNCHANGED <<run, user, faults>>

-----------------------------------------------------------------------------
(* executeCrawl, up to the crawl phase. *)

\* The read at the top takes no lock; a terminal run needs no work.
ReadRun(w) ==
    /\ At(w, "read")
    /\ worker' = [worker EXCEPT
         ![w].pc = IF run.status \in Terminal THEN "deliver" ELSE "acquire",
         ![w].plan = IF run.cancelled THEN "cancel"
                     ELSE IF run.status = "FINALIZING" THEN "publish"
                     ELSE "crawl"]
    /\ UNCHANGED <<run, event, user, faults>>

\* Mutation: a takeover that does not advance the fencing token.
LeasedSameToken(r) ==
    [r EXCEPT !.status = IF r.status = "FINALIZING" THEN "FINALIZING" ELSE "RUNNING",
              !.lease  = LeaseTTL]

\* Mutation: a takeover that restarts the crawl phase.
LeasedRestarted(r) ==
    [r EXCEPT !.status = "RUNNING", !.token = r.token + 1, !.lease = LeaseTTL]

\* The row as acquireLease leaves it; a takeover keeps the phase FINALIZING.
Leased(r) ==
    [r EXCEPT !.status = IF r.status = "FINALIZING" THEN "FINALIZING" ELSE "RUNNING",
              !.token  = r.token + 1,
              !.lease  = LeaseTTL]

\* acquireLease: one UPDATE, only on an active run without a live lease.
\* What to do next was decided by the read.
Acquire(w) ==
    /\ At(w, "acquire")
    /\ run.status \in Active
    /\ run.lease = 0
    /\ run' = Leased(run)
    /\ worker' = [worker EXCEPT
         ![w].token = run.token + 1,
         ![w].pc = CASE worker[w].plan = "publish" -> "checkPublished"
                     [] worker[w].plan = "cancel"  -> "finalize"
                     [] worker[w].plan = "crawl"   -> "crawl",
         ![w].verdict = IF worker[w].plan = "cancel" THEN "cancelled" ELSE "unset"]
    /\ UNCHANGED <<event, user, faults>>

\* Mutation: contention is swallowed instead of thrown.
ContentionSwallowed(w) ==
    /\ At(w, "acquire")
    /\ run.status \notin Active \/ run.lease > 0
    /\ Goto(w, "deliver")
    /\ UNCHANGED <<run, event, user, faults>>

\* No lease to be had: executeCrawl throws.
AcquireFails(w) ==
    /\ At(w, "acquire")
    /\ run.status \notin Active \/ run.lease > 0
    /\ Goto(w, "reschedule")
    /\ UNCHANGED <<run, event, user, faults>>

-----------------------------------------------------------------------------
(* The crawl phase. *)

\* renewLease in the loop; it does not ask whether the lease has lapsed.
Renew(w) ==
    /\ At(w, "crawl")
    /\ Fence(w)
    /\ run' = [run EXCEPT !.lease = LeaseTTL]
    /\ UNCHANGED <<event, worker, user, faults>>

\* The worker notices that it lost the run: the check at the top of the loop
\* returns, a failed renewal or the fetch wrapper throws.
NoticeLoss(w) ==
    /\ At(w, "crawl")
    /\ ~Fence(w)
    /\ \/ run.token # worker[w].token /\ Goto(w, "deliver")
       \/ Goto(w, "reschedule")
    /\ UNCHANGED <<run, event, user, faults>>

\* The loop or the fetch wrapper sees cancelRequestedAt.
NoticeCancel(w) ==
    /\ At(w, "crawl")
    /\ run.token = worker[w].token
    /\ run.cancelled
    /\ worker' = [worker EXCEPT ![w].pc = "finalize", ![w].verdict = "cancelled"]
    /\ UNCHANGED <<run, event, user, faults>>

\* The phase ends by itself; every exit before the cancel check is possible
\* whether or not a cancellation has arrived.
EndCrawl(w) ==
    /\ At(w, "crawl")
    /\ \E v \in {"full", "partial", "none", "forced"} :
          worker' = [worker EXCEPT ![w].pc = "finalize", ![w].verdict = v]
    /\ UNCHANGED <<run, event, user, faults>>

-----------------------------------------------------------------------------
(* finalize and publishRun. *)

\* A full candidate freezes the run, unless its fenced read sees the flag: then
\* finalize starts over as cancelled.  Fenced out, executeCrawl returns.
MarkFinalizing(w) ==
    /\ At(w, "finalize")
    /\ worker[w].verdict = "full"
    /\ \/ /\ ~Fence(w)
          /\ Goto(w, "deliver")
          /\ UNCHANGED run
       \/ /\ Fence(w)
          /\ run.cancelled
          /\ worker' = [worker EXCEPT ![w].verdict = "cancelled"]
          /\ UNCHANGED run
       \/ /\ Fence(w)
          /\ ~run.cancelled
          /\ run' = [run EXCEPT !.status = "FINALIZING"]
          /\ Goto(w, "checkPublished")
    /\ UNCHANGED <<event, user, faults>>

\* Mutation: a run that missed pages is called complete.
OutcomeAlwaysFull(v) ==
    CASE v = "forced"    -> [status |-> "FAILED",    completeness |-> "NONE"]
      [] v = "cancelled" -> [status |-> "CANCELLED", completeness |-> "NONE"]
      [] v = "none"      -> [status |-> "FAILED",    completeness |-> "NONE"]
      [] OTHER           -> [status |-> "COMPLETED", completeness |-> "FULL"]

\* Mutation: status and completeness of a cancelled run are swapped.
OutcomeSwapped(v) ==
    CASE v = "forced"    -> [status |-> "FAILED",    completeness |-> "NONE"]
      [] v = "cancelled" -> [status |-> "NONE", completeness |-> "CANCELLED"]
      [] v = "none"      -> [status |-> "FAILED",    completeness |-> "NONE"]
      [] OTHER           -> [status |-> "COMPLETED", completeness |-> "PARTIAL"]

\* The outcome of a run that publishes no report.
UnpublishedOutcome(v) ==
    CASE v = "forced"    -> [status |-> "FAILED",    completeness |-> "NONE"]
      [] v = "cancelled" -> [status |-> "CANCELLED", completeness |-> "NONE"]
      [] v = "none"      -> [status |-> "FAILED",    completeness |-> "NONE"]
      [] OTHER           -> [status |-> "COMPLETED", completeness |-> "PARTIAL"]

\* The terminal write of every other run.  The flag is not read again here.
TerminalWrite(w) ==
    /\ At(w, "finalize")
    /\ worker[w].verdict # "full"
    /\ run' = IF Fence(w)
                THEN [run EXCEPT
                        !.status = UnpublishedOutcome(worker[w].verdict).status,
                        !.completeness = UnpublishedOutcome(worker[w].verdict).completeness,
                        !.lease = 0]
                ELSE run
    /\ Goto(w, "deliver")
    /\ UNCHANGED <<event, user, faults>>

\* The unlocked read that opens publishRun: a published run needs nothing more.
CheckPublished(w) ==
    /\ At(w, "checkPublished")
    /\ Goto(w, IF run.published THEN "deliver" ELSE "publish")
    /\ UNCHANGED <<run, event, user, faults>>

\* Mutation: publication does not look at the cancel flag.
CanPublishUnchecked(w) == /\ Fence(w)
                          /\ run.status = "FINALIZING"

\* What publishRun requires of the row it has locked.
CanPublish(w) == /\ Fence(w)
                 /\ run.status = "FINALIZING"
                 /\ ~run.cancelled

\* The publication transaction: report, terminal status and lease release.
Publish(w) ==
    /\ At(w, "publish")
    /\ CanPublish(w)
    /\ run' = [run EXCEPT !.status = "COMPLETED", !.completeness = "FULL",
                          !.published = TRUE, !.lease = 0]
    /\ Goto(w, "deliver")
    /\ UNCHANGED <<event, user, faults>>

\* publishRun returns published: false.  A worker that resumed a frozen run
\* goes on into the crawl phase; one that came from finalize asks why.
PublishRefused(w) ==
    /\ At(w, "publish")
    /\ ~CanPublish(w)
    /\ Goto(w, IF worker[w].verdict = "unset" THEN "crawl" ELSE "recheck")
    /\ UNCHANGED <<run, event, user, faults>>

\* finalize reads the flag once more: cancelled, or fenced out.
Recheck(w) ==
    /\ At(w, "recheck")
    /\ worker' = IF run.cancelled
                   THEN [worker EXCEPT ![w].pc = "finalize",
                                       ![w].verdict = "cancelled"]
                   ELSE [worker EXCEPT ![w].pc = "deliver"]
    /\ UNCHANGED <<run, event, user, faults>>

-----------------------------------------------------------------------------
(* Faults and time. *)

\* A call of executeCrawl fails (the database, the resolver): it throws.  So does
\* markDelivered after it, but not in the exhaustion branch.
Fail(w) ==
    /\ \/ worker[w].pc \in Holding \cup {"read", "acquire"}
       \/ At(w, "deliver") /\ worker[w].claim <= MaxDeliveries
    /\ faults < MaxFaults
    /\ faults' = faults + 1
    /\ Goto(w, "reschedule")
    /\ UNCHANGED <<run, event, user>>

\* The process dies, or a call of the exhaustion branch or of reschedule fails:
\* claim and lease stay in the database until they lapse.
Crash(w) ==
    /\ ~At(w, "idle")
    /\ faults < MaxFaults
    /\ faults' = faults + 1
    /\ worker' = [worker EXCEPT ![w] = IdleWorker]
    /\ UNCHANGED <<run, event, user>>

\* One unit of time passes.
Tick ==
    /\ run.lease > 0 \/ event.claim > 0 \/ event.delay > 0
    /\ run' = [run EXCEPT !.lease = Less(@)]
    /\ event' = EventTick(event)
    /\ UNCHANGED <<worker, user, faults>>

-----------------------------------------------------------------------------
(* cancelCrawl: an unlocked read, then one guarded update. *)

\* The read decides which update is made; a terminal run is answered at once.
CancelRead(u) ==
    /\ user[u] = "idle"
    /\ run.status \in Active
    /\ user' = [user EXCEPT ![u] =
                  IF run.status = "QUEUED" \/ run.lease = 0 THEN "direct" ELSE "flag"]
    /\ UNCHANGED <<run, event, worker, faults>>

\* No live worker was seen: cancel the run and fence out whoever holds it now.
CancelDirect(u) ==
    /\ user[u] = "direct"
    /\ run' = IF run.status \in Active
                THEN [run EXCEPT !.status = "CANCELLED", !.token = @ + 1,
                                 !.lease = 0, !.cancelled = TRUE]
                ELSE run
    /\ user' = [user EXCEPT ![u] = "idle"]
    /\ UNCHANGED <<event, worker, faults>>

\* A live worker was seen: leave it the flag.
CancelFlag(u) ==
    /\ user[u] = "flag"
    /\ run' = IF run.status \in Active THEN [run EXCEPT !.cancelled = TRUE] ELSE run
    /\ user' = [user EXCEPT ![u] = "idle"]
    /\ UNCHANGED <<event, worker, faults>>

-----------------------------------------------------------------------------

\* The steps a live worker keeps taking.
Work(w) == \/ Claim(w) \/ Exhaust(w) \/ Deliver(w) \/ RescheduleEvent(w)
           \/ ReadRun(w) \/ Acquire(w) \/ AcquireFails(w)
           \/ NoticeLoss(w) \/ NoticeCancel(w) \/ EndCrawl(w)
           \/ MarkFinalizing(w) \/ TerminalWrite(w)
           \/ CheckPublished(w) \/ Publish(w) \/ PublishRefused(w) \/ Recheck(w)

Next == \/ \E w \in Workers : Work(w) \/ Renew(w) \/ Fail(w) \/ Crash(w)
        \/ \E u \in Users : CancelRead(u) \/ CancelDirect(u) \/ CancelFlag(u)
        \/ Tick

Spec == Init /\ [][Next]_vars

\* Workers poll and run on, time passes; nobody has to cancel or to fail, and a
\* call that a user has begun need not end.
FairSpec == /\ Spec
            /\ \A w \in Workers : WF_vars(Work(w))
            /\ WF_vars(Tick)

-----------------------------------------------------------------------------
(* What must hold. *)

\* At most one worker believes it holds the lease and carries the current
\* token, however often leases lapse under slow workers (acquireLease).
OneHolder ==
    \A w1, w2 \in Workers :
        /\ worker[w1].pc \in Holding /\ worker[w1].token = run.token
        /\ worker[w2].pc \in Holding /\ worker[w2].token = run.token
        => w1 = w2

\* A cancellation that was recorded first keeps the report from appearing, and
\* a cancellation that lost is not recorded on the published run (cancelCrawl
\* and publishRun lock the same row).
CancelBeatsReport == run.published => ~run.cancelled

\* A report is out exactly when the run is COMPLETED and FULL: neither a crash
\* between freezing and publishing nor a resumed publication leaves one without
\* the other (finalize, publishRun).
ReportIsFull ==
    run.published <=> run.status = "COMPLETED" /\ run.completeness = "FULL"

\* A worker whose lease was taken over, or whose run was cancelled directly,
\* no longer changes the run, wherever it was when that happened (withRunFence).
SupersededIsInert ==
    [][\A w \in Workers :
          /\ worker[w].pc \in Holding /\ worker[w].token # run.token
          /\ worker'[w] # worker[w]
          => UNCHANGED run]_vars

\* A worker whose run has ended under it never revives it: the row of a
\* terminal run stays as it ended.
TerminalIsFinal ==
    [][run.status \in Terminal => UNCHANGED run]_vars

\* Behind leases, claims and retries the run follows its status diagram.
Lifecycle == INSTANCE RunLifecycle WITH
                status         <- run.status,
                reported       <- run.published,
                cancelAccepted <- run.cancelled

ImplementsLifecycle == Lifecycle!Spec

\* A delivered event leaves a run that is settled, as long as deliveries were
\* not exhausted.  It holds for one worker process; with two, a superseded
\* worker may hold the newer claim and deliver the event of the other.
DeliveredIsSettled ==
    event.delivered /\ event.attempts <= MaxDeliveries => run.status \in Terminal

\* Whatever fails, the run reaches a terminal status and the queue is rid of
\* its event, both for good.
RunSettles == <>[](run.status \in Terminal /\ event.delivered)

-----------------------------------------------------------------------------
(* What the documentation says and the code does not do. *)

\* "Redeliver recoverable tasks": a run that nobody works on still has an
\* undelivered event that will bring a worker to it.
NoOrphanedRun ==
    event.delivered /\ run.status \in Active
    => \E w \in Workers : worker[w].pc \in Holding /\ worker[w].token = run.token
=============================================================================
