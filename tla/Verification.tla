---------------------------- MODULE Verification ----------------------------
(***************************************************************************)
(* DNS verification of one project: challenges that rotate, the outbox job *)
(* that checks each of them and worker processes that race for the job     *)
(* (requestVerification, processVerificationJob).  The crawls that a       *)
(* verification permits are in CrawlTriggers.                              *)
(*                                                                         *)
(* A check is two transactions with a DNS lookup between them; the second  *)
(* commits the result together with the acknowledgement of the event.      *)
(***************************************************************************)
EXTENDS Outbox

CONSTANTS
    Workers,         \* worker processes
    MaxChallenges,   \* bound: verifications requested in one behaviour
    MaxAttempts,     \* VERIFICATION_MAX_ATTEMPTS
    RetryBase,       \* VERIFICATION_RETRY_BASE_MS, in time units
    MaxFaults        \* bound: crashes, and claims that lapse under their holder

ASSUME VerificationAssumption ==
    /\ MaxChallenges \in Nat
    /\ MaxAttempts \in Nat \ {0}
    /\ RetryBase \in Nat
    /\ MaxFaults \in Nat

VARIABLES
    verification,    \* verification[v]: status of the challenge with version v
    latest,          \* the highest challengeVersion, 0 before the first
    project,         \* Project.verificationStatus
    event,           \* event[v]: the verification.requested row of v
    record,          \* the challenge that the TXT record holds, 0 for none
    worker,          \* worker[w]: what process w is doing and remembers
    faults           \* faults so far

vars == <<verification, latest, project, event, record, worker, faults>>

Versions == 1..MaxChallenges
Settled  == {"SUCCEEDED", "FAILED"}

IdleWorker == [pc |-> "idle", version |-> 0, claim |-> NoClaim, matched |-> FALSE]

TypeOK ==
    /\ verification \in [Versions -> {"none", "PENDING", "RUNNING"} \cup Settled]
    /\ latest \in 0..MaxChallenges
    /\ project \in {"PENDING_VERIFICATION", "ACTIVE"}
    /\ event \in [Versions -> [delivered : BOOLEAN, attempts : 0..MaxAttempts + MaxFaults,
                               claimToken : Nat, claim : 0..ClaimTTL,
                               delay : 0..RetryBase * MaxAttempts]]
    /\ record \in 0..MaxChallenges
    /\ worker \in [Workers -> [pc : {"idle", "begin", "lookup", "commit"},
                               version : 0..MaxChallenges, claim : Nat, matched : BOOLEAN]]
    /\ faults \in 0..MaxFaults

Init ==
    /\ verification = [v \in Versions |-> "none"]
    /\ latest = 0
    /\ project = "PENDING_VERIFICATION"
    /\ event = [v \in Versions |-> NewEvent]
    /\ record = 0
    /\ worker = [w \in Workers |-> IdleWorker]
    /\ faults = 0

At(w, pc) == worker[w].pc = pc

-----------------------------------------------------------------------------
(* The owner of the project. *)

\* Mutation: a check under way is not looked for.
MayRotateAnyTime == latest < MaxChallenges

\* The latest check has settled, or there is none.
MayRotate == /\ latest < MaxChallenges
             /\ latest > 0 => verification[latest] \in Settled

\* requestVerification: a new challenge and its job, under the project lock.
Request ==
    /\ MayRotate
    /\ latest' = latest + 1
    /\ verification' = [verification EXCEPT ![latest + 1] = "PENDING"]
    /\ UNCHANGED <<project, event, record, worker, faults>>

\* The owner edits the TXT record, at any time.
Publish ==
    /\ record' \in 0..latest
    /\ record' # record
    /\ UNCHANGED <<verification, latest, project, event, worker, faults>>

-----------------------------------------------------------------------------
(* processVerificationJob. *)

\* claimBatch.
Claim(w) ==
    /\ At(w, "idle")
    /\ \E v \in 1..latest :
          /\ Claimable(event[v])
          /\ event' = [event EXCEPT ![v] = Claimed(@)]
          /\ worker' = [worker EXCEPT ![w] = [pc |-> "begin", version |-> v, matched |-> FALSE,
                                              claim |-> Claimed(event[v]).claimToken]]
    /\ UNCHANGED <<verification, latest, project, record, faults>>

\* Mutation: any live claim on the event will do.
LiveAnyClaim(w) ==
    LET e == event[worker[w].version]
    IN  ~e.delivered /\ e.claim > 0

\* The claim is still the worker's, and has not lapsed.
Live(w) ==
    LET e == event[worker[w].version]
    IN  ~e.delivered /\ e.claimToken = worker[w].claim /\ e.claim > 0

\* The challenge has not been rotated or settled.
Current(w) == /\ worker[w].version = latest
              /\ verification[latest] \notin Settled

\* A transaction that writes s into the verification and e into the event, if the
\* worker may; it acknowledges a check that is no longer current, and does nothing
\* at all once the claim is lost.
Write(w, s, e) ==
    LET v == worker[w].version
    IN  /\ verification' = IF Live(w) /\ Current(w)
                             THEN [verification EXCEPT ![v] = s] ELSE verification
        /\ event' = IF ~Live(w) THEN event
                    ELSE [event EXCEPT ![v] =
                            IF Current(w) THEN e ELSE MarkDelivered(@, worker[w].claim)]

\* The first transaction; the check goes on only if it was current.
Begin(w) ==
    /\ At(w, "begin")
    /\ Write(w, "RUNNING", event[worker[w].version])
    /\ worker' = IF Live(w) /\ Current(w)
                   THEN [worker EXCEPT ![w].pc = "lookup"]
                   ELSE [worker EXCEPT ![w] = IdleWorker]
    /\ UNCHANGED <<latest, project, record, faults>>

\* The DNS lookup finds the record as it is, or fails.
Lookup(w) ==
    /\ At(w, "lookup")
    /\ \E found \in {record = worker[w].version, FALSE} :
          worker' = [worker EXCEPT ![w].pc = "commit", ![w].matched = found]
    /\ UNCHANGED <<verification, latest, project, event, record, faults>>

\* The challenge was found: the project becomes active.
Succeed(w) ==
    /\ At(w, "commit")
    /\ worker[w].matched
    /\ Write(w, "SUCCEEDED",
                MarkDelivered(event[worker[w].version], worker[w].claim))
    /\ project' = IF Live(w) /\ Current(w) THEN "ACTIVE" ELSE project
    /\ worker' = [worker EXCEPT ![w] = IdleWorker]
    /\ UNCHANGED <<latest, record, faults>>

\* Mutation: one attempt too many.
LastAttemptLate(n) == n > MaxAttempts

\* failOrRetry: every claim counted as an attempt.
LastAttempt(n) == n >= MaxAttempts

\* The challenge was not found: try again later, or give up.
NotFound(w) ==
    LET e == event[worker[w].version]
        n == worker[w].claim
    IN  /\ At(w, "commit")
        /\ ~worker[w].matched
        /\ IF LastAttempt(n)
             THEN Write(w, "FAILED", MarkDelivered(e, n))
             ELSE Write(w, "PENDING",
                           Reschedule(e, n, RetryBase * n))
        /\ worker' = [worker EXCEPT ![w] = IdleWorker]
        /\ UNCHANGED <<latest, project, record, faults>>

\* The process dies, or a call throws; the claim stays until it lapses.
Crash(w) ==
    /\ ~At(w, "idle")
    /\ faults < MaxFaults
    /\ faults' = faults + 1
    /\ worker' = [worker EXCEPT ![w] = IdleWorker]
    /\ UNCHANGED <<verification, latest, project, event, record>>

-----------------------------------------------------------------------------
(* Time. *)

\* A claim that is about to lapse while its holder works.
Lapsing == {w \in Workers : /\ ~At(w, "idle")
                            /\ event[worker[w].version].claim = 1
                            /\ Live(w)}

\* One unit of time passes.  Being slower than a claim is a fault.
Tick ==
    /\ \E v \in Versions : event[v].claim > 0 \/ event[v].delay > 0
    /\ IF Lapsing = {} THEN UNCHANGED faults
                       ELSE faults < MaxFaults /\ faults' = faults + 1
    /\ event' = [v \in Versions |-> EventTick(event[v])]
    /\ UNCHANGED <<verification, latest, project, record, worker>>

-----------------------------------------------------------------------------

Work(w) == Claim(w) \/ Begin(w) \/ Lookup(w) \/ Succeed(w) \/ NotFound(w)

Next == \/ Request \/ Publish
        \/ \E w \in Workers : Work(w) \/ Crash(w)
        \/ Tick

Spec == Init /\ [][Next]_vars

\* Workers poll and run on, and time passes.
FairSpec == Spec /\ \A w \in Workers : WF_vars(Work(w)) /\ WF_vars(Tick)

-----------------------------------------------------------------------------
(* What must hold. *)

\* The result of a check and the acknowledgement of its event are one commit: no
\* crash leaves a settled check to be repeated, or a check that never settles
\* ("atomically committing the result and acknowledgement").
AckIsAtomic ==
    \A v \in Versions : event[v].delivered <=> verification[v] \in Settled

\* At most one check is active, and it is that of the latest challenge: no worker,
\* however late, finds its challenge rotated under it (requestVerification).
OneActiveCheck ==
    \A v \in Versions : verification[v] \in {"PENDING", "RUNNING"} => v = latest

\* A lookup made under a claim that was lost decides nothing.
LostClaimIsInert ==
    [][\A w \in Workers :
          /\ worker[w].pc \in {"begin", "commit"} /\ worker'[w] # worker[w]
          /\ event[worker[w].version].claimToken # worker[w].claim
          => UNCHANGED <<verification, project, event>>]_vars

\* Every requested check settles.
CheckSettles ==
    \A v \in Versions : verification[v] # "none" ~> verification[v] \in Settled
=============================================================================
