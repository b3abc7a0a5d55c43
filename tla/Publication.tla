----------------------------- MODULE Publication -----------------------------
(***************************************************************************)
(* What the runs of one project leave behind: the report that publishRun   *)
(* derives from the frozen observations of a run and those of its baseline,*)
(* the issues it opens and resolves, the suppression that users lay over   *)
(* them, the health score, and the cleanup that prunes the details of old  *)
(* runs.                                                                   *)
(*                                                                         *)
(* Runs come one after the other (CrawlTriggers).  A worker reads what it  *)
(* compares before the transaction that publishes; cleanup, cancellation   *)
(* and another worker may come in between.                                 *)
(***************************************************************************)
EXTENDS Assessment, Sequences

CONSTANTS
    Workers,       \* worker processes
    Pages,         \* pages of the site whose answers change
    Answers,       \* what they answer
    Rest,          \* Rest[r]: the other pages that run r sees, their number only:
                   \*    [http |-> those in order, other |-> those robots.txt blocks]
    MaxRuns,       \* bound: runs of the project
    MaxTokens,     \* bound: leases taken on one run
    MaxSuppressed  \* bound: issues suppressed at a time

ASSUME PublicationAssumption ==
    /\ IsFiniteSet(Pages)
    /\ MaxRuns \in Nat
    /\ MaxTokens \in Nat \ {0}
    /\ Rest \in [1..MaxRuns -> [http : Nat, other : Nat]]

VARIABLES
    runs,          \* the CrawlRun rows, in the order of creation, with what they saw
    current,       \* status, token and cancellation of the last one
    latest,        \* Project.latestPublishedRunId, 0 for none
    issue,         \* issue[p, rule]: the Issue row of page p and a rule
    report,        \* the CrawlSummary and the ChangeEvent rows of the latest report
    worker         \* worker[w]: what process w is doing and remembers

vars == <<runs, current, latest, issue, report, worker>>

NotSeen == [outcome |-> "NOT_SEEN"]

Sights == Answers \cup {NotSeen}

NewRun == [published |-> FALSE, seen |-> [p \in Pages |-> NotSeen], expired |-> FALSE]

Statuses == {"RUNNING", "FINALIZING", "ENDED"}

NoRun == [status |-> "ENDED", token |-> 0, cancelled |-> FALSE]

NoIssue == [state |-> "none", occurrence |-> 0, suppressed |-> FALSE]

NoReport == [run |-> 0, base |-> 0, changes |-> {}, open |-> [rule \in Rules |-> 0],
             resolved |-> {}, evaluated |-> 0, observed |-> 0, score |-> NoScore]

IdleWorker == [pc |-> "idle", run |-> 0, token |-> 0, base |-> 0, before |-> NewRun.seen]

TypeOK ==
    /\ Len(runs) <= MaxRuns
    /\ \A r \in DOMAIN runs : /\ {runs[r].published, runs[r].expired} \subseteq BOOLEAN
                              /\ runs[r].seen \in [Pages -> Sights]
    /\ current \in [status : Statuses, token : 0..MaxTokens, cancelled : BOOLEAN]
    /\ latest \in 0..Len(runs)
    /\ issue \in [Pages \X Rules -> [state : {"none", "OPEN", "RESOLVED"},
                                    occurrence : 0..MaxRuns, suppressed : BOOLEAN]]
    /\ report.run = latest
    /\ worker \in [Workers -> [pc : {"idle", "read", "rows", "commit"}, run : 0..MaxRuns,
                               token : 0..MaxTokens, base : 0..MaxRuns,
                               before : [Pages -> Sights]]]

Init ==
    /\ runs = <<>>
    /\ current = NoRun
    /\ latest = 0
    /\ issue = [i \in Pages \X Rules |-> NoIssue]
    /\ report = NoReport
    /\ worker = [w \in Workers |-> IdleWorker]

At(w, pc) == worker[w].pc = pc

Active == current.status # "ENDED"

Published == {r \in DOMAIN runs : runs[r].published}

\* The details of a run, as a query finds them.
Rows(r) == IF runs[r].expired THEN NewRun.seen ELSE runs[r].seen

Newest(S) == IF S = {} THEN 0 ELSE CHOOSE r \in S : \A q \in S : q <= r

-----------------------------------------------------------------------------
(* The life of a run, as far as its publication depends on it. *)

Start ==
    /\ Len(runs) < MaxRuns
    /\ ~Active
    /\ runs' = Append(runs, NewRun)
    /\ current' = [NoRun EXCEPT !.status = "RUNNING"]
    /\ UNCHANGED <<latest, issue, report, worker>>

\* executeCrawl freezes a complete crawl that is not cancelled, with what it saw.
Freeze ==
    /\ current.status = "RUNNING" /\ ~current.cancelled
    /\ \E seen \in [Pages -> Sights] : runs' = [runs EXCEPT ![Len(runs)].seen = seen]
    /\ current' = [current EXCEPT !.status = "FINALIZING"]
    /\ UNCHANGED <<latest, issue, report, worker>>

\* The flag of a cancellation.
Cancel ==
    /\ Active /\ ~current.cancelled
    /\ current' = [current EXCEPT !.cancelled = TRUE]
    /\ UNCHANGED <<runs, latest, issue, report, worker>>

\* The run ends in any other way than by its publication; once it is frozen, only
\* a cancellation does that.  What it saw is read by nobody.
Stop ==
    /\ current.status = "RUNNING" \/ (Active /\ current.cancelled)
    /\ runs' = [runs EXCEPT ![Len(runs)] = NewRun]
    /\ current' = NoRun
    /\ UNCHANGED <<latest, issue, report, worker>>

-----------------------------------------------------------------------------
(* publishRun. *)

\* A worker gets the lease of a frozen run, its former holder slow or dead.
Take(w) ==
    /\ At(w, "idle")
    /\ current.status = "FINALIZING" /\ current.token < MaxTokens
    /\ current' = [current EXCEPT !.token = @ + 1]
    /\ worker' = [worker EXCEPT ![w] = [IdleWorker EXCEPT !.pc = "read", !.run = Len(runs),
                                                          !.token = current.token + 1]]
    /\ UNCHANGED <<runs, latest, issue, report>>

\* The call fails or returns, or the process dies.
Quit(w) ==
    /\ ~At(w, "idle")
    /\ worker' = [worker EXCEPT ![w] = IdleWorker]
    /\ UNCHANGED <<runs, current, latest, issue, report>>

\* The latest published run.
Baseline == Newest(Published)

\* The run, its observations, which are frozen, and its baseline.
Read(w) ==
    /\ At(w, "read")
    /\ worker' = [worker EXCEPT ![w] = IF runs[worker[w].run].published THEN IdleWorker
                                       ELSE [@ EXCEPT !.pc = "rows", !.base = Baseline]]
    /\ UNCHANGED <<runs, current, latest, issue, report>>

\* The observations of the baseline.
ReadRows(w) ==
    /\ At(w, "rows")
    /\ worker' = [worker EXCEPT ![w].pc = "commit",
                                ![w].before = IF worker[w].base = 0 THEN NewRun.seen
                                              ELSE Rows(worker[w].base)]
    /\ UNCHANGED <<runs, current, latest, issue, report>>

\* The change events of a comparison; a page that is not seen any more has none.
Events(before, after, base) ==
    UNION {{<<p, e>> : e \in IF before[p] = NotSeen THEN Added(base # 0)
                             ELSE Changes(Observe(before[p]), Observe(after[p]))} :
           p \in {q \in Pages : after[q] # NotSeen}}

\* Mutation: a page that cannot be judged is taken to be in order.
EvaluatedUnknownResolves(i, verdict) ==
    CASE verdict = "PRESENT" /\ i.state # "OPEN" ->
             [i EXCEPT !.state = "OPEN", !.occurrence = @ + 1]
      [] verdict \in {"ABSENT", "UNKNOWN"} /\ i.state = "OPEN" -> [i EXCEPT !.state = "RESOLVED"]
      [] OTHER -> i

\* nextIssueState, and the creation of an issue: the row after a run with this verdict.
Evaluated(i, verdict) ==
    CASE verdict = "PRESENT" /\ i.state # "OPEN" ->
             [i EXCEPT !.state = "OPEN", !.occurrence = @ + 1]
      [] verdict = "ABSENT" /\ i.state = "OPEN" -> [i EXCEPT !.state = "RESOLVED"]
      [] OTHER -> i

\* The verdict of a run on page i[1] by rule i[2].
Found(i, seen) == IF seen[i[1]] = NotSeen THEN "UNKNOWN" ELSE Verdict(i[2], Observe(seen[i[1]]))

\* withRunFence and the guards behind it.
MayPublish(w) ==
    /\ worker[w].run = Len(runs) /\ current.token = worker[w].token
    /\ current.status = "FINALIZING" /\ ~current.cancelled

\* Open issues that count: those that are not suppressed.
Counted(rows, rule) ==
    Cardinality({p \in Pages : rows[<<p, rule>>].state = "OPEN" /\ ~rows[<<p, rule>>].suppressed})

\* The summary and the events of a run, given the issues after and before it.
ReportOf(w, rows) ==
    LET r         == worker[w].run
        after     == runs[r].seen
        seen      == {p \in Pages : after[p] # NotSeen}
        evaluated == Rest[r].http + Cardinality({p \in seen : IsHttp(after[p])})
        observed  == Rest[r].http + Rest[r].other + Cardinality(seen)
        open      == [rule \in Rules |-> Counted(rows, rule)]
    IN  [run       |-> r,
         base      |-> worker[w].base,
         changes   |-> Events(worker[w].before, after, worker[w].base),
         open      |-> open,
         resolved  |-> {i \in DOMAIN issue : issue[i].state = "OPEN" /\ rows[i].state = "RESOLVED"},
         evaluated |-> evaluated,
         observed  |-> observed,
         score     |-> Score(open, evaluated, observed)]

\* The transaction: change events, issues, summary, run and project together.
Publish(w) ==
    /\ At(w, "commit")
    /\ MayPublish(w)
    /\ LET rows == [i \in DOMAIN issue |-> Evaluated(issue[i], Found(i, runs[worker[w].run].seen))]
       IN  /\ issue' = rows
           /\ report' = ReportOf(w, rows)
    /\ runs' = [runs EXCEPT ![worker[w].run].published = TRUE]
    /\ current' = NoRun
    /\ latest' = worker[w].run
    /\ worker' = [worker EXCEPT ![w] = IdleWorker]

\* The fence or a guard turns the worker away.
Refused(w) ==
    /\ At(w, "commit")
    /\ ~MayPublish(w)
    /\ worker' = [worker EXCEPT ![w] = IdleWorker]
    /\ UNCHANGED <<runs, current, latest, issue, report>>

-----------------------------------------------------------------------------
(* Users and maintenance. *)

\* updateIssueSuppression, or the time of a suppression is over.
Suppress ==
    /\ \E i \in DOMAIN issue :
          /\ issue[i].state # "none"
          /\ \/ issue[i].suppressed
             \/ Cardinality({j \in DOMAIN issue : issue[j].suppressed}) < MaxSuppressed
          /\ issue' = [issue EXCEPT ![i].suppressed = ~@]
    /\ UNCHANGED <<runs, current, latest, report, worker>>

\* Mutation: the baseline is not protected.
ProtectsNothing == {}

\* The details that cleanup keeps whatever their age; the base of an active run is
\* set with its publication, when the run is active no more.
Protected == {latest}

\* cleanupRunDetails, in one transaction under the lock of the project: the details of
\* the older runs go, by age or by their number; those of the reports matter here.
Cleanup ==
    /\ \E oldest \in 1..Len(runs) + 1 :
          LET Pruned(r) == /\ runs[r].published
                           /\ r < oldest /\ r \notin Protected
          IN  runs' = [r \in DOMAIN runs |-> IF Pruned(r) THEN [runs[r] EXCEPT !.expired = TRUE]
                                             ELSE runs[r]]
    /\ UNCHANGED <<current, latest, issue, report, worker>>

-----------------------------------------------------------------------------

Next ==
    \/ Start \/ Freeze \/ Cancel \/ Stop
    \/ \E w \in Workers :
          Take(w) \/ Quit(w) \/ Read(w) \/ ReadRows(w) \/ Publish(w) \/ Refused(w)
    \/ Suppress \/ Cleanup

Spec == Init /\ [][Next]_vars

-----------------------------------------------------------------------------
(* What must hold. *)

\* Every report compares its run with all that the run published before it saw,
\* though the worker reads it before the transaction and cleanup prunes old details
\* at any time; the baseline of the next report always has its details
\* (publishRun, cleanupRunDetails).
ComparedWithBaseline ==
    /\ latest = Newest(Published)
    /\ latest # 0 =>
          LET base == Newest({q \in Published : q < latest})
          IN  /\ report.base = base
              /\ report.changes = Events(IF base = 0 THEN NewRun.seen ELSE runs[base].seen,
                                         runs[latest].seen, base)
              /\ ~runs[latest].expired

\* What the runs published up to r say about issue i.
Conclusive(i, r) == {q \in Published : q <= r /\ Found(i, runs[q].seen) # "UNKNOWN"}
Faulty(i, r)     == {q \in Conclusive(i, r) : Found(i, runs[q].seen) = "PRESENT"}
StateBy(i, r)    == IF Faulty(i, r) = {} THEN "none"
                    ELSE IF Newest(Conclusive(i, r)) \in Faulty(i, r) THEN "OPEN"
                    ELSE "RESOLVED"
Openings(i, r)   == {q \in Faulty(i, r) : StateBy(i, q - 1) # "OPEN"}

\* The state of an issue is what the conclusive verdicts of the published runs make
\* of it, and its occurrence the times it was opened; runs that were cancelled,
\* published twice or saw nothing have no part in it, nor has suppression.  Each
\* report counts open and resolved issues accordingly (nextIssueState, publishRun).
IssuesFollowReports ==
    /\ \A i \in DOMAIN issue : /\ issue[i].state = StateBy(i, Len(runs))
                               /\ issue[i].occurrence = Cardinality(Openings(i, Len(runs)))
    /\ latest # 0 =>
          /\ \A rule \in Rules :
                report.open[rule] <= Cardinality({p \in Pages : issue[<<p, rule>>].state = "OPEN"})
          /\ report.resolved = {i \in DOMAIN issue : /\ StateBy(i, latest - 1) = "OPEN"
                                                     /\ StateBy(i, latest) = "RESOLVED"}

\* The event that tells of a verdict that turned.
EventOf == [http_4xx_5xx    |-> "HTTP_STATUS_CHANGED", noindex_on_indexable |-> "ROBOTS_CHANGED",
            missing_title   |-> "TITLE_CHANGED",       canonical_conflict   |-> "CANONICAL_CHANGED"]

\* Judged for its canonical links that do not resolve, which the comparison leaves out.
Invalid(sight) == sight # NotSeen /\ Parsed(sight) /\ Unresolvable \in sight.canonical

\* A report that finds a fault its baseline did not have, or finds it gone, says so:
\* among its change events is one of that page and the field the rule looks at, and
\* it is critical when a page left the index.  Two packages decide this apart, each
\* with its own idea of what is known (compareObservations, evaluateAllRules).
FlipsAreReported ==
    report.base # 0 =>
        \A i \in DOMAIN issue :
            LET before == runs[report.base].seen
                after  == runs[report.run].seen
            IN  (/\ {Found(i, before), Found(i, after)} = {"PRESENT", "ABSENT"}
                 /\ i[2] = "canonical_conflict" =>
                        ~Invalid(before[i[1]]) /\ ~Invalid(after[i[1]]))
                => \E c \in report.changes :
                       /\ c[1] = i[1] /\ c[2].type = EventOf[i[2]]
                       /\ i[2] = "noindex_on_indexable" /\ Found(i, after) = "PRESENT"
                            => c[2].severity = "CRITICAL"

\* The score of a report is never better than its issues allow: a run with as many
\* pages and at least as many open issues of each rule scores no higher, no rule
\* costs more than its weight, and a site without open issues loses nothing.  Whether
\* there is a score depends on what was observed alone (computeHealthScore).
ScoreFollowsIssues ==
    [][LET Worse(a, b) == /\ a.evaluated = b.evaluated /\ a.observed = b.observed
                          /\ \A rule \in Rules : a.open[rule] >= b.open[rule]
           Lost(rule)  == IF report'.open[rule] = 0 THEN 0 ELSE Weight(rule)
       IN  report' # report =>
             /\ Worse(report', report) => report'.score <= report.score
             /\ Worse(report, report') => report'.score >= report.score
             /\ report'.score # NoScore =>
                   /\ report'.score <= 100
                   /\ report'.score >= 100 - Lost("http_4xx_5xx") - Lost("noindex_on_indexable")
                                          - Lost("missing_title") - Lost("canonical_conflict")
      ]_report
=============================================================================
