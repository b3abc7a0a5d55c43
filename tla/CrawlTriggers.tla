---------------------------- MODULE CrawlTriggers ----------------------------
(***************************************************************************)
(* How the crawls of one project come about: users who trigger them by     *)
(* hand with an idempotency key, scanners that fire the weekly schedule,   *)
(* and owners who archive the project or switch the schedule               *)
(* (createCrawl, processDueSchedules, updateProject, updateSchedule).      *)
(*                                                                         *)
(* Each process runs one of these at a time.  A transaction takes its      *)
(* locks one after the other, each in one step with what it then reads,    *)
(* and commits or rolls back in a last step, when the locks go; a process  *)
(* that waits for a lock has not taken the step yet.  What a run does once *)
(* it exists is in CrawlRun; here it is active until it ends.              *)
(***************************************************************************)
EXTENDS Naturals, Sequences, FiniteSets

CONSTANTS
    Processes,     \* callers of the API and scanners
    Nobody,        \* holder of a free lock
    Keys,          \* idempotency keys
    NoKey,         \* key of a scheduled run
    KeyTTL,        \* life of an idempotency record
    Spacing,       \* between two manual crawls
    Day, MaxDaily, \* window and size of the quota of manual crawls
    Interval,      \* between two slots of the schedule
    MaxTime        \* bound: the last moment

ASSUME TriggersAssumption ==
    /\ Nobody \notin Processes
    /\ NoKey \notin Keys
    /\ {KeyTTL, Spacing, Day, MaxDaily, MaxTime} \subseteq Nat
    /\ Interval \in Nat \ {0}

VARIABLES
    now,           \* the clock
    runs,          \* the CrawlRun rows, in the order of creation
    record,        \* record[k]: the IdempotencyRecord of key k
    keyLock,       \* keyLock[k]: who holds the advisory lock of k
    projectLock,   \* who holds the row lock of the project
    project,       \* the Project row
    schedule,      \* the CrawlSchedule row
    occurrence,    \* occurrence[t]: status of the ScheduleOccurrence of slot t
    proc           \* proc[p]: what process p is doing and remembers

vars  == <<now, runs, record, keyLock, projectLock, project, schedule, occurrence, proc>>
locks == <<keyLock, projectLock>>
rows  == <<runs, record, project, schedule, occurrence>>

Times  == 0..MaxTime
Skips  == {"SKIPPED_ARCHIVED", "SKIPPED_BUSY", "SKIPPED_UNVERIFIED"}
Idle   == [job |-> "none", pc |-> "idle", key |-> NoKey, at |-> 0, status |-> "none"]

TypeOK ==
    /\ now \in Times
    /\ runs \in Seq([key : Keys \cup {NoKey}, at : Times, active : BOOLEAN])
    /\ record \in [Keys -> [run : 0..Len(runs), expires : Nat]]
    /\ keyLock \in [Keys -> Processes \cup {Nobody}]
    /\ projectLock \in Processes \cup {Nobody}
    /\ project \in [archived : BOOLEAN, verified : BOOLEAN]
    /\ schedule \in [enabled : BOOLEAN, first : Nat, next : Nat]
    /\ occurrence \in [Times -> Skips \cup {"none", "SKIPPED_MISSED", "TRIGGERED"}]
    /\ proc \in [Processes -> [job : {"none", "create", "scan", "archive", "enable"},
                               pc : {"idle", "project", "commit"},
                               key : Keys \cup {NoKey}, at : Times,
                               status : Skips \cup {"none", "TRIGGERED"}]]

Init ==
    /\ now = 0
    /\ runs = <<>>
    /\ record = [k \in Keys |-> [run |-> 0, expires |-> 0]]
    /\ keyLock = [k \in Keys |-> Nobody]
    /\ projectLock = Nobody
    /\ project = [archived |-> FALSE, verified |-> FALSE]
    /\ schedule = [enabled |-> FALSE, first |-> 0, next |-> 0]
    /\ occurrence = [t \in Times |-> "none"]
    /\ proc = [p \in Processes |-> Idle]

Doing(p, job, pc) == proc[p].job = job /\ proc[p].pc = pc

Goto(p, pc) == proc' = [proc EXCEPT ![p].pc = pc]

Begin(p, job, pc) ==
    /\ proc[p] = Idle
    /\ proc' = [proc EXCEPT ![p].job = job, ![p].pc = pc]
    /\ UNCHANGED <<now, rows, locks>>

\* The transaction ends, by commit or rollback, and lets its locks go.
End(p) ==
    /\ proc' = [proc EXCEPT ![p] = Idle]
    /\ keyLock' = [k \in Keys |-> IF keyLock[k] = p THEN Nobody ELSE keyLock[k]]
    /\ projectLock' = IF projectLock = p THEN Nobody ELSE projectLock
    /\ UNCHANGED now

\* Mutation: the row of the project is read without FOR UPDATE.
FreeAnyway == TRUE

\* lockProject may return.
Free == projectLock = Nobody

\* The transaction that holds the lock of the project reads what it needs: it
\* gives up, or goes on to its writes, of which st is the status of the slot.
Check(p, stops, st) ==
    /\ Free
    /\ IF stops
         THEN End(p)
         ELSE /\ projectLock' = p
              /\ proc' = [proc EXCEPT ![p].pc = "commit", ![p].status = st]
              /\ UNCHANGED <<now, keyLock>>
    /\ UNCHANGED rows

\* Mutation: the idempotency record is written outside of the transaction.
RollBackLeavesRecord(p) ==
    /\ proc[p].job = "create"
    /\ record' = [record EXCEPT ![proc[p].key] = [run |-> Len(runs) + 1, expires |-> now + KeyTTL]]
    /\ End(p)
    /\ UNCHANGED <<runs, project, schedule, occurrence>>

\* The call fails, or its process dies: everything is rolled back.
RollBack(p) ==
    /\ proc[p] # Idle
    /\ End(p)
    /\ UNCHANGED rows

Actives == {i \in DOMAIN runs : runs[i].active}

Manual == {i \in DOMAIN runs : runs[i].key # NoKey}

NewRun(key) == [key |-> key, at |-> now, active |-> TRUE]

-----------------------------------------------------------------------------
(* createCrawl, inside withIdempotency. *)

\* Mutation: the advisory lock is not taken.
KeyFreeAnyway(k) == TRUE

\* pg_advisory_xact_lock may return.
KeyFree(k) == keyLock[k] = Nobody

\* The lock of the key is taken and its record read; a live one is answered with
\* the run it names, which changes nothing, and otherwise the work begins.
AskCreate(p) ==
    /\ proc[p] = Idle
    /\ \E k \in Keys :
          /\ KeyFree(k)
          /\ record[k].expires <= now
          /\ keyLock' = [keyLock EXCEPT ![k] = p]
          /\ proc' = [proc EXCEPT ![p] = [Idle EXCEPT !.job = "create", !.pc = "project",
                                                      !.key = k]]
    /\ UNCHANGED <<now, rows, projectLock>>

\* Mutation: the crawl that would be one too many is allowed.
QuotaPassed == \/ Cardinality({i \in Manual : runs[i].at + Day >= now}) > MaxDaily
               \/ \E i \in Manual : runs[i].at + Spacing > now

\* Ten a day, and five minutes apart.
QuotaUsed == \/ Cardinality({i \in Manual : runs[i].at + Day >= now}) >= MaxDaily
             \/ \E i \in Manual : runs[i].at + Spacing > now

CheckCreate(p) ==
    /\ Doing(p, "create", "project")
    /\ Check(p, project.archived \/ ~project.verified \/ Actives # {} \/ QuotaUsed, "none")

\* Run, event and idempotency record are committed together.
CommitCreate(p) ==
    /\ Doing(p, "create", "commit")
    /\ runs' = Append(runs, NewRun(proc[p].key))
    /\ record' = [record EXCEPT ![proc[p].key] =
                     [run |-> Len(runs) + 1, expires |-> now + KeyTTL]]
    /\ End(p)
    /\ UNCHANGED <<project, schedule, occurrence>>

-----------------------------------------------------------------------------
(* processDueSchedules. *)

Due(t) == schedule.enabled /\ schedule.next <= t

\* The scan takes its time and finds the schedule due, without a lock.
AskScan(p) ==
    /\ Due(now)
    /\ proc[p] = Idle
    /\ proc' = [proc EXCEPT ![p] = [Idle EXCEPT !.job = "scan", !.pc = "project", !.at = now]]
    /\ UNCHANGED <<now, rows, locks>>

\* Another scanner may have won; otherwise the fate of the slot is decided.
CheckScan(p) ==
    /\ Doing(p, "scan", "project")
    /\ Check(p, ~Due(proc[p].at), IF project.archived THEN "SKIPPED_ARCHIVED"
                                  ELSE IF Actives # {} THEN "SKIPPED_BUSY"
                                  ELSE IF ~project.verified THEN "SKIPPED_UNVERIFIED"
                                  ELSE "TRIGGERED")

\* The slots that have come since nextRunAt; all but the last were missed.
Slots(t) == {s \in schedule.next..t : (s - schedule.next) % Interval = 0}
Last(t)  == CHOOSE s \in Slots(t) : \A r \in Slots(t) : r <= s

\* Mutation: the interval is counted from the scan and not from the slot.
NextFromScan(t) == t + Interval

\* nextRunAt stays on the grid.
NextSlot(t) == Last(t) + Interval

CommitScan(p) ==
    LET at == proc[p].at
        st == proc[p].status
    IN  /\ Doing(p, "scan", "commit")
        /\ occurrence' = [t \in Times |-> IF t \notin Slots(at) THEN occurrence[t]
                                          ELSE IF t = Last(at) THEN st ELSE "SKIPPED_MISSED"]
        /\ runs' = IF st = "TRIGGERED" THEN Append(runs, NewRun(NoKey)) ELSE runs
        /\ schedule' = [schedule EXCEPT !.next = NextSlot(at)]
        /\ End(p)
        /\ UNCHANGED <<record, project>>

-----------------------------------------------------------------------------
(* updateProject and updateSchedule. *)

\* Archiving is refused while a crawl is active.
CheckArchive(p) ==
    /\ proc[p] = Idle
    /\ Free
    /\ Actives = {}
    /\ projectLock' = p
    /\ proc' = [proc EXCEPT ![p].job = "archive", ![p].pc = "commit"]
    /\ UNCHANGED <<now, rows, keyLock>>

CommitArchive(p) ==
    /\ Doing(p, "archive", "commit")
    /\ project' = [project EXCEPT !.archived = TRUE]
    /\ End(p)
    /\ UNCHANGED <<runs, record, schedule, occurrence>>

\* Taking a project out of the archive needs no check.
Unarchive ==
    /\ Free
    /\ project.archived
    /\ project' = [project EXCEPT !.archived = FALSE]
    /\ UNCHANGED <<now, runs, record, locks, schedule, occurrence, proc>>

\* updateSchedule reads the project without a lock and upserts later: a new
\* schedule starts one interval from now, an old one goes on from where it was.
AskSchedule(p) == ~project.archived /\ Begin(p, "enable", "commit")

Upsert(enabled) ==
    /\ schedule' = IF schedule.next = 0
                     THEN [enabled |-> enabled, first |-> now + Interval, next |-> now + Interval]
                     ELSE [schedule EXCEPT !.enabled = enabled]
    /\ UNCHANGED <<runs, record, project, occurrence>>

CommitSchedule(p) ==
    /\ Doing(p, "enable", "commit")
    /\ Upsert(TRUE)
    /\ End(p)

Disable == Upsert(FALSE) /\ UNCHANGED <<now, locks, proc>>

-----------------------------------------------------------------------------
(* The rest of the system. *)

\* A run reaches a terminal status; that takes no lock on the project.
EndRun ==
    /\ \E i \in Actives : runs' = [runs EXCEPT ![i].active = FALSE]
    /\ UNCHANGED <<now, record, locks, project, schedule, occurrence, proc>>

\* A verification succeeds, under the lock of the project.
Verified ==
    /\ ~project.verified
    /\ projectLock = Nobody
    /\ project' = [project EXCEPT !.verified = TRUE]
    /\ UNCHANGED <<now, runs, record, locks, schedule, occurrence, proc>>

\* It expires, or another one is requested.
Unverified ==
    /\ project.verified
    /\ project' = [project EXCEPT !.verified = FALSE]
    /\ UNCHANGED <<now, runs, record, locks, schedule, occurrence, proc>>

Tick ==
    /\ now < MaxTime
    /\ now' = now + 1
    /\ UNCHANGED <<rows, locks, proc>>

-----------------------------------------------------------------------------

Next ==
    \/ \E p \in Processes :
          \/ AskCreate(p) \/ CheckCreate(p) \/ CommitCreate(p)
          \/ AskScan(p) \/ CheckScan(p) \/ CommitScan(p)
          \/ CheckArchive(p) \/ CommitArchive(p)
          \/ AskSchedule(p) \/ CommitSchedule(p)
          \/ RollBack(p)
    \/ Unarchive \/ Disable \/ EndRun \/ Verified \/ Unverified \/ Tick

Spec == Init /\ [][Next]_vars

-----------------------------------------------------------------------------
(* What must hold. *)

\* A project has at most one active run, and none while it is archived, whoever
\* triggers, scans and archives at the same time (the lock on the project; there
\* is no unique index).
OneActiveRun == Cardinality(Actives) <= IF project.archived THEN 0 ELSE 1

\* One key makes one run, as long as its record lives, and the record is there from
\* the moment the run is, however often the call is repeated and wherever an earlier
\* one failed (withIdempotency).
OneRunPerKey ==
    \A j \in Manual :
        /\ \A i \in Manual :
              i < j /\ runs[i].key = runs[j].key => runs[j].at >= runs[i].at + KeyTTL
        /\ LET r == record[runs[j].key]
           IN  r.run >= j /\ runs[r.run].key = runs[j].key

\* No window of a day holds more manual crawls than the quota, and no two of them
\* are closer than the spacing, whatever the keys (createCrawl).
QuotaHolds ==
    \A j \in Manual :
        /\ \A i \in Manual : i < j => runs[j].at >= runs[i].at + Spacing
        /\ Cardinality({i \in Manual : i <= j /\ runs[i].at + Day >= runs[j].at}) <= MaxDaily

\* Exactly the slots on the grid before nextRunAt are accounted for, through
\* downtime, competing scanners and a schedule switched off and on; each run that
\* the schedule made belongs to a slot of its own (processDueSchedules).
SlotsAccounted ==
    /\ \A t \in Times :
          occurrence[t] # "none" <=> /\ schedule.first <= t /\ t < schedule.next
                                     /\ (t - schedule.first) % Interval = 0
    /\ Cardinality({t \in Times : occurrence[t] = "TRIGGERED"})
         = Cardinality(DOMAIN runs \ Manual)
=============================================================================
