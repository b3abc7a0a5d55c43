------------------------- MODULE CrawlTriggersProofs -------------------------
(***************************************************************************)
(* What CrawlTriggers guarantees for every number of processes and keys    *)
(* and every choice of the times: at most one active run, and one run for  *)
(* each living idempotency record; manual runs keep to their quota; and    *)
(* each slot of the schedule is accounted for once.                        *)
(*                                                                         *)
(* The argument is that of two locks.  Whoever is about to create a run or *)
(* to archive the project holds the lock of the project, so what it read   *)
(* under that lock still holds when it commits; whoever creates a run by   *)
(* hand holds the lock of its key, so the record it found expired is still *)
(* expired.                                                                *)
(***************************************************************************)
EXTENDS CrawlTriggers, FiniteSetTheorems, WellFoundedInduction, TLAPS

Runs  == [key : Keys \cup {NoKey}, at : Times, active : BOOLEAN]
Procs == [job : {"none", "create", "scan", "archive", "enable"}, pc : {"idle", "project", "commit"},
          key : Keys \cup {NoKey}, at : Times, status : Skips \cup {"none", "TRIGGERED"}]

Writers == {"create", "scan", "archive"}

\* Who writes holds the lock of the project, and who creates that of its key.
LocksHeld ==
    \A p \in Processes :
        /\ proc[p].pc = "commit" /\ proc[p].job \in Writers => projectLock = p
        /\ proc[p].job = "create" => proc[p].key \in Keys /\ keyLock[proc[p].key] = p

\* What was read under the lock of the project still holds.
ChecksHold ==
    \A p \in Processes : proc[p].pc = "commit" =>
        /\ proc[p].job \in {"create", "archive"} => Actives = {}
        /\ proc[p].job = "scan" => schedule.next > 0 /\ schedule.next <= proc[p].at
        /\ proc[p].job = "scan" /\ proc[p].status = "TRIGGERED" => Actives = {}
        /\ \/ proc[p].job = "create"
           \/ proc[p].job = "scan" /\ proc[p].status = "TRIGGERED"
           => ~project.archived

Enabled == schedule.enabled => schedule.next > 0

\* OneActiveRun without cardinalities.
FewActives ==
    /\ project.archived => Actives = {}
    /\ \A i, j \in Actives : i = j

\* The record found under the lock of the key is still expired.
RecordExpired == \A p \in Processes : proc[p].job = "create" => record[proc[p].key].expires <= now

\* The record of a key is that of its last run and outlives each of its runs.
RecordsLast ==
    \A i \in Manual :
        LET r == record[runs[i].key]
        IN  /\ r.run \in DOMAIN runs /\ r.run >= i
            /\ runs[r.run].key = runs[i].key
            /\ runs[i].at + KeyTTL <= r.expires

\* Two runs of one key are a life of a record apart.
KeysApart ==
    \A i, j \in Manual : i < j /\ runs[i].key = runs[j].key => runs[j].at >= runs[i].at + KeyTTL

IInv == TypeOK /\ LocksHeld /\ ChecksHold /\ Enabled /\ FewActives /\ RecordExpired /\ RecordsLast /\ KeysApart

USE TriggersAssumption

-----------------------------------------------------------------------------
(* Lemmas. *)

\* Among the slots that have come there is a last one (CHOOSE in processDueSchedules).
LEMMA LastSlot ==
    ASSUME NEW t \in Nat, schedule.next \in Nat, schedule.next <= t
    PROVE  Last(t) \in Slots(t) /\ \A r \in Slots(t) : r <= Last(t)
<1> DEFINE Ages == {t - s : s \in Slots(t)}
<1>1. Ages \subseteq Nat
  BY DEF Slots
<1>2. schedule.next \in Slots(t)
  <2>1. (schedule.next - schedule.next) % Interval = 0
    BY SMT
  <2> QED  BY <2>1 DEF Slots
<1>3. Ages # {}
  BY <1>2
<1>4. \E a \in Ages : \A b \in Ages : <<b, a>> \notin OpToRel(<, Nat)
  <2> HIDE DEF Ages
  <2> QED  BY <1>1, <1>3, NatLessThanWellFounded, WFMin, Zenon
<1>5. PICK a \in Ages : \A b \in Ages : ~(b < a)
  <2> HIDE DEF Ages
  <2> QED  BY <1>1, <1>4 DEF OpToRel
<1>6. PICK s \in Slots(t) : a = t - s
  BY <1>5
<1>7. ASSUME NEW r \in Slots(t) PROVE r <= s
  <2>1. ~(t - r < t - s)
    BY <1>5, <1>6
  <2> QED  BY <2>1 DEF Slots
<1> QED  BY <1>7 DEF Last

\* At most one element and the cardinality say the same of a finite set.
LEMMA AtMostOne ==
    ASSUME NEW S, IsFiniteSet(S), \A x, y \in S : x = y
    PROVE  Cardinality(S) <= 1
<1>1. CASE S = {}
  BY <1>1, FS_EmptySet
<1>2. CASE S # {}
  <2>1. PICK x \in S : TRUE
    BY <1>2
  <2>2. S = {x}
    BY <2>1
  <2> QED  BY <2>2, FS_Singleton
<1> QED  BY <1>1, <1>2

LEMMA ActivesFinite == ASSUME TypeOK PROVE IsFiniteSet(Actives)
<1>1. IsFiniteSet(1..Len(runs))
  BY FS_Interval DEF TypeOK
<1>2. Actives \subseteq 1..Len(runs)
  BY DEF TypeOK, Actives
<1> QED  BY <1>1, <1>2, FS_Subset

-----------------------------------------------------------------------------
(* Types. *)

LEMMA InitTypes == Init => TypeOK
  BY SMT DEF Init, TypeOK, Times, Skips, Idle

\* What a process is set to remembers what it must.
LEMMA Moves ==
    /\ \A r \in Procs, st \in Skips \cup {"none", "TRIGGERED"} :
          [r EXCEPT !.pc = "commit", !.status = st] \in Procs
    /\ \A r \in Procs, j \in {"archive", "enable"} : [r EXCEPT !.job = j, !.pc = "commit"] \in Procs
    /\ \A k \in Keys : [Idle EXCEPT !.job = "create", !.pc = "project", !.key = k] \in Procs
    /\ \A t \in Times : [Idle EXCEPT !.job = "scan", !.pc = "project", !.at = t] \in Procs
<1>1. 0 \in Times
  BY DEF Times
<1> QED  BY <1>1 DEF Procs, Idle

\* The schedule that updateSchedule writes is one.
LEMMA UpsertTypes ==
    ASSUME TypeOK, NEW e \in BOOLEAN, Upsert(e)
    PROVE  schedule' \in [enabled : BOOLEAN, first : Nat, next : Nat]
<1>1. now + Interval \in Nat
  BY DEF TypeOK, Times
<1> QED  BY <1>1 DEF TypeOK, Upsert

\* The end of a transaction leaves types intact.
LEMMA EndTypes ==
    ASSUME TypeOK, NEW p \in Processes, End(p)
    PROVE  /\ keyLock' \in [Keys -> Processes \cup {Nobody}]
           /\ projectLock' \in Processes \cup {Nobody}
           /\ proc' \in [Processes -> Procs]
<1>1. Idle \in Procs
  BY DEF Idle, Procs, Times, TypeOK
<1> QED  BY <1>1 DEF TypeOK, End, Procs

\* A new run does not disturb the types of the others.
LEMMA AppendTypes ==
    ASSUME TypeOK, NEW k \in Keys \cup {NoKey}, runs' = Append(runs, NewRun(k))
    PROVE  /\ runs' \in Seq(Runs)
           /\ Len(runs') = Len(runs) + 1
           /\ \A i \in DOMAIN runs : runs'[i] = runs[i]
           /\ runs'[Len(runs) + 1] = NewRun(k)
<1>1. runs \in Seq(Runs) /\ NewRun(k) \in Runs
  BY DEF TypeOK, Runs, NewRun
<1> QED  BY <1>1

LEMMA ProcTypes == TypeOK => \A p \in Processes : proc[p] \in Procs
  BY DEF TypeOK, Procs

LEMMA StepTypes == TypeOK /\ Enabled /\ ChecksHold /\ LocksHeld /\ [Next]_vars => TypeOK'
<1> SUFFICES ASSUME TypeOK, Enabled, ChecksHold, LocksHeld, [Next]_vars PROVE TypeOK'
  OBVIOUS
<1>1. ASSUME NEW p \in Processes, AskCreate(p) PROVE TypeOK'
  <2>1. PICK k \in Keys : /\ keyLock' = [keyLock EXCEPT ![k] = p]
                          /\ proc' = [proc EXCEPT ![p] = [Idle EXCEPT !.job = "create", !.pc = "project",
                                                                      !.key = k]]
    BY <1>1 DEF AskCreate
  <2>2. [Idle EXCEPT !.job = "create", !.pc = "project", !.key = k] \in Procs
    BY Moves
  <2> QED  BY <1>1, <2>1, <2>2 DEF AskCreate, TypeOK, rows, Procs
<1>2. ASSUME NEW p \in Processes, NEW stops, NEW st \in Skips \cup {"none", "TRIGGERED"},
             Check(p, stops, st)
      PROVE  TypeOK'
  <2>1. CASE stops
    BY <1>2, <2>1, EndTypes DEF Check, TypeOK, rows, End, Procs
  <2>2. CASE ~stops
    <3>1. [proc[p] EXCEPT !.pc = "commit", !.status = st] \in Procs
      BY ProcTypes, Moves
    <3>2. proc' = [proc EXCEPT ![p] = [proc[p] EXCEPT !.pc = "commit", !.status = st]]
      BY <1>2, <2>2 DEF Check
    <3>3. proc' \in [Processes -> Procs]
      BY <3>1, <3>2 DEF TypeOK, Procs
    <3> QED  BY <1>2, <2>2, <3>3 DEF Check, TypeOK, rows, Procs
  <2> QED  BY <2>1, <2>2
<1>3. ASSUME NEW p \in Processes, CheckCreate(p) PROVE TypeOK'
  BY <1>2, <1>3 DEF CheckCreate
<1>4. ASSUME NEW p \in Processes, CheckScan(p) PROVE TypeOK'
  BY <1>2, <1>4 DEF CheckScan, Skips
<1>5. ASSUME NEW p \in Processes, CommitCreate(p) PROVE TypeOK'
  <2>1. proc[p].key \in Keys
    BY <1>5 DEF CommitCreate, Doing, LocksHeld
  <2>2. /\ runs' \in Seq(Runs)
        /\ Len(runs') = Len(runs) + 1
    BY <1>5, <2>1, AppendTypes DEF CommitCreate
  <2>3. record' \in [Keys -> [run : 0..Len(runs'), expires : Nat]]
    BY <1>5, <2>1, <2>2 DEF CommitCreate, TypeOK, Times
  <2> QED  BY <1>5, <2>2, <2>3, EndTypes DEF CommitCreate, TypeOK, End, Runs, Procs
<1>6. ASSUME NEW p \in Processes, AskScan(p) PROVE TypeOK'
  <2>1. [Idle EXCEPT !.job = "scan", !.pc = "project", !.at = now] \in Procs
    BY DEF Idle, Procs, Times, TypeOK
  <2> QED  BY <1>6, <2>1 DEF AskScan, TypeOK, rows, locks, Procs
<1>7. ASSUME NEW p \in Processes, CommitScan(p) PROVE TypeOK'
  <2>1. schedule.next <= proc[p].at /\ proc[p].at \in Nat /\ schedule.next \in Nat
    BY <1>7 DEF CommitScan, Doing, ChecksHold, TypeOK, Times
  <2>2. Last(proc[p].at) \in Nat
    BY <2>1, LastSlot DEF Slots
  <2>a. NextSlot(proc[p].at) \in Nat
    BY <2>2 DEF NextSlot
  <2>3. schedule' \in [enabled : BOOLEAN, first : Nat, next : Nat]
    BY <1>7, <2>a DEF CommitScan, TypeOK
  <2>4. occurrence' \in [Times -> Skips \cup {"none", "SKIPPED_MISSED", "TRIGGERED"}]
    BY <1>7 DEF CommitScan, TypeOK
  <2>5. runs' \in Seq(Runs) /\ Len(runs') >= Len(runs)
    <3>1. CASE proc[p].status = "TRIGGERED"
      BY <1>7, <3>1, AppendTypes DEF CommitScan, TypeOK
    <3>2. CASE proc[p].status # "TRIGGERED"
      BY <1>7, <3>2 DEF CommitScan, TypeOK, Runs
    <3> QED  BY <3>1, <3>2
  <2>6. record' \in [Keys -> [run : 0..Len(runs'), expires : Nat]]
    BY <1>7, <2>5 DEF CommitScan, TypeOK
  <2> QED  BY <1>7, <2>3, <2>4, <2>5, <2>6, EndTypes DEF CommitScan, TypeOK, End, Runs, Procs
<1>8. ASSUME NEW p \in Processes, CheckArchive(p) PROVE TypeOK'
  <2>1. [proc[p] EXCEPT !.job = "archive", !.pc = "commit"] \in Procs
    BY ProcTypes, Moves
  <2>2. proc' = [proc EXCEPT ![p] = [proc[p] EXCEPT !.job = "archive", !.pc = "commit"]]
    BY <1>8 DEF CheckArchive
  <2>3. proc' \in [Processes -> Procs]
    BY <2>1, <2>2 DEF TypeOK, Procs
  <2> QED  BY <1>8, <2>3 DEF CheckArchive, TypeOK, rows, Procs
<1>9. ASSUME NEW p \in Processes, CommitArchive(p) PROVE TypeOK'
  BY <1>9, EndTypes DEF CommitArchive, TypeOK, End, Procs
<1>10. ASSUME NEW p \in Processes, AskSchedule(p) PROVE TypeOK'
  <2>1. [proc[p] EXCEPT !.job = "enable", !.pc = "commit"] \in Procs
    BY ProcTypes, Moves
  <2>2. proc' = [proc EXCEPT ![p] = [proc[p] EXCEPT !.job = "enable", !.pc = "commit"]]
    BY <1>10 DEF AskSchedule, Begin
  <2>3. proc' \in [Processes -> Procs]
    BY <2>1, <2>2 DEF TypeOK, Procs
  <2> QED  BY <1>10, <2>3 DEF AskSchedule, Begin, TypeOK, rows, locks, Procs
<1>11. ASSUME NEW p \in Processes, CommitSchedule(p) PROVE TypeOK'
  <2>1. schedule' \in [enabled : BOOLEAN, first : Nat, next : Nat]
    BY <1>11, UpsertTypes DEF CommitSchedule
  <2> QED  BY <1>11, <2>1, EndTypes DEF CommitSchedule, Upsert, TypeOK, End, Procs
<1>12. ASSUME NEW p \in Processes, RollBack(p) PROVE TypeOK'
  BY <1>12, EndTypes DEF RollBack, TypeOK, End, rows, Procs
<1>13. CASE Unarchive \/ Verified \/ Unverified
  BY <1>13 DEF Unarchive, Verified, Unverified, TypeOK, locks
<1>14. CASE Disable
  <2>1. schedule' \in [enabled : BOOLEAN, first : Nat, next : Nat]
    BY <1>14, UpsertTypes DEF Disable
  <2> QED  BY <1>14, <2>1 DEF Disable, Upsert, TypeOK, locks
<1>15. CASE EndRun
  <2>1. PICK i \in Actives : runs' = [runs EXCEPT ![i].active = FALSE]
    BY <1>15 DEF EndRun
  <2>2. runs' \in Seq(Runs) /\ Len(runs') = Len(runs)
    <3>1. i \in DOMAIN runs /\ runs \in Seq(Runs)
      BY DEF TypeOK, Runs, Actives
    <3>2. runs[i] \in Runs
      BY <3>1
    <3>3. [runs[i] EXCEPT !.active = FALSE] \in Runs
      BY <3>2 DEF Runs
    <3>4. runs' = [runs EXCEPT ![i] = [runs[i] EXCEPT !.active = FALSE]]
      BY <2>1
    <3> QED  BY <3>1, <3>3, <3>4
  <2> QED  BY <1>15, <2>2 DEF EndRun, TypeOK, locks, Runs
<1>16. CASE Tick
  BY <1>16 DEF Tick, TypeOK, rows, locks, Times
<1>17. CASE UNCHANGED vars
  BY <1>17 DEF vars, TypeOK
<1> QED  BY <1>1, <1>3, <1>4, <1>5, <1>6, <1>7, <1>8, <1>9, <1>10, <1>11, <1>12, <1>13, <1>14,
            <1>15, <1>16, <1>17 DEF Next

-----------------------------------------------------------------------------
(* Locks, and what is read under them. *)

\* What Check does to the process and to the locks.
LEMMA CheckMoves ==
    ASSUME NEW p, NEW stops, NEW st, Check(p, stops, st)
    PROVE  /\ UNCHANGED rows
           /\ \/ End(p)
              \/ /\ ~stops /\ projectLock = Nobody /\ projectLock' = p
                 /\ proc' = [proc EXCEPT ![p].pc = "commit", ![p].status = st]
                 /\ UNCHANGED <<now, keyLock>>
  BY DEF Check, Free

\* Only the locks of a process that ends are let go.
LEMMA EndLocks ==
    ASSUME TypeOK, LocksHeld, NEW p \in Processes, End(p)
    PROVE  LocksHeld'
<1>1. SUFFICES ASSUME NEW q \in Processes
               PROVE  /\ proc'[q].pc = "commit" /\ proc'[q].job \in Writers => projectLock' = q
                      /\ proc'[q].job = "create"
                           => proc'[q].key \in Keys /\ keyLock'[proc'[q].key] = q
  BY DEF LocksHeld
<1>2. CASE q = p
  BY <1>2 DEF End, TypeOK, Idle
<1>3. CASE q # p
  BY <1>3 DEF End, TypeOK, LocksHeld
<1> QED  BY <1>2, <1>3

LEMMA StepLocks == TypeOK /\ LocksHeld /\ [Next]_vars => LocksHeld'
<1> SUFFICES ASSUME TypeOK, LocksHeld, [Next]_vars PROVE LocksHeld'
  OBVIOUS
<1> USE DEF LocksHeld, TypeOK, Writers
<1>1. ASSUME NEW p \in Processes, AskCreate(p) PROVE LocksHeld'
  <2>1. PICK k \in Keys : /\ keyLock[k] = Nobody
                          /\ keyLock' = [keyLock EXCEPT ![k] = p]
                          /\ proc' = [proc EXCEPT ![p] = [Idle EXCEPT !.job = "create", !.pc = "project",
                                                                      !.key = k]]
    BY <1>1 DEF AskCreate, KeyFree
  <2>2. proc'[p].key = k /\ proc'[p].pc = "project"
    BY <2>1 DEF Idle
  <2>3. \A q \in Processes : q # p => proc'[q] = proc[q]
    BY <2>1
  <2>4. ASSUME NEW q \in Processes, proc[q].job = "create" PROVE proc[q].key # k
    BY <2>1, <2>4
  <2> QED  BY <1>1, <2>1, <2>2, <2>3, <2>4 DEF AskCreate
<1>2. ASSUME NEW p \in Processes, NEW stops, NEW st, Check(p, stops, st) PROVE LocksHeld'
  <2>1. CASE End(p)
    BY <2>1, EndLocks
  <2>2. CASE ~End(p)
    <3>1. /\ projectLock = Nobody /\ projectLock' = p
          /\ proc' = [proc EXCEPT ![p].pc = "commit", ![p].status = st]
          /\ keyLock' = keyLock
      BY <1>2, <2>2, CheckMoves
    <3>2. \A q \in Processes : proc'[q].job = proc[q].job /\ proc'[q].key = proc[q].key
      BY <3>1
    <3>3. \A q \in Processes : q # p => proc'[q] = proc[q]
      BY <3>1
    <3> QED  BY <3>1, <3>2, <3>3
  <2> QED  BY <2>1, <2>2
<1>3. ASSUME NEW p \in Processes, AskScan(p) PROVE LocksHeld'
  BY <1>3 DEF AskScan, locks, Idle
<1>4. ASSUME NEW p \in Processes, CheckArchive(p) PROVE LocksHeld'
  <2>1. \A q \in Processes : q # p => proc'[q] = proc[q]
    BY <1>4 DEF CheckArchive
  <2>2. proc'[p].job = "archive"
    BY <1>4 DEF CheckArchive
  <2> QED  BY <1>4, <2>1, <2>2 DEF CheckArchive, Free
<1>5. ASSUME NEW p \in Processes, AskSchedule(p) PROVE LocksHeld'
  <2>1. \A q \in Processes : q # p => proc'[q] = proc[q]
    BY <1>5 DEF AskSchedule, Begin
  <2>2. proc'[p].job = "enable"
    BY <1>5 DEF AskSchedule, Begin
  <2> QED  BY <1>5, <2>1, <2>2 DEF AskSchedule, Begin, locks
<1>6. ASSUME NEW p \in Processes,
             CommitCreate(p) \/ CommitScan(p) \/ CommitArchive(p) \/ CommitSchedule(p) \/ RollBack(p)
      PROVE  LocksHeld'
  <2>1. End(p)
    BY <1>6 DEF CommitCreate, CommitScan, CommitArchive, CommitSchedule, RollBack
  <2> QED  BY <2>1, EndLocks
<1>7. CASE UNCHANGED <<locks, proc>>
  BY <1>7 DEF locks
<1> QED
  BY <1>1, <1>2, <1>3, <1>4, <1>5, <1>6, <1>7
  DEF Next, CheckCreate, CheckScan, Unarchive, Disable, EndRun, Verified, Unverified, Tick, vars, locks
\* The next slot of a schedule that is set lies after the beginning.
LEMMA NextSlotLater ==
    ASSUME TypeOK, LocksHeld, ChecksHold, NEW p \in Processes, CommitScan(p)
    PROVE  schedule'.next > 0
<1>1. schedule.next \in Nat /\ proc[p].at \in Nat /\ schedule.next <= proc[p].at
  BY DEF CommitScan, Doing, ChecksHold, TypeOK, Times
<1>2. Last(proc[p].at) \in Nat
  BY <1>1, LastSlot DEF Slots
<1>3. schedule'.next = NextSlot(proc[p].at)
  BY DEF CommitScan, TypeOK
<1> QED  BY <1>2, <1>3 DEF NextSlot

LEMMA StepEnabled == TypeOK /\ LocksHeld /\ ChecksHold /\ Enabled /\ [Next]_vars => Enabled'
<1> SUFFICES ASSUME TypeOK, LocksHeld, ChecksHold, Enabled, [Next]_vars PROVE Enabled'
  OBVIOUS
<1>1. ASSUME NEW p \in Processes, CommitScan(p) PROVE Enabled'
  BY <1>1, NextSlotLater DEF Enabled
<1>2. ASSUME NEW e \in BOOLEAN, Upsert(e) PROVE Enabled'
  <2>1. now + Interval > 0
    BY DEF TypeOK, Times
  <2> QED  BY <1>2, <2>1 DEF Enabled, Upsert, TypeOK
<1>3. CASE UNCHANGED schedule
  BY <1>3 DEF Enabled
<1> QED
  BY <1>1, <1>2, <1>3
  DEF Next, AskCreate, CheckCreate, CommitCreate, AskScan, CheckScan, CheckArchive, CommitArchive,
      AskSchedule, Begin, CommitSchedule, RollBack, Check, Unarchive, Disable, EndRun, Verified,
      Unverified, Tick, vars, rows

\* No other process writes while one is between its reading and its commit.
LEMMA WritersAlone ==
    ASSUME TypeOK, LocksHeld, NEW p \in Processes, NEW q \in Processes,
           proc[p].pc = "commit", proc[p].job \in Writers,
           proc[q].pc = "commit", proc[q].job \in Writers
    PROVE  p = q
  BY DEF LocksHeld

\* What ChecksHold says of one process.
CheckedFor(p) ==
    proc[p].pc = "commit" =>
        /\ proc[p].job \in {"create", "archive"} => Actives = {}
        /\ proc[p].job = "scan" => schedule.next > 0 /\ schedule.next <= proc[p].at
        /\ proc[p].job = "scan" /\ proc[p].status = "TRIGGERED" => Actives = {}
        /\ \/ proc[p].job = "create"
           \/ proc[p].job = "scan" /\ proc[p].status = "TRIGGERED"
           => ~project.archived

\* A process that does not move keeps what it read, as long as no run begins, no
\* slot passes and the project is not archived.
LEMMA CheckedStays ==
    ASSUME NEW p, CheckedFor(p), proc'[p] = proc[p],
           Actives' \subseteq Actives,
           schedule.next > 0 => schedule'.next = schedule.next,
           project'.archived => project.archived
    PROVE  CheckedFor(p)'
  BY DEF CheckedFor

LEMMA StepChecks ==
    TypeOK /\ LocksHeld /\ ChecksHold /\ Enabled /\ FewActives /\ [Next]_vars => ChecksHold'
<1> SUFFICES ASSUME TypeOK, LocksHeld, ChecksHold, Enabled, FewActives, [Next]_vars,
                    NEW q \in Processes
             PROVE  CheckedFor(q)'
  BY DEF ChecksHold, CheckedFor
<1>a. CheckedFor(q)
  BY DEF ChecksHold, CheckedFor
<1>1. ASSUME UNCHANGED <<runs, schedule, project>>, proc'[q] = proc[q] PROVE CheckedFor(q)'
  BY <1>a, <1>1, CheckedStays DEF Actives
<1>2. ASSUME proc'[q].pc # "commit" \/ proc'[q].job = "enable" PROVE CheckedFor(q)'
  BY <1>2 DEF CheckedFor
<1>3. ASSUME NEW p \in Processes, AskCreate(p) PROVE CheckedFor(q)'
  <2>1. p = q => proc'[q].pc = "project"
    BY <1>3 DEF AskCreate, TypeOK, Idle
  <2>2. p # q => proc'[q] = proc[q]
    BY <1>3 DEF AskCreate, TypeOK
  <2> QED  BY <1>1, <1>2, <1>3, <2>1, <2>2 DEF AskCreate, rows
<1>4. ASSUME NEW p \in Processes, AskScan(p) PROVE CheckedFor(q)'
  <2>1. p = q => proc'[q].pc = "project"
    BY <1>4 DEF AskScan, TypeOK, Idle
  <2>2. p # q => proc'[q] = proc[q]
    BY <1>4 DEF AskScan, TypeOK
  <2> QED  BY <1>1, <1>2, <1>4, <2>1, <2>2 DEF AskScan, rows
<1>5. ASSUME NEW p \in Processes, AskSchedule(p) PROVE CheckedFor(q)'
  <2>1. p = q => proc'[q].job = "enable"
    BY <1>5 DEF AskSchedule, Begin, TypeOK
  <2>2. p # q => proc'[q] = proc[q]
    BY <1>5 DEF AskSchedule, Begin, TypeOK
  <2> QED  BY <1>1, <1>2, <1>5, <2>1, <2>2 DEF AskSchedule, Begin, rows
<1>6. ASSUME NEW p \in Processes, CheckArchive(p) PROVE CheckedFor(q)'
  <2>1. p = q => proc'[q].job = "archive" /\ Actives' = {}
    BY <1>6 DEF CheckArchive, TypeOK, Actives, rows
  <2>2. p # q => proc'[q] = proc[q]
    BY <1>6 DEF CheckArchive, TypeOK
  <2>3. p = q => CheckedFor(q)'
    BY <2>1 DEF CheckedFor
  <2> QED  BY <1>1, <1>6, <2>2, <2>3 DEF CheckArchive, rows
<1>7. ASSUME NEW p \in Processes, End(p), p = q PROVE CheckedFor(q)'
  BY <1>2, <1>7 DEF End, TypeOK, Idle
<1>8. ASSUME NEW p \in Processes, CheckCreate(p) PROVE CheckedFor(q)'
  <2> DEFINE stops == project.archived \/ ~project.verified \/ Actives # {} \/ QuotaUsed
  <2>1. UNCHANGED rows /\ (p # q => proc'[q] = proc[q])
    BY <1>8 DEF CheckCreate, Check, End, TypeOK
  <2>2. CASE p # q
    BY <1>1, <2>1, <2>2 DEF rows
  <2>3. CASE p = q /\ ~stops
    <3>1. proc'[q].job = "create" /\ Actives' = {} /\ ~project'.archived
      BY <1>8, <2>1, <2>3 DEF CheckCreate, Doing, Check, TypeOK, rows, Actives
    <3> QED  BY <3>1 DEF CheckedFor
  <2>4. CASE p = q /\ stops
    BY <1>7, <1>8, <2>4 DEF CheckCreate, Check
  <2> QED  BY <2>2, <2>3, <2>4
<1>9. ASSUME NEW p \in Processes, CheckScan(p) PROVE CheckedFor(q)'
  <2>1. UNCHANGED rows /\ (p # q => proc'[q] = proc[q])
    BY <1>9 DEF CheckScan, Check, End, TypeOK
  <2>2. CASE p # q
    BY <1>1, <2>1, <2>2 DEF rows
  <2>3. CASE p = q /\ Due(proc[p].at)
    <3>1. /\ proc'[q].job = "scan" /\ proc'[q].at = proc[q].at
          /\ proc'[q].status = "TRIGGERED" => Actives = {} /\ ~project.archived
      BY <1>9, <2>3 DEF CheckScan, Doing, Check, TypeOK
    <3>2. schedule.next > 0 /\ schedule.next <= proc[q].at
      BY <2>3 DEF Due, Enabled
    <3> QED  BY <2>1, <3>1, <3>2 DEF CheckedFor, rows, Actives
  <2>4. CASE p = q /\ ~Due(proc[p].at)
    BY <1>7, <1>9, <2>4 DEF CheckScan, Check
  <2> QED  BY <2>2, <2>3, <2>4
<1>10. ASSUME NEW p \in Processes, CommitCreate(p) \/ CommitScan(p) \/ CommitArchive(p)
       PROVE  CheckedFor(q)'
  <2>1. End(p) /\ proc[p].pc = "commit" /\ proc[p].job \in Writers
    BY <1>10 DEF CommitCreate, CommitScan, CommitArchive, Doing, Writers
  <2>2. CASE p = q
    BY <1>7, <2>1, <2>2
  <2>3. CASE p # q
    <3>1. proc'[q] = proc[q]
      BY <2>1, <2>3 DEF End, TypeOK
    <3>2. ~(proc[q].pc = "commit" /\ proc[q].job \in Writers)
      BY <2>1, <2>3, WritersAlone
    <3> QED  BY <3>1, <3>2 DEF CheckedFor, Writers
  <2> QED  BY <2>2, <2>3
<1>11. ASSUME NEW p \in Processes, RollBack(p) PROVE CheckedFor(q)'
  <2>1. End(p) /\ (p # q => proc'[q] = proc[q])
    BY <1>11 DEF RollBack, End, TypeOK
  <2> QED  BY <1>1, <1>7, <1>11, <2>1 DEF RollBack, rows
<1>12. ASSUME NEW e \in BOOLEAN, Upsert(e), proc'[q] = proc[q] PROVE CheckedFor(q)'
  <2>1. schedule.next > 0 => schedule'.next = schedule.next
    BY <1>12 DEF Upsert, TypeOK
  <2> QED  BY <1>a, <1>12, <2>1, CheckedStays DEF Upsert, Actives
<1>13. ASSUME NEW p \in Processes, CommitSchedule(p) PROVE CheckedFor(q)'
  <2>1. End(p) /\ Upsert(TRUE) /\ (p # q => proc'[q] = proc[q])
    BY <1>13 DEF CommitSchedule, End, TypeOK
  <2> QED  BY <1>7, <1>12, <2>1
<1>14. CASE Disable
  BY <1>12, <1>14 DEF Disable
<1>15. CASE EndRun
  <2>1. Actives' \subseteq Actives
    BY <1>15 DEF EndRun, Actives, TypeOK
  <2> QED  BY <1>a, <1>15, <2>1, CheckedStays DEF EndRun
<1>16. CASE Unarchive \/ Verified \/ Unverified
  <2>1. UNCHANGED <<runs, schedule, proc>> /\ (project'.archived => project.archived)
    BY <1>16 DEF Unarchive, Verified, Unverified, TypeOK
  <2> QED  BY <1>a, <2>1, CheckedStays DEF Actives
<1>17. CASE Tick \/ UNCHANGED vars
  BY <1>1, <1>17 DEF Tick, vars, rows
<1> QED
  BY <1>3, <1>4, <1>5, <1>6, <1>8, <1>9, <1>10, <1>11, <1>13, <1>14, <1>15, <1>16, <1>17 DEF Next
-----------------------------------------------------------------------------
(* Runs and records. *)

\* Nobody but a creator or a scanner with a triggered slot makes a run, and nobody
\* but an archiver archives.
LEMMA StepActives == TypeOK /\ ChecksHold /\ FewActives /\ [Next]_vars => FewActives'
<1> SUFFICES ASSUME TypeOK, ChecksHold, FewActives, [Next]_vars PROVE FewActives'
  OBVIOUS
<1>1. ASSUME Actives' \subseteq Actives, project'.archived => project.archived PROVE FewActives'
  BY <1>1 DEF FewActives
<1>2. ASSUME NEW k \in Keys \cup {NoKey}, runs' = Append(runs, NewRun(k)), Actives = {},
             ~project.archived, UNCHANGED project
      PROVE  FewActives'
  <2>1. /\ DOMAIN runs' = 1..(Len(runs) + 1) /\ DOMAIN runs = 1..Len(runs)
        /\ \A i \in DOMAIN runs : runs'[i] = runs[i]
    <3>1. runs' \in Seq(Runs) /\ runs \in Seq(Runs)
      BY <1>2, AppendTypes DEF TypeOK, Runs
    <3> QED  BY <1>2, <3>1, AppendTypes
  <2>2. Actives' \subseteq {Len(runs) + 1}
    <3>1. SUFFICES ASSUME NEW i \in DOMAIN runs', runs'[i].active, i # Len(runs) + 1 PROVE FALSE
      BY DEF Actives
    <3>2. i \in DOMAIN runs
      BY <2>1, <3>1 DEF TypeOK
    <3>3. runs[i].active
      BY <2>1, <3>1, <3>2
    <3> QED  BY <1>2, <3>2, <3>3 DEF Actives
  <2> QED  BY <1>2, <2>2 DEF FewActives
<1>3. ASSUME NEW p \in Processes, CommitCreate(p) PROVE FewActives'
  <2>1. Actives = {} /\ ~project.archived
    BY <1>3 DEF CommitCreate, Doing, ChecksHold
  <2> QED  BY <1>2, <1>3, <2>1 DEF CommitCreate, TypeOK
<1>4. ASSUME NEW p \in Processes, CommitScan(p) PROVE FewActives'
  <2>1. CASE proc[p].status = "TRIGGERED"
    <3>1. Actives = {} /\ ~project.archived
      BY <1>4, <2>1 DEF CommitScan, Doing, ChecksHold
    <3> QED  BY <1>2, <1>4, <2>1, <3>1 DEF CommitScan
  <2>2. CASE proc[p].status # "TRIGGERED"
    BY <1>1, <1>4, <2>2 DEF CommitScan, Actives
  <2> QED  BY <2>1, <2>2
<1>5. ASSUME NEW p \in Processes, CommitArchive(p) PROVE FewActives'
  <2>1. Actives = {}
    BY <1>5 DEF CommitArchive, Doing, ChecksHold
  <2> QED  BY <1>5, <2>1 DEF CommitArchive, FewActives, Actives
<1>6. CASE EndRun
  <2>1. Actives' \subseteq Actives
    BY <1>6 DEF EndRun, Actives, TypeOK
  <2> QED  BY <1>1, <1>6, <2>1 DEF EndRun
<1>7. CASE Unarchive \/ Verified \/ Unverified
  BY <1>1, <1>7 DEF Unarchive, Verified, Unverified, Actives, TypeOK
<1>8. CASE UNCHANGED <<runs, project>>
  BY <1>1, <1>8 DEF Actives
<1> QED
  BY <1>3, <1>4, <1>5, <1>6, <1>7, <1>8
  DEF Next, AskCreate, CheckCreate, AskScan, CheckScan, CheckArchive, AskSchedule, Begin,
      CommitSchedule, RollBack, Check, Disable, Upsert, Tick, vars, rows

\* The records that creators have found expired stay so: the key is locked.
LEMMA StepExpired == TypeOK /\ LocksHeld /\ RecordExpired /\ [Next]_vars => RecordExpired'
<1> SUFFICES ASSUME TypeOK, LocksHeld, RecordExpired, [Next]_vars,
                    NEW q \in Processes, proc'[q].job = "create"
             PROVE  record'[proc'[q].key].expires <= now'
  BY DEF RecordExpired
<1>1. ASSUME UNCHANGED <<record, now>>, proc'[q].job = proc[q].job, proc'[q].key = proc[q].key
      PROVE  record'[proc'[q].key].expires <= now'
  BY <1>1 DEF RecordExpired
<1>2. ASSUME NEW p \in Processes, AskCreate(p) PROVE record'[proc'[q].key].expires <= now'
  <2>1. PICK k \in Keys : /\ record[k].expires <= now
                          /\ proc' = [proc EXCEPT ![p] = [Idle EXCEPT !.job = "create", !.pc = "project",
                                                                      !.key = k]]
    BY <1>2 DEF AskCreate
  <2>2. p = q => proc'[q].key = k
    BY <2>1 DEF TypeOK, Idle
  <2>3. p # q => proc'[q] = proc[q]
    BY <2>1
  <2> QED  BY <1>1, <1>2, <2>1, <2>2, <2>3 DEF AskCreate, rows
<1>3. ASSUME NEW p \in Processes, End(p) PROVE p # q /\ proc'[q] = proc[q] /\ now' = now
  BY <1>3 DEF End, TypeOK, Idle
<1>4. ASSUME NEW p \in Processes, CommitCreate(p) PROVE record'[proc'[q].key].expires <= now'
  <2>1. p # q /\ proc'[q] = proc[q] /\ now' = now /\ proc[p].job = "create"
    BY <1>3, <1>4 DEF CommitCreate, Doing
  <2>2. proc[p].key # proc[q].key
    BY <2>1 DEF LocksHeld
  <2>3. record'[proc[q].key] = record[proc[q].key]
    BY <1>4, <2>1, <2>2 DEF CommitCreate, LocksHeld, TypeOK
  <2> QED  BY <2>1, <2>3 DEF RecordExpired
<1>5. ASSUME NEW p \in Processes, CommitScan(p) \/ CommitArchive(p) \/ CommitSchedule(p) \/ RollBack(p)
      PROVE  record'[proc'[q].key].expires <= now'
  <2>1. End(p) /\ UNCHANGED record
    BY <1>5 DEF CommitScan, CommitArchive, CommitSchedule, RollBack, Upsert, rows
  <2> QED  BY <1>1, <1>3, <2>1
<1>6. ASSUME NEW p \in Processes, AskScan(p) PROVE record'[proc'[q].key].expires <= now'
  <2>1. p = q => proc'[q].job = "scan"
    BY <1>6 DEF AskScan, TypeOK, Idle
  <2>2. p # q => proc'[q] = proc[q]
    BY <1>6 DEF AskScan, TypeOK
  <2> QED  BY <1>1, <1>6, <2>1, <2>2 DEF AskScan, rows
<1>7. ASSUME NEW p \in Processes, CheckArchive(p) \/ AskSchedule(p)
      PROVE  record'[proc'[q].key].expires <= now'
  <2>1. p = q => proc'[q].job # "create"
    BY <1>7 DEF CheckArchive, AskSchedule, Begin, TypeOK
  <2>2. p # q => proc'[q] = proc[q]
    BY <1>7 DEF CheckArchive, AskSchedule, Begin, TypeOK
  <2> QED  BY <1>1, <1>7, <2>1, <2>2 DEF CheckArchive, AskSchedule, Begin, rows
<1>8. ASSUME NEW p \in Processes, CheckCreate(p) \/ CheckScan(p)
      PROVE  record'[proc'[q].key].expires <= now'
  <2>1. UNCHANGED <<record, now>>
    BY <1>8 DEF CheckCreate, CheckScan, Check, End, rows
  <2>2. proc'[q].job = proc[q].job /\ proc'[q].key = proc[q].key
    BY <1>8, <1>3 DEF CheckCreate, CheckScan, Check, TypeOK
  <2> QED  BY <1>1, <2>1, <2>2
<1>9. CASE Tick
  <2>1. record[proc[q].key].expires <= now /\ record[proc[q].key].expires \in Nat
    BY <1>9 DEF Tick, RecordExpired, LocksHeld, TypeOK
  <2>2. now' = now + 1 /\ now \in Nat /\ UNCHANGED <<record, proc>>
    BY <1>9 DEF Tick, TypeOK, Times, rows
  <2> QED  BY <2>1, <2>2
<1>10. CASE UNCHANGED <<record, now, proc>>
  BY <1>1, <1>10
<1> QED
  BY <1>2, <1>4, <1>5, <1>6, <1>7, <1>8, <1>9, <1>10
  DEF Next, Unarchive, Disable, Upsert, EndRun, Verified, Unverified, vars
\* The runs made by hand keep their key and their time, whatever ends.
LEMMA RunsStay ==
    ASSUME TypeOK, EndRun
    PROVE  /\ DOMAIN runs' = DOMAIN runs
           /\ \A i \in DOMAIN runs : runs'[i].key = runs[i].key /\ runs'[i].at = runs[i].at
           /\ Manual' = Manual
<1>1. PICK k \in Actives : runs' = [runs EXCEPT ![k].active = FALSE]
  BY DEF EndRun
<1>2. runs \in Seq(Runs) /\ k \in DOMAIN runs
  BY DEF TypeOK, Runs, Actives
<1>3. /\ DOMAIN runs' = DOMAIN runs
      /\ \A i \in DOMAIN runs : runs'[i].key = runs[i].key /\ runs'[i].at = runs[i].at
  BY <1>1, <1>2 DEF Runs
<1> QED  BY <1>3 DEF Manual

\* A new run is the last one; it counts as made by hand if it has a key.
LEMMA RunsGrow ==
    ASSUME TypeOK, NEW k \in Keys \cup {NoKey}, runs' = Append(runs, NewRun(k))
    PROVE  /\ DOMAIN runs' = 1..(Len(runs) + 1)
           /\ \A i \in DOMAIN runs : runs'[i] = runs[i]
           /\ runs'[Len(runs) + 1] = NewRun(k)
           /\ Manual' = Manual \cup (IF k = NoKey THEN {} ELSE {Len(runs) + 1})
           /\ Manual \subseteq 1..Len(runs) /\ Len(runs) \in Nat
<1>1. /\ runs' \in Seq(Runs) /\ runs \in Seq(Runs)
      /\ Len(runs') = Len(runs) + 1
      /\ \A i \in DOMAIN runs : runs'[i] = runs[i]
      /\ runs'[Len(runs) + 1] = NewRun(k)
  BY AppendTypes DEF TypeOK, Runs
<1>2. DOMAIN runs' = 1..(Len(runs) + 1) /\ DOMAIN runs = 1..Len(runs) /\ Len(runs) \in Nat
  BY <1>1
<1>3. Manual' = {i \in 1..(Len(runs) + 1) : runs'[i].key # NoKey}
  BY <1>2 DEF Manual
<1>4. Manual = {i \in 1..Len(runs) : runs[i].key # NoKey}
  BY <1>2 DEF Manual
<1>5. runs'[Len(runs) + 1].key = k
  BY <1>1 DEF NewRun
<1>6. \A i \in 1..(Len(runs) + 1) : i \in 1..Len(runs) \/ i = Len(runs) + 1
  BY <1>2
<1>7. Len(runs) + 1 \in 1..(Len(runs) + 1) /\ 1..Len(runs) \subseteq 1..(Len(runs) + 1)
  BY <1>2
<1>8. Manual' = Manual \cup (IF k = NoKey THEN {} ELSE {Len(runs) + 1})
  <2> DEFINE n == Len(runs) + 1
             Old == 1..Len(runs)
             All == 1..n
  <2>1. /\ Manual' = {i \in All : runs'[i].key # NoKey} /\ Manual = {i \in Old : runs[i].key # NoKey}
        /\ runs'[n].key = k /\ (\A i \in All : i \in Old \/ i = n) /\ n \in All /\ Old \subseteq All
        /\ \A i \in Old : runs'[i] = runs[i]
    BY <1>1, <1>2, <1>3, <1>4, <1>5, <1>6, <1>7
  <2> HIDE DEF n, Old, All
  <2>2. Manual' = Manual \cup (IF k = NoKey THEN {} ELSE {n})
    BY <2>1
  <2> QED  BY <2>2 DEF n
<1> QED  BY <1>1, <1>2, <1>4, <1>8

\* What the rows of the runs made by hand hold.
LEMMA ManualTypes ==
    ASSUME TypeOK, NEW i \in Manual
    PROVE  i \in DOMAIN runs /\ runs[i].key \in Keys /\ runs[i].at \in Nat
<1>1. runs \in Seq(Runs) /\ i \in DOMAIN runs /\ runs[i].key # NoKey
  BY DEF TypeOK, Runs, Manual
<1>2. runs[i] \in Runs
  BY <1>1
<1> QED  BY <1>1, <1>2 DEF Runs, Times

\* Steps that leave records and the keys and times of the runs made by hand alone.
LEMMA RecordsStay ==
    ASSUME RecordsLast, KeysApart, Manual' = Manual, record' = record,
           DOMAIN runs \subseteq DOMAIN runs',
           \A i \in DOMAIN runs : runs'[i].key = runs[i].key /\ runs'[i].at = runs[i].at
    PROVE  RecordsLast' /\ KeysApart'
<1>1. Manual \subseteq DOMAIN runs
  BY DEF Manual
<1> QED  BY <1>1 DEF RecordsLast, KeysApart

\* A creator finds the record of its key expired, so the runs of that key are over
\* a life of a record old.
LEMMA OldRunsExpired ==
    ASSUME TypeOK, RecordsLast, RecordExpired, NEW p \in Processes, proc[p].job = "create",
           proc[p].key \in Keys, NEW i \in Manual, runs[i].key = proc[p].key
    PROVE  runs[i].at + KeyTTL <= now
<1>1. record[proc[p].key].expires \in Nat /\ now \in Nat /\ runs[i].at \in Nat
  BY ManualTypes DEF TypeOK, Times
<1> QED  BY <1>1 DEF RecordsLast, RecordExpired

LEMMA StepRecords ==
    TypeOK /\ LocksHeld /\ RecordExpired /\ RecordsLast /\ KeysApart /\ [Next]_vars
      => RecordsLast' /\ KeysApart'
<1> SUFFICES ASSUME TypeOK, LocksHeld, RecordExpired, RecordsLast, KeysApart, [Next]_vars
             PROVE  RecordsLast' /\ KeysApart'
  OBVIOUS
<1>1. ASSUME NEW p \in Processes, CommitCreate(p) PROVE RecordsLast' /\ KeysApart'
  <2> DEFINE k == proc[p].key
             n == Len(runs) + 1
  <2>1. proc[p].job = "create" /\ k \in Keys
    BY <1>1 DEF CommitCreate, Doing, LocksHeld
  <2>2. /\ DOMAIN runs' = 1..n /\ runs'[n] = NewRun(k)
        /\ \A i \in DOMAIN runs : runs'[i] = runs[i]
        /\ Manual' = Manual \cup {n}
        /\ Manual \subseteq 1..Len(runs) /\ Len(runs) \in Nat
    BY <1>1, <2>1, RunsGrow DEF CommitCreate
  <2>3. /\ record'[k] = [run |-> n, expires |-> now + KeyTTL]
        /\ \A j \in Keys : j # k => record'[j] = record[j]
    BY <1>1, <2>1 DEF CommitCreate, TypeOK
  <2>4. now \in Nat /\ KeyTTL \in Nat
    BY DEF TypeOK, Times
  <2>5. \A i \in Manual : runs'[i] = runs[i] /\ runs[i].key \in Keys /\ i < n /\ i \in Nat
    <3>1. \A i \in Manual : runs[i].key \in Keys /\ i \in DOMAIN runs
      BY ManualTypes
    <3> QED  BY <2>2, <3>1
  <2>6. \A i \in Manual : runs[i].key = k => runs[i].at + KeyTTL <= now /\ runs[i].at \in Nat
    <3>1. \A i \in Manual : runs[i].at \in Nat
      BY ManualTypes
    <3> QED  BY <2>1, <3>1, OldRunsExpired
  <2>7. runs'[n].key = k /\ runs'[n].at = now
    BY <2>2 DEF NewRun
  <2> HIDE DEF k, n
  <2>8. RecordsLast'
    <3>1. SUFFICES ASSUME NEW i \in Manual'
                   PROVE  LET r == record'[runs'[i].key]
                          IN  /\ r.run \in DOMAIN runs' /\ r.run >= i
                              /\ runs'[r.run].key = runs'[i].key
                              /\ runs'[i].at + KeyTTL <= r.expires
      BY DEF RecordsLast
    <3>2. n \in Nat /\ n \in DOMAIN runs'
      BY <2>2 DEF n
    <3>3. CASE i = n
      BY <2>3, <2>4, <2>7, <3>2, <3>3
    <3>4. CASE i \in Manual /\ runs[i].key = k
      <4>1. runs[i].at + KeyTTL <= now + KeyTTL
        BY <2>4, <2>6, <3>4
      <4> QED  BY <2>3, <2>4, <2>5, <2>7, <3>2, <3>4, <4>1
    <3>5. CASE i \in Manual /\ runs[i].key # k
      <4>1. /\ record[runs[i].key].run \in DOMAIN runs /\ record[runs[i].key].run >= i
            /\ runs[record[runs[i].key].run].key = runs[i].key
            /\ runs[i].at + KeyTTL <= record[runs[i].key].expires
        BY <3>5 DEF RecordsLast
      <4>2. DOMAIN runs \subseteq DOMAIN runs'
        BY <2>2 DEF n, TypeOK
      <4> QED  BY <2>2, <2>3, <2>5, <3>5, <4>1, <4>2
    <3> QED  BY <2>2, <3>3, <3>4, <3>5
  <2>9. KeysApart'
    <3>1. SUFFICES ASSUME NEW i \in Manual', NEW j \in Manual', i < j, runs'[i].key = runs'[j].key
                   PROVE  runs'[j].at >= runs'[i].at + KeyTTL
      BY DEF KeysApart
    <3>2. i \in Manual
      BY <2>2, <2>5, <3>1 DEF n
    <3>3. CASE j = n
      BY <2>4, <2>5, <2>6, <2>7, <3>1, <3>2, <3>3
    <3>4. CASE j \in Manual
      BY <2>5, <3>1, <3>2, <3>4 DEF KeysApart
    <3> QED  BY <2>2, <3>3, <3>4
  <2> QED  BY <2>8, <2>9
<1>2. ASSUME NEW p \in Processes, CommitScan(p) PROVE RecordsLast' /\ KeysApart'
  <2>1. CASE proc[p].status = "TRIGGERED"
    <3>1. /\ Manual' = Manual /\ DOMAIN runs \subseteq DOMAIN runs'
          /\ \A i \in DOMAIN runs : runs'[i] = runs[i]
      <4>1. runs' = Append(runs, NewRun(NoKey))
        BY <1>2, <2>1 DEF CommitScan
      <4>2. /\ Manual' = Manual /\ DOMAIN runs' = 1..(Len(runs) + 1)
            /\ \A i \in DOMAIN runs : runs'[i] = runs[i]
        BY <4>1, RunsGrow
      <4>3. DOMAIN runs = 1..Len(runs) /\ Len(runs) \in Nat
        BY DEF TypeOK
      <4> QED  BY <4>2, <4>3
    <3> QED  BY <1>2, <3>1, RecordsStay DEF CommitScan
  <2>2. CASE proc[p].status # "TRIGGERED"
    BY <1>2, <2>2, RecordsStay DEF CommitScan, Manual
  <2> QED  BY <2>1, <2>2
<1>3. CASE EndRun
  BY <1>3, RunsStay, RecordsStay DEF EndRun
<1>4. CASE UNCHANGED <<runs, record>>
  BY <1>4, RecordsStay DEF Manual
<1> QED
  BY <1>1, <1>2, <1>3, <1>4
  DEF Next, AskCreate, CheckCreate, AskScan, CheckScan, CheckArchive, CommitArchive, AskSchedule,
      Begin, CommitSchedule, RollBack, Check, Unarchive, Disable, Upsert, Verified, Unverified, Tick,
      vars, rows
-----------------------------------------------------------------------------
(* The quota. *)

\* The quota that a creator found free is still free when it commits.
QuotaKept ==
    \A p \in Processes : proc[p].pc = "commit" /\ proc[p].job = "create" => ~QuotaUsed

\* The runs of the last day.
Recent == {i \in Manual : runs[i].at + Day >= now}

LEMMA ManualFinite == ASSUME TypeOK PROVE \A S : S \subseteq Manual => IsFiniteSet(S)
<1>1. IsFiniteSet(1..Len(runs))
  BY FS_Interval DEF TypeOK
<1>2. Manual \subseteq 1..Len(runs)
  BY DEF TypeOK, Manual
<1> QED  BY <1>1, <1>2, FS_Subset

\* The quota is used up by new runs only; time frees it.
LEMMA QuotaStays ==
    ASSUME TypeOK, TypeOK', ~QuotaUsed, now <= now', Manual' = Manual,
           \A i \in Manual : runs'[i].at = runs[i].at
    PROVE  ~QuotaUsed'
<1>1. \A i \in Manual : runs[i].at \in Nat
  BY ManualTypes
<1>2. now \in Nat /\ now' \in Nat /\ Day \in Nat /\ Spacing \in Nat /\ MaxDaily \in Nat
  BY DEF TypeOK, Times
<1>3. Recent' \subseteq Recent
  <2>1. SUFFICES ASSUME NEW i \in Manual, runs'[i].at + Day >= now' PROVE runs[i].at + Day >= now
    BY DEF Recent
  <2> QED  BY <1>1, <1>2, <2>1
<1>4. Cardinality(Recent') <= Cardinality(Recent) /\ IsFiniteSet(Recent)
  <2>1. IsFiniteSet(Recent)
    BY ManualFinite DEF Recent
  <2> QED  BY <1>3, <2>1, FS_Subset
<1>5. Cardinality(Recent) \in Nat /\ Cardinality(Recent') \in Nat
  BY <1>3, <1>4, FS_CardinalityType, FS_Subset
<1>6. ~(Cardinality(Recent') >= MaxDaily)
  BY <1>2, <1>4, <1>5 DEF QuotaUsed, Recent
<1>7. ~\E i \in Manual' : runs'[i].at + Spacing > now'
  BY <1>1, <1>2 DEF QuotaUsed
<1> QED  BY <1>6, <1>7 DEF QuotaUsed, Recent

LEMMA StepQuotaKept ==
    TypeOK /\ TypeOK' /\ LocksHeld /\ QuotaKept /\ [Next]_vars => QuotaKept'
<1> SUFFICES ASSUME TypeOK, TypeOK', LocksHeld, QuotaKept, [Next]_vars,
                    NEW q \in Processes, proc'[q].pc = "commit", proc'[q].job = "create"
             PROVE  ~QuotaUsed'
  BY DEF QuotaKept
<1>1. ASSUME UNCHANGED <<runs, now>>, proc'[q] = proc[q] PROVE ~QuotaUsed'
  BY <1>1 DEF QuotaKept, QuotaUsed, Manual
<1>2. ASSUME NEW p \in Processes, End(p) PROVE p # q /\ proc'[q] = proc[q] /\ now' = now
  BY <1>2 DEF End, TypeOK, Idle
<1>3. ASSUME NEW p \in Processes, CheckCreate(p) PROVE ~QuotaUsed'
  <2> DEFINE stops == project.archived \/ ~project.verified \/ Actives # {} \/ QuotaUsed
  <2>1. CASE stops
    BY <1>1, <1>2, <1>3, <2>1 DEF CheckCreate, Check, rows
  <2>2. CASE ~stops
    BY <1>3, <2>2 DEF CheckCreate, Check, rows, QuotaUsed, Manual
  <2> QED  BY <2>1, <2>2
<1>4. ASSUME NEW p \in Processes, CheckScan(p) PROVE ~QuotaUsed'
  <2>1. CASE End(p)
    BY <1>1, <1>2, <1>4, <2>1 DEF CheckScan, Check, rows
  <2>2. CASE ~End(p)
    <3>1. p # q /\ proc'[q] = proc[q] /\ UNCHANGED <<runs, now>>
      <4>1. PICK st : proc' = [proc EXCEPT ![p].pc = "commit", ![p].status = st]
        BY <1>4, <2>2 DEF CheckScan, Check
      <4>2. proc[p].job = "scan" /\ UNCHANGED <<runs, now>>
        BY <1>4, <2>2 DEF CheckScan, Doing, Check, rows
      <4>3. proc'[p].job = "scan"
        BY <4>1, <4>2 DEF TypeOK
      <4> QED  BY <4>1, <4>2, <4>3 DEF TypeOK
    <3> QED  BY <1>1, <3>1
  <2> QED  BY <2>1, <2>2
<1>5. ASSUME NEW p \in Processes, CommitCreate(p) \/ CommitScan(p) PROVE ~QuotaUsed'
  <2>1. End(p) /\ proc[p].pc = "commit" /\ proc[p].job \in Writers
    BY <1>5 DEF CommitCreate, CommitScan, Doing, Writers
  <2>2. p # q /\ proc'[q] = proc[q]
    BY <1>2, <2>1
  <2> QED  BY <2>1, <2>2, WritersAlone DEF Writers
<1>6. ASSUME NEW p \in Processes, CommitArchive(p) \/ CommitSchedule(p) \/ RollBack(p)
      PROVE  ~QuotaUsed'
  <2>1. End(p) /\ UNCHANGED runs
    BY <1>6 DEF CommitArchive, CommitSchedule, RollBack, Upsert, rows
  <2> QED  BY <1>1, <1>2, <2>1
<1>7. ASSUME NEW p \in Processes, AskCreate(p) \/ AskScan(p) \/ CheckArchive(p) \/ AskSchedule(p)
      PROVE  ~QuotaUsed'
  <2>1. UNCHANGED <<runs, now>>
    BY <1>7 DEF AskCreate, AskScan, CheckArchive, AskSchedule, Begin, rows
  <2>2. p # q => proc'[q] = proc[q]
    BY <1>7 DEF AskCreate, AskScan, CheckArchive, AskSchedule, Begin, TypeOK
  <2>3. p = q => proc'[q].pc = "project" \/ proc'[q].job \in {"archive", "enable"}
    <3>1. CASE AskCreate(p)
      BY <3>1 DEF AskCreate, TypeOK, Idle
    <3>2. CASE AskScan(p)
      BY <3>2 DEF AskScan, TypeOK, Idle
    <3>3. CASE CheckArchive(p)
      BY <3>3 DEF CheckArchive, TypeOK
    <3>4. CASE AskSchedule(p)
      BY <3>4 DEF AskSchedule, Begin, TypeOK
    <3> QED  BY <1>7, <3>1, <3>2, <3>3, <3>4
  <2> QED  BY <1>1, <2>1, <2>2, <2>3
<1>8. CASE EndRun
  <2>1. ~QuotaUsed /\ now <= now'
    BY <1>8 DEF EndRun, QuotaKept, TypeOK, Times
  <2>2. \A i \in Manual : runs'[i].at = runs[i].at
    BY <1>8, RunsStay, ManualTypes
  <2>3. Manual' = Manual
    BY <1>8, RunsStay
  <2> QED  BY <2>1, <2>2, <2>3, QuotaStays
<1>9. CASE Tick
  <2>1. ~QuotaUsed /\ now <= now' /\ runs' = runs
    BY <1>9 DEF Tick, QuotaKept, rows, TypeOK, Times
  <2> QED  BY <2>1, QuotaStays DEF Manual
<1>10. CASE UNCHANGED <<runs, now, proc>>
  BY <1>1, <1>10
<1> QED
  BY <1>3, <1>4, <1>5, <1>6, <1>7, <1>8, <1>9, <1>10
  DEF Next, Unarchive, Disable, Upsert, Verified, Unverified, vars

\* Among the runs before and with run j, those of its day.
DayOf(j) == {i \in Manual : i <= j /\ runs[i].at + Day >= runs[j].at}

\* Steps that make no run by hand.
LEMMA QuotaHoldsStays ==
    ASSUME QuotaHolds, Manual' = Manual, \A i \in Manual : runs'[i].at = runs[i].at
    PROVE  QuotaHolds'
<1>1. ASSUME NEW j \in Manual PROVE DayOf(j)' = DayOf(j)
  BY <1>1 DEF DayOf
<1> QED  BY <1>1 DEF QuotaHolds, DayOf

LEMMA StepQuota == TypeOK /\ LocksHeld /\ QuotaKept /\ QuotaHolds /\ [Next]_vars => QuotaHolds'
<1> SUFFICES ASSUME TypeOK, LocksHeld, QuotaKept, QuotaHolds, [Next]_vars PROVE QuotaHolds'
  OBVIOUS
<1>1. ASSUME NEW p \in Processes, CommitCreate(p) PROVE QuotaHolds'
  <2> DEFINE n == Len(runs) + 1
  <2>1. proc[p].key \in Keys /\ ~QuotaUsed
    BY <1>1 DEF CommitCreate, Doing, LocksHeld, QuotaKept
  <2>2. /\ Manual' = Manual \cup {n} /\ runs'[n].at = now
        /\ Manual \subseteq 1..Len(runs) /\ Len(runs) \in Nat
        /\ \A i \in DOMAIN runs : runs'[i] = runs[i]
    BY <1>1, <2>1, RunsGrow DEF CommitCreate, NewRun
  <2>3. \A i \in Manual : runs'[i] = runs[i] /\ runs[i].at \in Nat /\ i < n /\ i \in Nat
    BY <2>2, ManualTypes
  <2>4. now \in Nat /\ Day \in Nat /\ MaxDaily \in Nat /\ Spacing \in Nat /\ n \in Nat
    BY <2>2 DEF TypeOK, Times
  <2> HIDE DEF n
  <2>5. ASSUME NEW j \in Manual', NEW i \in Manual', i < j PROVE runs'[j].at >= runs'[i].at + Spacing
    <3>1. i \in Manual
      BY <2>2, <2>3, <2>4, <2>5
    <3>2. CASE j \in Manual
      BY <2>3, <2>5, <3>1, <3>2 DEF QuotaHolds
    <3>3. CASE j = n
      <4>1. ~(runs[i].at + Spacing > now)
        BY <2>1, <3>1 DEF QuotaUsed
      <4> QED  BY <2>2, <2>3, <2>4, <3>1, <3>3, <4>1
    <3> QED  BY <2>2, <3>2, <3>3
  <2>6. ASSUME NEW j \in Manual' PROVE Cardinality(DayOf(j)') <= MaxDaily
    <3>1. CASE j \in Manual
      <4>1. DayOf(j)' = DayOf(j)
        <5>1. \A i \in Manual' : i <= j => i \in Manual
          BY <2>2, <2>3, <2>4, <3>1
        <5> QED  BY <2>2, <2>3, <3>1, <5>1 DEF DayOf
      <4> QED  BY <3>1, <4>1 DEF QuotaHolds, DayOf
    <3>2. CASE j = n
      <4>1. DayOf(j)' \subseteq Recent \cup {n}
        BY <2>2, <2>3, <3>2 DEF DayOf, Recent
      <4>2. IsFiniteSet(Recent) /\ Cardinality(Recent) \in Nat
        BY ManualFinite, FS_CardinalityType DEF Recent
      <4>3. Cardinality(Recent) < MaxDaily
        BY <2>1, <2>4, <4>2 DEF QuotaUsed, Recent
      <4>4. IsFiniteSet(Recent \cup {n}) /\ Cardinality(Recent \cup {n}) <= Cardinality(Recent) + 1
        <5>1. /\ IsFiniteSet(Recent \cup {n})
              /\ Cardinality(Recent \cup {n})
                   = IF n \in Recent THEN Cardinality(Recent) ELSE Cardinality(Recent) + 1
          BY <4>2, FS_AddElement, Zenon
        <5> QED  BY <4>2, <5>1
      <4>5. Cardinality(DayOf(j)') <= Cardinality(Recent \cup {n}) /\ IsFiniteSet(DayOf(j)')
        BY <4>1, <4>4, FS_Subset
      <4>6. Cardinality(DayOf(j)') \in Nat /\ Cardinality(Recent \cup {n}) \in Nat
        BY <4>4, <4>5, FS_CardinalityType
      <4> QED  BY <2>4, <4>2, <4>3, <4>4, <4>5, <4>6
    <3> QED  BY <2>2, <3>1, <3>2
  <2> QED  BY <2>5, <2>6 DEF QuotaHolds, DayOf
<1>2. ASSUME NEW p \in Processes, CommitScan(p) PROVE QuotaHolds'
  <2>1. CASE proc[p].status = "TRIGGERED"
    <3>1. runs' = Append(runs, NewRun(NoKey))
      BY <1>2, <2>1 DEF CommitScan
    <3>2. Manual' = Manual /\ \A i \in DOMAIN runs : runs'[i] = runs[i]
      BY <3>1, RunsGrow
    <3> QED  BY <3>2, ManualTypes, QuotaHoldsStays
  <2>2. CASE proc[p].status # "TRIGGERED"
    BY <1>2, <2>2, QuotaHoldsStays DEF CommitScan, Manual
  <2> QED  BY <2>1, <2>2
<1>3. CASE EndRun
  <2>1. \A i \in Manual : runs'[i].at = runs[i].at
    BY <1>3, RunsStay, ManualTypes
  <2> QED  BY <1>3, <2>1, RunsStay, QuotaHoldsStays
<1>4. CASE UNCHANGED runs
  BY <1>4, QuotaHoldsStays DEF Manual
<1> QED
  BY <1>1, <1>2, <1>3, <1>4
  DEF Next, AskCreate, CheckCreate, AskScan, CheckScan, CheckArchive, CommitArchive, AskSchedule,
      Begin, CommitSchedule, RollBack, Check, Unarchive, Disable, Upsert, Verified, Unverified, Tick,
      vars, rows

-----------------------------------------------------------------------------
(* The slots of the schedule. *)

\* A multiple of the interval.
OnGrid(d) == d % Interval = 0

LEMMA GridIsMultiple == ASSUME NEW d \in Int
                        PROVE  OnGrid(d) <=> \E k \in Int : d = k * Interval
<1>1. OnGrid(d) => d = (d \div Interval) * Interval /\ d \div Interval \in Int
  BY DEF OnGrid
<1>2. \A k \in Int : d = k * Interval => OnGrid(d)
  BY DEF OnGrid
<1> QED  BY <1>1, <1>2

\* Sums and differences of multiples are multiples, and so is the interval itself.
LEMMA GridAdds ==
    ASSUME NEW c \in Int, NEW d \in Int, OnGrid(c), OnGrid(d)
    PROVE  OnGrid(c + d) /\ OnGrid(c - d) /\ OnGrid(Interval)
<1>1. PICK k \in Int : c = k * Interval
  BY GridIsMultiple
<1>2. PICK m \in Int : d = m * Interval
  BY GridIsMultiple
<1>3. c + d = (k + m) * Interval /\ c - d = (k - m) * Interval /\ Interval = 1 * Interval
  BY <1>1, <1>2
<1>4. k + m \in Int /\ k - m \in Int /\ 1 \in Int /\ c + d \in Int /\ c - d \in Int /\ Interval \in Int
  OBVIOUS
<1> QED  BY <1>3, <1>4, GridIsMultiple

\* Less than an interval lies between no two multiples.
LEMMA GridIsSparse == ASSUME NEW d \in Nat, OnGrid(d), d < Interval
                      PROVE  d = 0
  BY DEF OnGrid

\* A slot that is accounted for.
Counted(t) == schedule.first <= t /\ t < schedule.next /\ OnGrid(t - schedule.first)

\* A scanner that commits has decided the fate of its slot.
Decided == \A p \in Processes : proc[p].pc = "commit" /\ proc[p].job = "scan" => proc[p].status # "none"

\* nextRunAt is on the grid of the schedule.
NextOnGrid == schedule.first <= schedule.next /\ OnGrid(schedule.next - schedule.first)

Triggered == {t \in Times : occurrence[t] = "TRIGGERED"}
Scheduled == DOMAIN runs \ Manual

SlotsInv ==
    /\ Decided /\ NextOnGrid
    /\ \A t \in Times : occurrence[t] # "none" <=> Counted(t)
    /\ Cardinality(Triggered) = Cardinality(Scheduled)

LEMMA SlotSetsFinite == ASSUME TypeOK PROVE IsFiniteSet(Triggered) /\ IsFiniteSet(Scheduled)
<1>1. IsFiniteSet(0..MaxTime)
  <2>1. 0 \in Int /\ MaxTime \in Int
    OBVIOUS
  <2> QED  BY <2>1, FS_Interval
<1>2. Triggered \subseteq 0..MaxTime
  BY DEF Triggered, Times
<1>3. runs \in Seq(Runs)
  BY DEF TypeOK, Runs
<1>4. DOMAIN runs = 1..Len(runs) /\ Len(runs) \in Nat
  BY <1>3
<1>5. IsFiniteSet(1..Len(runs)) /\ Scheduled \subseteq 1..Len(runs)
  BY <1>4, FS_Interval DEF Scheduled
<1> QED  BY <1>1, <1>2, <1>5, FS_Subset

\* The scan accounts for exactly the slots up to the next one.
LEMMA ScanCounts ==
    ASSUME TypeOK, ChecksHold, NextOnGrid, NEW p \in Processes, CommitScan(p)
    PROVE  /\ NextOnGrid'
           /\ \A t \in Times : Counted(t)' <=> Counted(t) \/ t \in Slots(proc[p].at)
           /\ Last(proc[p].at) \in Slots(proc[p].at) /\ Slots(proc[p].at) \subseteq Times
           /\ \A t \in Slots(proc[p].at) : ~Counted(t)
<1> DEFINE at   == proc[p].at
           last == Last(at)
           first == schedule.first
           next == schedule.next
<1>1. /\ first \in Nat /\ next \in Nat /\ at \in Times /\ next <= at
      /\ first <= next /\ OnGrid(next - first)
  BY DEF CommitScan, Doing, ChecksHold, TypeOK, NextOnGrid
<1>2. last \in Slots(at) /\ \A r \in Slots(at) : r <= last
  BY <1>1, LastSlot DEF Times
<1>3. \A s : s \in Slots(at) <=> s \in next..at /\ OnGrid(s - next)
  BY DEF Slots, OnGrid
<1>4. last \in Nat /\ next <= last /\ last <= at /\ OnGrid(last - next)
  BY <1>1, <1>2, <1>3
<1>5. schedule'.first = first /\ schedule'.next = last + Interval
  BY DEF CommitScan, NextSlot, TypeOK
<1> HIDE DEF at, last, first, next
<1>6. OnGrid(last - first)
  <2>1. last - first = (last - next) + (next - first)
    BY <1>1, <1>4
  <2> QED  BY <1>1, <1>4, <2>1, GridAdds
<1>7. NextOnGrid'
  <2>1. OnGrid((last - first) + Interval)
    BY <1>1, <1>4, <1>6, GridAdds
  <2>2. (last + Interval) - first = (last - first) + Interval /\ first <= last + Interval
    BY <1>1, <1>4
  <2> QED  BY <1>5, <2>1, <2>2 DEF NextOnGrid
<1>8. Slots(at) \subseteq Times
  <2>1. \A s \in next..at : s \in Times
    BY <1>1 DEF Times
  <2> QED  BY <1>3, <2>1
<1>9. ASSUME NEW t \in Slots(at) PROVE t < last + Interval /\ first <= t /\ OnGrid(t - first) /\ ~(t < next)
  <2>1. t \in Nat /\ next <= t /\ OnGrid(t - next) /\ t <= last
    BY <1>1, <1>2, <1>3, <1>9
  <2>2. t - first = (t - next) + (next - first)
    BY <1>1, <2>1
  <2>3. t - next \in Int /\ next - first \in Int
    BY <1>1, <2>1
  <2>4. OnGrid(t - first)
    BY <1>1, <2>1, <2>2, <2>3, GridAdds
  <2>5. t < last + Interval /\ first <= t /\ ~(t < next)
    BY <1>1, <1>4, <2>1
  <2> QED  BY <2>4, <2>5
<1>10. ASSUME NEW t \in Times, first <= t, t < last + Interval, OnGrid(t - first), ~(t < next)
       PROVE  t \in Slots(at)
  <2>1. t \in Nat
    BY DEF Times
  <2>2. OnGrid(t - next)
    <3>1. t - next = (t - first) - (next - first)
      BY <1>1, <2>1
    <3> QED  BY <1>1, <1>10, <2>1, <3>1, GridAdds
  <2>3. t <= last
    <3>1. OnGrid(t - last)
      <4>1. t - last = (t - first) - (last - first)
        BY <1>1, <1>4, <2>1
      <4> QED  BY <1>1, <1>4, <1>6, <1>10, <2>1, <4>1, GridAdds
    <3>2. t > last => t - last \in Nat /\ t - last < Interval /\ t - last # 0
      BY <1>4, <1>10, <2>1
    <3> QED  BY <1>4, <2>1, <3>1, <3>2, GridIsSparse
  <2> QED  BY <1>1, <1>3, <1>4, <1>10, <2>1, <2>2, <2>3 DEF Times
<1>11. \A t \in Times : Counted(t)' <=> Counted(t) \/ t \in Slots(at)
  <2>1. \A t : Counted(t)' <=> first <= t /\ t < last + Interval /\ OnGrid(t - first)
    BY <1>5 DEF Counted
  <2>2. \A t : Counted(t) <=> first <= t /\ t < next /\ OnGrid(t - first)
    BY DEF Counted, first, next
  <2>3. \A t \in Times : t < next => t < last + Interval
    BY <1>1, <1>4 DEF Times
  <2> QED  BY <1>9, <1>10, <2>1, <2>2, <2>3
<1>12. \A t \in Slots(at) : ~Counted(t)
  BY <1>9 DEF Counted, next
<1> QED  BY <1>2, <1>7, <1>8, <1>11, <1>12 DEF at, last

LEMMA ScanKeepsSlots ==
    ASSUME TypeOK, ChecksHold, SlotsInv, NEW p \in Processes, CommitScan(p)
    PROVE  /\ NextOnGrid'
           /\ \A t \in Times : occurrence'[t] # "none" <=> Counted(t)'
           /\ Cardinality(Triggered)' = Cardinality(Scheduled)'
<1> DEFINE at   == proc[p].at
           last == Last(at)
           st   == proc[p].status
<1>1. /\ NextOnGrid'
      /\ \A t \in Times : Counted(t)' <=> Counted(t) \/ t \in Slots(at)
      /\ last \in Slots(at) /\ Slots(at) \subseteq Times
      /\ \A t \in Slots(at) : ~Counted(t)
  BY ScanCounts DEF SlotsInv
<1>2. st # "none"
  BY DEF CommitScan, Doing, SlotsInv, Decided
<1>3. \A t \in Times : occurrence'[t] = IF t \notin Slots(at) THEN occurrence[t]
                                        ELSE IF t = last THEN st ELSE "SKIPPED_MISSED"
  BY DEF CommitScan
<1>4. runs' = IF st = "TRIGGERED" THEN Append(runs, NewRun(NoKey)) ELSE runs
  BY DEF CommitScan
<1> HIDE DEF at, last, st
<1>5. \A t \in Times : occurrence'[t] # "none" <=> Counted(t)'
  BY <1>1, <1>2, <1>3 DEF SlotsInv
<1>6. \A t \in Slots(at) : t \notin Triggered
  BY <1>1 DEF SlotsInv, Triggered
<1>7. CASE st = "TRIGGERED"
  <2>1. Triggered' = Triggered \cup {last}
    BY <1>1, <1>3, <1>6, <1>7 DEF Triggered
  <2>2. /\ DOMAIN runs' = 1..(Len(runs) + 1) /\ Manual' = Manual
        /\ Manual \subseteq 1..Len(runs) /\ Len(runs) \in Nat
    BY <1>4, <1>7, RunsGrow
  <2>3. DOMAIN runs = 1..Len(runs)
    <3>1. runs \in Seq(Runs)
      BY DEF TypeOK, Runs
    <3> QED  BY <3>1
  <2> DEFINE n == Len(runs) + 1
  <2>4. Scheduled' = Scheduled \cup {n} /\ n \notin Scheduled
    <3>1. 1..n = (1..Len(runs)) \cup {n} /\ n \notin 1..Len(runs)
      BY <2>2
    <3> HIDE DEF n
    <3> QED  BY <2>2, <2>3, <3>1 DEF Scheduled, n
  <2> HIDE DEF n
  <2>5. IsFiniteSet(Triggered) /\ IsFiniteSet(Scheduled) /\ last \notin Triggered
    BY <1>1, <1>6, SlotSetsFinite
  <2>6. /\ Cardinality(Triggered \cup {last}) = Cardinality(Triggered) + 1
        /\ Cardinality(Scheduled \cup {n}) = Cardinality(Scheduled) + 1
    BY <2>4, <2>5, FS_AddElement
  <2>7. Cardinality(Triggered') = Cardinality(Scheduled')
    BY <2>1, <2>4, <2>6 DEF SlotsInv
  <2> QED  BY <1>1, <1>5, <2>7
<1>8. CASE st # "TRIGGERED"
  <2>1. Triggered' = Triggered
    BY <1>1, <1>3, <1>6, <1>8 DEF Triggered
  <2>2. Scheduled' = Scheduled
    BY <1>4, <1>8 DEF Scheduled, Manual
  <2> QED  BY <1>1, <1>5, <2>1, <2>2 DEF SlotsInv
<1> QED  BY <1>7, <1>8

\* Steps that touch neither the schedule nor its slots, and make no run of it.
LEMMA SlotsStay ==
    ASSUME SlotsInv, UNCHANGED <<schedule, occurrence>>, Scheduled' = Scheduled, Decided'
    PROVE  SlotsInv'
  BY DEF SlotsInv, NextOnGrid, Counted, Triggered

LEMMA StepDecided == TypeOK /\ Decided /\ [Next]_vars => Decided'
<1> SUFFICES ASSUME TypeOK, Decided, [Next]_vars, NEW q \in Processes,
                    proc'[q].pc = "commit", proc'[q].job = "scan"
             PROVE  proc'[q].status # "none"
  BY DEF Decided
<1>1. CASE proc'[q] = proc[q]
  BY <1>1 DEF Decided
<1>2. ASSUME NEW p \in Processes, CheckScan(p) PROVE proc'[q].status # "none"
  <2>1. p # q => proc'[q] = proc[q]
    BY <1>2 DEF CheckScan, Check, End, TypeOK
  <2> DEFINE st == IF project.archived THEN "SKIPPED_ARCHIVED"
                   ELSE IF Actives # {} THEN "SKIPPED_BUSY"
                   ELSE IF ~project.verified THEN "SKIPPED_UNVERIFIED"
                   ELSE "TRIGGERED"
  <2>2. st # "none" /\ Check(p, ~Due(proc[p].at), st)
    BY <1>2 DEF CheckScan
  <2> HIDE DEF st
  <2>3. p = q => proc'[q].status = st \/ proc'[q] = Idle
    BY <2>2 DEF Check, End, TypeOK
  <2> QED  BY <1>1, <2>1, <2>2, <2>3 DEF Idle
<1>3. ASSUME NEW p \in Processes, proc'[q] # proc[q], End(p) PROVE FALSE
  <2>1. proc'[q] = Idle
    BY <1>3 DEF End, TypeOK
  <2> QED  BY <2>1 DEF Idle
<1>4. ASSUME NEW p \in Processes,
             AskCreate(p) \/ CheckCreate(p) \/ AskScan(p) \/ CheckArchive(p) \/ AskSchedule(p)
      PROVE  proc'[q].status # "none"
  <2>1. p # q => proc'[q] = proc[q]
    BY <1>4 DEF AskCreate, CheckCreate, Check, AskScan, CheckArchive, AskSchedule, Begin, End, TypeOK
  <2>2. CASE p # q
    BY <1>1, <2>1, <2>2
  <2>3. CASE p = q /\ (AskCreate(p) \/ AskScan(p))
    <3>1. p \in DOMAIN proc
      BY DEF TypeOK
    <3>2. CASE AskScan(p)
      <4>1. proc'[p] = [Idle EXCEPT !.job = "scan", !.pc = "project", !.at = now]
        BY <3>1, <3>2 DEF AskScan
      <4> QED  BY <2>3, <4>1 DEF Idle
    <3>3. CASE AskCreate(p)
      <4>1. \E k \in Keys :
               proc'[p] = [Idle EXCEPT !.job = "create", !.pc = "project", !.key = k]
        BY <3>1, <3>3 DEF AskCreate
      <4> QED  BY <2>3, <4>1 DEF Idle
    <3> QED  BY <2>3, <3>2, <3>3
  <2>4. CASE p = q /\ AskSchedule(p)
    BY <2>4 DEF AskSchedule, Begin, TypeOK
  <2>5. CASE p = q /\ CheckArchive(p)
    BY <2>5 DEF CheckArchive, TypeOK
  <2>6. CASE p = q /\ CheckCreate(p)
    <3>1. proc'[q] = Idle \/ proc'[q].job = "create"
      <4>1. p \in DOMAIN proc /\ DOMAIN proc[p] = {"job", "pc", "key", "at", "status"}
        BY DEF TypeOK
      <4>2. \/ proc' = [proc EXCEPT ![p] = Idle]
            \/ proc' = [proc EXCEPT ![p].pc = "commit", ![p].status = "none"]
        BY <2>6 DEF CheckCreate, Check, End
      <4>3. CASE proc' = [proc EXCEPT ![p] = Idle]
        BY <2>6, <4>1, <4>3
      <4>4. CASE proc' = [proc EXCEPT ![p].pc = "commit", ![p].status = "none"]
        BY <2>6, <4>1, <4>4 DEF CheckCreate, Doing
      <4> QED  BY <4>2, <4>3, <4>4
    <3> QED  BY <3>1 DEF Idle
  <2> QED  BY <1>4, <2>2, <2>3, <2>4, <2>5, <2>6
<1> QED
  BY <1>1, <1>2, <1>3, <1>4
  DEF Next, CommitCreate, CommitScan, CommitArchive, CommitSchedule, RollBack, Unarchive, Disable,
      EndRun, Verified, Unverified, Tick, vars

LEMMA StepSlots == IInv /\ SlotsInv /\ [Next]_vars => SlotsInv'
<1> SUFFICES ASSUME IInv, SlotsInv, [Next]_vars PROVE SlotsInv'
  OBVIOUS
<1>1. TypeOK /\ LocksHeld /\ ChecksHold
  BY DEF IInv
<1>2. Decided'
  BY <1>1, StepDecided DEF SlotsInv
<1>3. ASSUME NEW p \in Processes, CommitScan(p) PROVE SlotsInv'
  BY <1>1, <1>2, <1>3, ScanKeepsSlots DEF SlotsInv
<1>4. ASSUME NEW p \in Processes, CommitCreate(p) PROVE SlotsInv'
  <2>1. proc[p].key \in Keys /\ proc[p].key # NoKey
    BY <1>1, <1>4 DEF CommitCreate, Doing, LocksHeld
  <2> DEFINE n == Len(runs) + 1
  <2>2. /\ DOMAIN runs' = 1..n /\ Manual' = Manual \cup {n}
        /\ Manual \subseteq 1..Len(runs) /\ Len(runs) \in Nat
    BY <1>1, <1>4, <2>1, RunsGrow DEF CommitCreate
  <2>3. DOMAIN runs = 1..Len(runs)
    <3>1. runs \in Seq(Runs)
      BY <1>1 DEF TypeOK, Runs
    <3> QED  BY <3>1
  <2>4. Scheduled' = Scheduled
    <3>1. 1..n = (1..Len(runs)) \cup {n} /\ n \notin 1..Len(runs)
      BY <2>2
    <3> HIDE DEF n
    <3> QED  BY <2>2, <2>3, <3>1 DEF Scheduled, n
  <2> QED  BY <1>2, <1>4, <2>4, SlotsStay DEF CommitCreate
<1>5. ASSUME NEW e \in BOOLEAN, Upsert(e) PROVE SlotsInv'
  <2>1. Triggered' = Triggered /\ Scheduled' = Scheduled /\ occurrence' = occurrence
    BY <1>5 DEF Upsert, Triggered, Scheduled, Manual
  <2>2. CASE schedule.next = 0
    <3>1. schedule'.first = now + Interval /\ schedule'.next = now + Interval /\ now + Interval \in Nat
      BY <1>1, <1>5, <2>2 DEF Upsert, TypeOK, Times
    <3>2. \A t \in Times : ~Counted(t) /\ ~Counted(t)'
      BY <2>2, <3>1 DEF Counted, Times
    <3>3. NextOnGrid'
      BY <3>1 DEF NextOnGrid, OnGrid
    <3> QED  BY <1>2, <2>1, <3>2, <3>3 DEF SlotsInv
  <2>3. CASE schedule.next # 0
    <3>1. schedule'.first = schedule.first /\ schedule'.next = schedule.next
      BY <1>1, <1>5, <2>3 DEF Upsert, TypeOK
    <3> QED  BY <1>2, <2>1, <3>1 DEF SlotsInv, NextOnGrid, Counted
  <2> QED  BY <2>2, <2>3
<1>6. CASE EndRun
  <2>1. Scheduled' = Scheduled
    BY <1>1, <1>6, RunsStay DEF Scheduled
  <2> QED  BY <1>2, <1>6, <2>1, SlotsStay DEF EndRun
<1>7. CASE UNCHANGED <<schedule, occurrence, runs>>
  <2>1. Scheduled' = Scheduled
    BY <1>7 DEF Scheduled, Manual
  <2> QED  BY <1>2, <1>7, <2>1, SlotsStay
<1> QED
  BY <1>3, <1>4, <1>5, <1>6, <1>7
  DEF Next, AskCreate, CheckCreate, AskScan, CheckScan, CheckArchive, CommitArchive, AskSchedule,
      Begin, CommitSchedule, RollBack, Check, Unarchive, Disable, Verified, Unverified, Tick,
      vars, rows

LEMMA InitSlots == Init => SlotsInv
<1> SUFFICES ASSUME Init PROVE SlotsInv
  OBVIOUS
<1>1. Triggered = {} /\ Scheduled = {}
  BY DEF Init, Triggered, Scheduled
<1>2. NextOnGrid /\ Decided
  BY DEF Init, NextOnGrid, OnGrid, Decided, Idle
<1>3. \A t \in Times : ~Counted(t) /\ occurrence[t] = "none"
  BY DEF Init, Counted, Times
<1> QED  BY <1>1, <1>2, <1>3 DEF SlotsInv

-----------------------------------------------------------------------------
(* The theorems. *)

LEMMA InitInv == Init => IInv /\ QuotaKept /\ QuotaHolds
<1> SUFFICES ASSUME Init PROVE IInv /\ QuotaKept /\ QuotaHolds
  OBVIOUS
<1>1. Actives = {} /\ Manual = {}
  BY DEF Init, Actives, Manual
<1>2. LocksHeld /\ ChecksHold /\ RecordExpired /\ QuotaKept
  BY DEF Init, LocksHeld, ChecksHold, RecordExpired, QuotaKept, Idle
<1>3. Enabled /\ FewActives /\ RecordsLast /\ KeysApart /\ QuotaHolds
  BY <1>1 DEF Init, Enabled, FewActives, RecordsLast, KeysApart, QuotaHolds
<1> QED  BY <1>2, <1>3, InitTypes DEF IInv

LEMMA Inductive == Spec => [](IInv /\ QuotaKept /\ QuotaHolds)
<1>1. IInv /\ QuotaKept /\ QuotaHolds /\ [Next]_vars => (IInv /\ QuotaKept /\ QuotaHolds)'
  <2> SUFFICES ASSUME IInv, QuotaKept, QuotaHolds, [Next]_vars
               PROVE  IInv' /\ QuotaKept' /\ QuotaHolds'
    OBVIOUS
  <2>1. TypeOK'
    BY StepTypes DEF IInv
  <2>2. LocksHeld' /\ ChecksHold' /\ Enabled' /\ FewActives' /\ RecordExpired'
    BY StepLocks, StepChecks, StepEnabled, StepActives, StepExpired DEF IInv
  <2>3. RecordsLast' /\ KeysApart'
    BY StepRecords DEF IInv
  <2> QED  BY <2>1, <2>2, <2>3, StepQuotaKept, StepQuota DEF IInv
<1> QED  BY <1>1, InitInv, PTL DEF Spec

\* Every state has the types that the rows and the processes have (schema.prisma and
\* the services around it).
THEOREM TypeCorrect == Spec => []TypeOK
<1>1. IInv => TypeOK
  BY DEF IInv
<1> QED  BY <1>1, Inductive, PTL

\* Whoever triggers, scans and archives at the same time, a project has at most one
\* active run and an archived one has none.
THEOREM AtMostOneActive == Spec => []OneActiveRun
<1>1. IInv => OneActiveRun
  <2> SUFFICES ASSUME IInv PROVE OneActiveRun
    OBVIOUS
  <2>1. IsFiniteSet(Actives)
    BY ActivesFinite DEF IInv
  <2>2. Cardinality(Actives) <= 1
    BY <2>1, AtMostOne DEF IInv, FewActives
  <2>3. project.archived => Cardinality(Actives) = 0
    BY FS_EmptySet DEF IInv, FewActives
  <2> QED  BY <2>2, <2>3 DEF OneActiveRun
<1> QED  BY <1>1, Inductive, PTL

\* A key makes one run for the life of its record, which is there with the run.
THEOREM KeysMakeOneRun == Spec => []OneRunPerKey
<1>1. IInv => OneRunPerKey
  BY DEF IInv, OneRunPerKey, RecordsLast, KeysApart
<1> QED  BY <1>1, Inductive, PTL

\* The manual crawls of a day are never more than the quota nor closer than the spacing.
THEOREM QuotaKeeps == Spec => []QuotaHolds
<1> QED  BY Inductive, PTL

\* The slots of the schedule before nextRunAt, and no others, are accounted for, and the
\* runs of the schedule are as many as the slots that were triggered, whatever scanners
\* race and however long the schedule was off or the system down (processDueSchedules).
THEOREM SlotsAreAccounted == Spec => []SlotsAccounted
<1>1. Init => IInv /\ SlotsInv
  BY InitInv, InitSlots
<1>2. SlotsInv => SlotsAccounted
  BY DEF SlotsInv, SlotsAccounted, Counted, OnGrid, Triggered, Scheduled
<1>3. IInv /\ SlotsInv /\ [Next]_vars => SlotsInv'
  BY StepSlots
<1> QED  BY <1>1, <1>2, <1>3, Inductive, PTL DEF Spec
=============================================================================
