-------------------------- MODULE PublicationProofs --------------------------
(***************************************************************************)
(* What the reports and the issues of a project say is true of the runs it *)
(* published, for any number of workers, pages, answers and runs.          *)
(*                                                                         *)
(* Nothing locks the baseline between its reading and the transaction that *)
(* uses it: it stays because only the publication of the very run it was   *)
(* read for could replace it, after which that run is active no more, and  *)
(* because cleanup spares the latest report.  The issues follow because a  *)
(* verdict is added to their history in the same transaction.              *)
(***************************************************************************)
EXTENDS Publication, FiniteSetTheorems, TLAPS

RunRows == [published : BOOLEAN, seen : [Pages -> Sights], expired : BOOLEAN]

Typed ==
    /\ runs \in Seq(RunRows) /\ Len(runs) <= MaxRuns
    /\ latest \in Nat /\ report.base \in Nat
    /\ worker = [w \in Workers |-> worker[w]]
    /\ \A w \in Workers :
          /\ worker[w] \in [pc : {"idle", "read", "rows", "commit"}, run : Nat,
                            token : {worker[w].token}, base : Nat, before : {worker[w].before}]
          /\ worker[w].run <= Len(runs)

\* What run r saw, nothing when there is none.
SeenBy(r) == IF r = 0 THEN NewRun.seen ELSE runs[r].seen

\* The latest report is the newest and has its details.
LatestInv ==
    /\ \A r \in Published : r <= latest
    /\ latest # 0 => latest \in Published /\ ~runs[latest].expired

\* A run that is active is the last, neither published nor pruned.
ActiveInv ==
    Active => /\ Len(runs) # 0
              /\ ~runs[Len(runs)].published /\ ~runs[Len(runs)].expired

\* What a worker remembers of the baseline is true while its run is active.
RememberedInv ==
    \A w \in Workers :
        (At(w, "rows") \/ At(w, "commit")) /\ worker[w].run = Len(runs) /\ Active
        => /\ worker[w].base = latest
           /\ At(w, "commit") => worker[w].before = SeenBy(latest)

\* The run published before the latest, and the comparison with it.
ReportInv ==
    latest # 0 =>
        /\ report.base = 0 \/ report.base \in Published
        /\ report.base < latest
        /\ \A r \in Published : r < latest => r <= report.base
        /\ report.changes = Events(SeenBy(report.base), runs[latest].seen, report.base)

BaseInv == Typed /\ LatestInv /\ ActiveInv /\ RememberedInv /\ ReportInv

-----------------------------------------------------------------------------
(* The newest of some runs. *)

LEMMA NewestIs ==
    ASSUME NEW S \in SUBSET Nat, NEW r \in S, \A q \in S : q <= r
    PROVE  Newest(S) = r
<1>1. S # {} /\ Newest(S) = CHOOSE n \in S : \A q \in S : q <= n
  BY DEF Newest
<1>2. \A n \in S : (\A q \in S : q <= n) => n = r
  OBVIOUS
<1> QED  BY <1>1, <1>2

LEMMA NewestOfNone == Newest({}) = 0
  BY DEF Newest

LEMMA LatestIsNewest == ASSUME Typed, LatestInv PROVE latest = Newest(Published)
<1>1. Published \in SUBSET Nat /\ \A r \in Published : r # 0
  BY DEF Published, Typed
<1>2. CASE latest = 0
  <2>1. Published = {}
    BY <1>1, <1>2 DEF LatestInv
  <2> QED  BY <1>2, <2>1, NewestOfNone
<1>3. CASE latest # 0
  BY <1>1, <1>3, NewestIs DEF LatestInv
<1> QED  BY <1>2, <1>3

LEMMA BaseInvImplies == ASSUME BaseInv PROVE ComparedWithBaseline
<1>1. latest = Newest(Published)
  BY LatestIsNewest DEF BaseInv
<1>2. ASSUME latest # 0
      PROVE  report.base = Newest({q \in Published : q < latest})
  <2> DEFINE S == {q \in Published : q < latest}
  <2>1. S \in SUBSET Nat /\ \A q \in S : q # 0
    BY DEF Published, BaseInv, Typed
  <2>2. \A q \in S : q <= report.base
    BY <1>2 DEF BaseInv, ReportInv
  <2>3. CASE report.base = 0
    <3>1. S = {}
      <4>1. \A q \in S : q \in Nat /\ q # 0 /\ q <= 0
        BY <2>1, <2>2, <2>3
      <4> QED  BY <4>1
    <3> QED  BY <2>3, <3>1, NewestOfNone DEF S
  <2>4. CASE report.base # 0
    <3>1. report.base \in S
      BY <1>2, <2>4 DEF BaseInv, ReportInv
    <3> HIDE DEF S
    <3>2. Newest(S) = report.base
      BY <2>1, <2>2, <3>1, NewestIs
    <3> QED  BY <3>2 DEF S
  <2> QED  BY <2>3, <2>4
<1>3. latest # 0 =>
        /\ report.changes = Events(IF report.base = 0 THEN NewRun.seen ELSE runs[report.base].seen,
                                   runs[latest].seen, report.base)
        /\ ~runs[latest].expired
  BY DEF BaseInv, ReportInv, LatestInv, SeenBy
<1> QED  BY <1>1, <1>2, <1>3 DEF ComparedWithBaseline

-----------------------------------------------------------------------------
(* The invariant is inductive. *)

LEMMA BaseInit == ASSUME Init PROVE BaseInv
<1>1. runs = <<>> /\ latest = 0 /\ report.base = 0 /\ ~Active
  BY DEF Init, NoReport, Active, NoRun
<1>2. worker = [w \in Workers |-> IdleWorker]
  BY DEF Init
<1>3. Typed
  BY <1>1, <1>2, PublicationAssumption DEF Typed, IdleWorker
<1> QED  BY <1>1, <1>3 DEF BaseInv, LatestInv, ActiveInv, RememberedInv, ReportInv, Published

\* The rows of published runs stay what they were.
Kept ==
    /\ Published' = Published
    /\ \A r \in Published : runs'[r].seen = runs[r].seen
    /\ latest # 0 => runs'[latest].expired = runs[latest].expired
    /\ UNCHANGED <<latest, report>>

LEMMA KeptReport ==
    ASSUME BaseInv, Kept
    PROVE  /\ LatestInv' /\ ReportInv'
           /\ SeenBy(latest)' = SeenBy(latest)
<1>1. \A r \in Published \cup {0} : SeenBy(r)' = SeenBy(r)
  BY DEF Kept, SeenBy, NewRun
<1>2. LatestInv'
  BY DEF Kept, LatestInv, BaseInv
<1>3. latest = 0 \/ latest \in Published
  BY DEF BaseInv, LatestInv
<1>4. SeenBy(latest)' = SeenBy(latest)
  BY <1>1, <1>3 DEF Kept, SeenBy
<1>5. ReportInv'
  <2> SUFFICES ASSUME latest # 0 PROVE ReportInv'
    BY DEF ReportInv, Kept
  <2>1. report.base \in Published \cup {0} /\ latest \in Published
    BY DEF BaseInv, ReportInv, LatestInv
  <2>2. SeenBy(report.base)' = SeenBy(report.base)
    BY <1>1, <2>1 DEF Kept, SeenBy
  <2>3. runs'[latest].seen = runs[latest].seen
    BY <2>1 DEF Kept
  <2>4. Events(SeenBy(report.base), runs[latest].seen, report.base)'
          = Events(SeenBy(report.base), runs[latest].seen, report.base)
    BY <2>2, <2>3 DEF Kept, Events
  <2> QED  BY <2>4 DEF ReportInv, Kept, BaseInv
<1> QED  BY <1>2, <1>4, <1>5
\* Steps that leave the rows alone, or change neither the number of the runs nor what
\* the published ones saw, and remember nothing new.
LEMMA QuietStep ==
    ASSUME BaseInv, Kept, Len(runs') = Len(runs), runs' \in Seq(RunRows),
           Active' => Active /\ ~runs'[Len(runs)].expired, UNCHANGED worker
    PROVE  BaseInv'
<1>1. Typed' /\ LatestInv' /\ ReportInv' /\ SeenBy(latest)' = SeenBy(latest)
  BY KeptReport DEF BaseInv, Typed, Kept
<1>2. ActiveInv'
  <2>1. Len(runs) \in Nat /\ DOMAIN runs = 1..Len(runs) /\ DOMAIN runs' = 1..Len(runs)
    BY DEF BaseInv, Typed
  <2>2. Active' => Len(runs) \in 1..Len(runs) /\ Len(runs) \notin Published
    BY <2>1 DEF BaseInv, ActiveInv, Published
  <2>3. Active' => Len(runs) \notin Published'
    BY <2>2 DEF Kept
  <2> QED  BY <2>1, <2>2, <2>3 DEF ActiveInv, Published
<1>3. RememberedInv'
  BY <1>1 DEF BaseInv, RememberedInv, At, Kept
<1> QED  BY <1>1, <1>2, <1>3 DEF BaseInv

\* The last run has another row, which is not published either.
LEMMA LastRowKept ==
    ASSUME BaseInv, Active, NEW row \in RunRows, ~row.published, ~row.expired,
           runs' = [runs EXCEPT ![Len(runs)] = row], UNCHANGED <<latest, report>>
    PROVE  Kept /\ Len(runs') = Len(runs) /\ runs' \in Seq(RunRows) /\ ~runs'[Len(runs)].expired
<1>1. /\ Len(runs) \in Nat /\ DOMAIN runs = 1..Len(runs) /\ Len(runs) \in DOMAIN runs
      /\ ~runs[Len(runs)].published
  BY DEF BaseInv, Typed, ActiveInv
<1>2. runs' \in Seq(RunRows) /\ Len(runs') = Len(runs) /\ DOMAIN runs' = DOMAIN runs
  BY <1>1 DEF BaseInv, Typed
<1>3. /\ runs'[Len(runs)] = row
      /\ \A r \in DOMAIN runs : r # Len(runs) => runs'[r] = runs[r]
  BY <1>1, <1>2
<1>4. Published' = Published /\ Len(runs) \notin Published
  BY <1>1, <1>2, <1>3 DEF Published
<1>5. latest # 0 => latest \in Published
  BY DEF BaseInv, LatestInv
<1>6. \A r \in Published : runs'[r] = runs[r]
  BY <1>3, <1>4 DEF Published
<1> QED  BY <1>2, <1>3, <1>4, <1>5, <1>6 DEF Kept

LEMMA LifeSteps == ASSUME BaseInv, Start \/ Freeze \/ Cancel \/ Stop PROVE BaseInv' /\ Kept
<1>1. CASE Start
  <2>1. /\ ~Active /\ runs' = Append(runs, NewRun) /\ UNCHANGED <<latest, report, worker>>
    BY <1>1 DEF Start
  <2>2. runs \in Seq(RunRows) /\ NewRun \in RunRows /\ ~NewRun.published /\ ~NewRun.expired
    BY DEF BaseInv, Typed, RunRows, NewRun, Sights
  <2>3. /\ runs' \in Seq(RunRows) /\ Len(runs') = Len(runs) + 1 /\ DOMAIN runs' = 1..Len(runs) + 1
        /\ \A r \in DOMAIN runs : runs'[r] = runs[r]
        /\ runs'[Len(runs) + 1] = NewRun /\ DOMAIN runs = 1..Len(runs) /\ Len(runs) \in Nat
    BY <2>1, <2>2
  <2>4. Published' = Published
    BY <2>2, <2>3 DEF Published
  <2>5. latest # 0 => latest \in Published
    BY DEF BaseInv, LatestInv
  <2>6. Kept
    <3>1. \A r \in Published : runs'[r] = runs[r]
      BY <2>3 DEF Published
    <3> QED  BY <2>1, <2>4, <2>5, <3>1 DEF Kept
  <2>7. LatestInv' /\ ReportInv'
    BY <2>6, KeptReport
  <2>8. Typed'
    <3>1. Len(runs) < MaxRuns
      BY <1>1 DEF Start
    <3> QED  BY <2>1, <2>3, <3>1, PublicationAssumption DEF BaseInv, Typed
  <2>9. ActiveInv'
    BY <2>2, <2>3 DEF ActiveInv
  <2>10. RememberedInv'
    <3>1. \A w \in Workers : worker'[w].run # Len(runs')
      BY <2>1, <2>3 DEF BaseInv, Typed
    <3> QED  BY <3>1 DEF RememberedInv
  <2> QED  BY <2>6, <2>7, <2>8, <2>9, <2>10 DEF BaseInv
<1>2. CASE Freeze
  <2>1. PICK seen \in [Pages -> Sights] : runs' = [runs EXCEPT ![Len(runs)].seen = seen]
    BY <1>2 DEF Freeze
  <2>2. Active /\ UNCHANGED <<latest, report, worker>>
    BY <1>2 DEF Freeze, Active
  <2> DEFINE row == [runs[Len(runs)] EXCEPT !.seen = seen]
  <2>3. runs' = [runs EXCEPT ![Len(runs)] = row]
    BY <2>1
  <2>4. row \in RunRows /\ ~row.published /\ ~row.expired
    <3>1. /\ runs[Len(runs)] \in RunRows
          /\ ~runs[Len(runs)].published /\ ~runs[Len(runs)].expired
      BY <2>2 DEF BaseInv, Typed, ActiveInv
    <3> QED  BY <3>1 DEF RunRows
  <2> HIDE DEF row
  <2>5. Kept /\ Len(runs') = Len(runs) /\ runs' \in Seq(RunRows) /\ ~runs'[Len(runs)].expired
    BY <2>2, <2>3, <2>4, LastRowKept
  <2> QED  BY <2>2, <2>5, QuietStep
<1>3. CASE Cancel
  <2>1. UNCHANGED <<runs, latest, report, worker>> /\ Active
    BY <1>3 DEF Cancel
  <2>2. Kept /\ runs' \in Seq(RunRows)
    BY <2>1 DEF Kept, Published, BaseInv, Typed
  <2> QED  BY <2>1, <2>2, QuietStep DEF BaseInv, ActiveInv
<1>4. CASE Stop
  <2>1. /\ Active /\ runs' = [runs EXCEPT ![Len(runs)] = NewRun] /\ UNCHANGED <<latest, report, worker>>
        /\ ~Active'
    BY <1>4 DEF Stop, Active, NoRun
  <2>2. NewRun \in RunRows /\ ~NewRun.published /\ ~NewRun.expired
    BY DEF RunRows, NewRun, Sights
  <2>3. Kept /\ Len(runs') = Len(runs) /\ runs' \in Seq(RunRows) /\ ~runs'[Len(runs)].expired
    BY <2>1, <2>2, LastRowKept
  <2> QED  BY <2>1, <2>3, QuietStep
<1> QED  BY <1>1, <1>2, <1>3, <1>4

LEMMA UpkeepSteps ==
    ASSUME BaseInv, Suppress \/ Cleanup \/ UNCHANGED vars
    PROVE  BaseInv' /\ Kept
<1>1. CASE Suppress \/ UNCHANGED vars
  <2>1. UNCHANGED <<runs, latest, report, worker, current>>
    BY <1>1 DEF Suppress, vars
  <2>2. Kept /\ runs' \in Seq(RunRows)
    BY <2>1 DEF Kept, Published, BaseInv, Typed
  <2>3. Active' => Active /\ ~runs'[Len(runs)].expired
    BY <2>1 DEF Active, BaseInv, ActiveInv
  <2> QED  BY <2>1, <2>2, <2>3, QuietStep
<1>2. CASE Cleanup
  <2>1. PICK oldest \in 1..Len(runs) + 1 :
          runs' = [r \in DOMAIN runs |->
                      IF runs[r].published /\ r < oldest /\ r \notin Protected
                      THEN [runs[r] EXCEPT !.expired = TRUE] ELSE runs[r]]
    BY <1>2 DEF Cleanup
  <2>2. UNCHANGED <<latest, report, worker, current>>
    BY <1>2 DEF Cleanup
  <2>3. runs \in Seq(RunRows) /\ DOMAIN runs = 1..Len(runs) /\ Len(runs) \in Nat
    BY DEF BaseInv, Typed
  <2>4. \A r \in DOMAIN runs : runs[r] \in RunRows
    BY <2>3
  <2>5. \A r \in DOMAIN runs :
            /\ runs'[r] \in RunRows /\ runs'[r].published = runs[r].published
            /\ runs'[r].seen = runs[r].seen
            /\ r = latest \/ ~runs[r].published => runs'[r] = runs[r]
    BY <2>1, <2>4 DEF RunRows, Protected
  <2>6. runs' \in Seq(RunRows) /\ Len(runs') = Len(runs) /\ DOMAIN runs' = DOMAIN runs
    <3>1. DOMAIN runs' = 1..Len(runs) /\ runs' = [r \in 1..Len(runs) |-> runs'[r]]
      BY <2>1, <2>3
    <3> QED  BY <2>3, <2>5, <3>1
  <2>7. Published' = Published
    BY <2>5, <2>6 DEF Published
  <2>8. latest # 0 => latest \in Published
    BY DEF BaseInv, LatestInv
  <2>9. Kept
    BY <2>2, <2>5, <2>7, <2>8 DEF Kept, Published
  <2>10. Active' => Active /\ ~runs'[Len(runs)].expired
    <3>1. Active' => Active /\ Len(runs) \in DOMAIN runs
      BY <2>2, <2>3 DEF Active, BaseInv, ActiveInv
    <3> QED  BY <2>5, <3>1 DEF BaseInv, ActiveInv
  <2> QED  BY <2>2, <2>6, <2>9, <2>10, QuietStep
<1> QED  BY <1>1, <1>2
\* A process: what it remembers is of the right form, and true of an active run.
Sound(v) ==
    /\ v \in [pc : {"idle", "read", "rows", "commit"}, run : Nat, token : {v.token}, base : Nat,
              before : {v.before}]
    /\ v.run <= Len(runs)
    /\ (v.pc = "rows" \/ v.pc = "commit") /\ v.run = Len(runs) /\ Active
       => v.base = latest /\ (v.pc = "commit" => v.before = SeenBy(latest))

LEMMA WorkersSound == ASSUME BaseInv, NEW w \in Workers PROVE Sound(worker[w])
  BY DEF Sound, BaseInv, Typed, RememberedInv, At

LEMMA IdleIsSound == ASSUME BaseInv PROVE Sound(IdleWorker)
<1>1. Len(runs) \in Nat
  BY DEF BaseInv, Typed
<1> QED  BY <1>1 DEF Sound, IdleWorker

\* A step of one process.
LEMMA WorkerStep ==
    ASSUME BaseInv, NEW w \in Workers, NEW v, Sound(v), worker' = [worker EXCEPT ![w] = v],
           UNCHANGED <<runs, latest, report>>, Active' = Active
    PROVE  BaseInv'
<1>1. \A u \in Workers : Sound(worker[u])
  BY WorkersSound
<1>2. worker' = [u \in Workers |-> IF u = w THEN v ELSE worker[u]]
  BY DEF BaseInv, Typed
<1>3. \A u \in Workers : worker'[u] = IF u = w THEN v ELSE worker[u]
  BY <1>2
<1>4. worker' = [u \in Workers |-> worker'[u]]
  BY <1>2, <1>3
<1>5. \A u \in Workers : Sound(worker'[u])
  BY <1>1, <1>3
<1>6. Typed'
  BY <1>4, <1>5 DEF Sound, BaseInv, Typed
<1>7. RememberedInv'
  BY <1>5 DEF Sound, RememberedInv, At, SeenBy
<1>8. LatestInv' /\ ReportInv' /\ ActiveInv'
  <2>1. Kept
    BY DEF Kept, Published
  <2> QED  BY <2>1, KeptReport DEF BaseInv, ActiveInv
<1> QED  BY <1>6, <1>7, <1>8 DEF BaseInv

LEMMA ReadingSteps ==
    ASSUME BaseInv, NEW w \in Workers, Take(w) \/ Quit(w) \/ Read(w) \/ ReadRows(w) \/ Refused(w)
    PROVE  BaseInv'
<1>1. Sound(worker[w]) /\ Sound(IdleWorker)
  BY WorkersSound, IdleIsSound
<1>2. Len(runs) \in Nat /\ latest \in Nat
  BY DEF BaseInv, Typed
<1>3. CASE Take(w)
  <2> DEFINE v == [IdleWorker EXCEPT !.pc = "read", !.run = Len(runs), !.token = current.token + 1]
  <2>1. worker' = [worker EXCEPT ![w] = v]
    BY <1>3 DEF Take
  <2>2. Sound(v)
    <3>1. /\ v.pc = "read" /\ v.run = Len(runs)
          /\ v \in [pc : {"idle", "read", "rows", "commit"}, run : Nat, token : {v.token},
                   base : Nat, before : {v.before}]
      BY <1>2 DEF IdleWorker
    <3> HIDE DEF v
    <3> QED  BY <1>2, <3>1 DEF Sound
  <2>3. Active /\ Active'
    <3>1. current.status = "FINALIZING" /\ current' = [current EXCEPT !.token = current.token + 1]
      BY <1>3 DEF Take
    <3> QED  BY <3>1 DEF Active
  <2>4. UNCHANGED <<runs, latest, report>>
    BY <1>3 DEF Take
  <2> HIDE DEF v
  <2> QED  BY <2>1, <2>2, <2>3, <2>4, WorkerStep
<1>4. CASE Quit(w) \/ Refused(w)
  BY <1>1, <1>4, WorkerStep DEF Quit, Refused, Active
<1>5. CASE Read(w)
  <2>1. UNCHANGED <<runs, latest, report, current>>
    BY <1>5 DEF Read
  <2>2. CASE worker' = [worker EXCEPT ![w] = IdleWorker]
    BY <1>1, <2>1, <2>2, WorkerStep DEF Active
  <2>3. CASE worker' = [worker EXCEPT ![w] = [worker[w] EXCEPT !.pc = "rows", !.base = Baseline]]
    <3> DEFINE v == [worker[w] EXCEPT !.pc = "rows", !.base = Baseline]
    <3>1. Baseline = latest
      BY LatestIsNewest DEF Baseline, BaseInv
    <3>2. Sound(v)
      <4>1. v = [worker[w] EXCEPT !.pc = "rows", !.base = latest]
        BY <3>1
      <4> HIDE DEF v
      <4>2. /\ v \in [pc : {"idle", "read", "rows", "commit"}, run : Nat, token : {v.token},
                       base : Nat, before : {v.before}]
            /\ v.pc = "rows" /\ v.base = latest /\ v.run = worker[w].run
        BY <1>1, <1>2, <4>1 DEF Sound
      <4> QED  BY <1>1, <4>2 DEF Sound
    <3> HIDE DEF v
    <3>3. worker' = [worker EXCEPT ![w] = v]
      BY <2>3 DEF v
    <3> QED  BY <2>1, <3>2, <3>3, WorkerStep DEF Active
  <2> QED  BY <1>5, <2>2, <2>3 DEF Read
<1>6. CASE ReadRows(w)
  <2> DEFINE rows == IF worker[w].base = 0 THEN NewRun.seen ELSE Rows(worker[w].base)
             v    == [worker[w] EXCEPT !.pc = "commit", !.before = rows]
  <2>1. worker' = [worker EXCEPT ![w] = v] /\ worker[w].pc = "rows"
    BY <1>6 DEF ReadRows, At
  <2>2. worker[w].base = latest => rows = SeenBy(latest)
    BY DEF BaseInv, LatestInv, Rows, SeenBy
  <2> HIDE DEF rows
  <2>3. Sound(v)
    BY <1>1, <2>1, <2>2 DEF Sound
  <2>4. UNCHANGED <<runs, latest, report, current>>
    BY <1>6 DEF ReadRows
  <2> HIDE DEF v
  <2> QED  BY <2>1, <2>3, <2>4, WorkerStep DEF Active
<1> QED  BY <1>3, <1>4, <1>5, <1>6
LEMMA PublishStep ==
    ASSUME BaseInv, NEW w \in Workers, Publish(w)
    PROVE  /\ BaseInv'
           /\ worker[w].run = Len(runs) /\ latest' = Len(runs) /\ latest < Len(runs)
           /\ Published' = Published \cup {Len(runs)} /\ \A r \in Published : r < Len(runs)
           /\ runs'[Len(runs)].seen = runs[Len(runs)].seen
           /\ \A r \in Published : runs'[r].seen = runs[r].seen
<1> DEFINE n == Len(runs)
           base == worker[w].base
           row == [runs[n] EXCEPT !.published = TRUE]
<1>1. /\ worker[w].run = n /\ Active /\ worker[w].pc = "commit"
      /\ latest' = n /\ ~Active' /\ worker' = [worker EXCEPT ![w] = IdleWorker]
      /\ runs' = [runs EXCEPT ![n] = row]
  BY DEF Publish, MayPublish, At, Active, NoRun
<1>2. base = latest /\ worker[w].before = SeenBy(latest)
  BY <1>1 DEF BaseInv, RememberedInv, At
<1>3. /\ report'.base = base
      /\ report'.changes = Events(worker[w].before, runs[n].seen, base)
  BY <1>1 DEF Publish, ReportOf
<1>4. /\ runs \in Seq(RunRows) /\ n \in Nat /\ DOMAIN runs = 1..n /\ n \in DOMAIN runs
      /\ runs[n] \in RunRows /\ ~runs[n].published /\ ~runs[n].expired
  BY <1>1 DEF BaseInv, Typed, ActiveInv
<1>5. row \in RunRows /\ row.published /\ row.seen = runs[n].seen /\ ~row.expired
  BY <1>4 DEF RunRows
<1>6. /\ runs' \in Seq(RunRows) /\ Len(runs') = n /\ DOMAIN runs' = 1..n
      /\ runs'[n] = row /\ \A r \in 1..n : r # n => runs'[r] = runs[r]
  <2> HIDE DEF row
  <2> QED  BY <1>1, <1>4, <1>5
<1>7. Published' = Published \cup {n} /\ n \notin Published /\ \A r \in Published : r < n
  <2> HIDE DEF row
  <2>1. DOMAIN runs' = DOMAIN runs /\ runs'[n].published
    BY <1>4, <1>5, <1>6
  <2>2. \A r \in DOMAIN runs : r # n => runs'[r].published = runs[r].published
    BY <1>4, <1>6
  <2>3. n \notin Published
    BY <1>4 DEF Published
  <2>4. Published' = {r \in DOMAIN runs : runs[r].published \/ r = n}
    BY <2>1, <2>2 DEF Published
  <2>5. Published' = Published \cup {n}
    BY <1>4, <2>4 DEF Published
  <2>6. \A r \in Published : r \in 1..n /\ r # n
    BY <1>4, <2>3 DEF Published
  <2> QED  BY <1>4, <2>3, <2>5, <2>6
<1>8. latest \in Nat /\ (latest # 0 => latest \in Published) /\ latest < n
  BY <1>4, <1>7 DEF BaseInv, Typed, LatestInv
<1>9. SeenBy(latest)' = runs'[n].seen /\ runs'[n].seen = runs[n].seen
  BY <1>1, <1>4, <1>5, <1>6 DEF SeenBy
<1>10. Typed'
  <2>1. worker' = [u \in Workers |-> IF u = w THEN IdleWorker ELSE worker[u]]
    BY <1>1 DEF BaseInv, Typed
  <2>2. \A u \in Workers : worker'[u] = IF u = w THEN IdleWorker ELSE worker[u]
    BY <2>1
  <2>3. worker' = [u \in Workers |-> worker'[u]]
    BY <2>1, <2>2
  <2>4. \A u \in Workers : Sound(worker'[u])
    BY <2>2, WorkersSound, IdleIsSound
  <2> HIDE DEF base, row
  <2>5. latest' \in Nat /\ report'.base \in Nat
    BY <1>1, <1>2, <1>3, <1>4, <1>8
  <2>6. n <= MaxRuns
    BY DEF BaseInv, Typed
  <2> QED  BY <1>6, <2>3, <2>4, <2>5, <2>6 DEF Typed, Sound
<1>11. LatestInv'
  <2> HIDE DEF row
  <2>1. Published' = Published \cup {n} /\ latest' = n /\ ~runs'[n].expired
    BY <1>1, <1>5, <1>6, <1>7
  <2>2. \A r \in Published : r <= n
    BY <1>4, <1>7 DEF Published
  <2> QED  BY <1>4, <2>1, <2>2 DEF LatestInv
<1>12. ActiveInv' /\ RememberedInv'
  BY <1>1 DEF ActiveInv, RememberedInv
<1>13. ReportInv'
  <2> HIDE DEF row
  <2>1. /\ report'.base = latest /\ latest' = n
        /\ report'.changes = Events(SeenBy(latest), runs[n].seen, latest)
    BY <1>1, <1>2, <1>3
  <2>2. SeenBy(report.base)' = SeenBy(latest)
    <3>1. latest = 0 \/ runs'[latest] = runs[latest]
      <4>1. \A r \in 1..n : r # n => runs'[r] = runs[r]
        BY <1>6
      <4>2. n \in Nat
        BY <1>4
      <4>3. latest = 0 \/ (latest \in 1..n /\ latest # n)
        <5> HIDE DEF n
        <5> QED  BY <1>8, <4>2
      <4> HIDE DEF n
      <4> QED  BY <4>1, <4>3
    <3> QED  BY <2>1, <3>1 DEF SeenBy, NewRun
  <2>3. Events(SeenBy(report.base), runs[latest].seen, report.base)'
          = Events(SeenBy(latest), runs[n].seen, latest)
    <3>1. runs'[latest'].seen = runs[n].seen
      BY <1>9, <2>1
    <3> HIDE DEF n
    <3> QED  BY <2>1, <2>2, <3>1 DEF Events
  <2>4. \A r \in Published' : r < latest' => r <= report'.base
    BY <1>7, <2>1 DEF BaseInv, LatestInv
  <2>5. (report.base = 0 \/ report.base \in Published)' /\ report'.base < latest'
    BY <1>7, <1>8, <2>1
  <2> QED  BY <2>1, <2>3, <2>4, <2>5 DEF ReportInv
<1>14. BaseInv'
  BY <1>10, <1>11, <1>12, <1>13 DEF BaseInv
<1>15. \A r \in Published : runs'[r].seen = runs[r].seen
  <2>1. \A r \in Published : r \in 1..n /\ r # n
    BY <1>4, <1>7 DEF Published
  <2> HIDE DEF row
  <2> QED  BY <1>6, <2>1
<1> HIDE DEF row
<1> QED  BY <1>1, <1>7, <1>8, <1>9, <1>14, <1>15

LEMMA BaseStep == ASSUME BaseInv, [Next]_vars PROVE BaseInv'
<1>1. CASE Start \/ Freeze \/ Cancel \/ Stop
  BY <1>1, LifeSteps
<1>2. CASE Suppress \/ Cleanup \/ UNCHANGED vars
  BY <1>2, UpkeepSteps
<1>3. CASE \E w \in Workers : Take(w) \/ Quit(w) \/ Read(w) \/ ReadRows(w) \/ Publish(w) \/ Refused(w)
  BY <1>3, ReadingSteps, PublishStep
<1> QED  BY <1>1, <1>2, <1>3 DEF Next

-----------------------------------------------------------------------------
(* The health score. *)

\* The quotient of the rounding.
LEMMA Quotient ==
    ASSUME NEW x \in Nat, NEW d \in Nat \ {0}, NEW q \in Nat, x < d * (q + 1)
    PROVE  x \div d \in 0..q
<1> DEFINE y == x \div d
           z == x % d
<1>1. y \in Int /\ z \in 0..d - 1 /\ x = d * y + z
  BY SMT
<1> HIDE DEF y, z
<1>2. y >= 0
  <2>1. y \in Int /\ y <= -1 => d * y <= -d
    BY <1>1, SMT
  <2> QED  BY <1>1, <2>1
<1>3. y <= q
  <2>1. y >= q + 1 => d * y >= d * (q + 1)
    BY <1>1, SMT
  <2> QED  BY <1>1, <2>1, SMT
<1> QED  BY <1>1, <1>2, <1>3 DEF y

LEMMA QuotientAtLeast ==
    ASSUME NEW x \in Nat, NEW d \in Nat \ {0}, NEW q \in Nat, d * q <= x
    PROVE  q <= x \div d
<1> DEFINE y == x \div d
           z == x % d
<1>1. y \in Int /\ z \in 0..d - 1 /\ x = d * y + z
  BY SMT
<1> HIDE DEF y, z
<1>2. y <= q - 1 => d * y <= d * (q - 1)
  BY <1>1, SMT
<1>3. d * (q - 1) = d * q - d
  BY SMT
<1> QED  BY <1>1, <1>2, <1>3 DEF y

LEMMA QuotientGrows ==
    ASSUME NEW x \in Nat, NEW y \in Nat, x <= y, NEW d \in Nat \ {0}
    PROVE  x \div d \in Nat /\ x \div d <= y \div d
<1> DEFINE q == x \div d
           z == x % d
<1>1. q \in Int /\ z \in 0..d - 1 /\ x = d * q + z
  BY SMT
<1> HIDE DEF q, z
<1>2. q >= 0
  <2>1. q <= -1 => d * q <= -d
    BY <1>1, SMT
  <2> QED  BY <1>1, <2>1
<1>3. d * q <= y
  BY <1>1
<1> QED  BY <1>1, <1>2, <1>3, QuotientAtLeast DEF q

\* The parts of a deduction.
LEMMA Weights == \A rule \in Rules : Weight(rule) \in 1..40
  BY DEF Rules, Weight

LEMMA SharesBounded ==
    ASSUME NEW rule \in Rules, NEW open \in Nat, NEW evaluated \in Nat \ {0}
    PROVE  LET m == Least(evaluated, 5 * open)
               n == 2 * Weight(rule) * m
           IN  /\ m \in 0..evaluated /\ n \in Nat
               /\ n <= 2 * Weight(rule) * evaluated
               /\ open = 0 => n = 0
<1> DEFINE m == Least(evaluated, 5 * open)
           w == Weight(rule)
<1>1. m \in 0..evaluated /\ (open = 0 => m = 0)
  BY DEF Least
<1>2. w \in 1..40
  BY Weights
<1> HIDE DEF m, w
<1>3. /\ 2 * w * m \in Nat /\ 2 * w * m <= 2 * w * evaluated
      /\ m = 0 => 2 * w * m = 0
  BY <1>1, <1>2, SMT
<1> QED  BY <1>1, <1>3 DEF m, w

\* A rule deducts at most its weight, and nothing without open issues.
LEMMA DeductionBounded ==
    ASSUME NEW rule \in Rules, NEW open \in Nat, NEW evaluated \in Nat \ {0}
    PROVE  /\ Deduction(rule, open, evaluated) \in 0..Weight(rule)
           /\ open = 0 => Deduction(rule, open, evaluated) = 0
<1> DEFINE n == 2 * Weight(rule) * Least(evaluated, 5 * open)
           w == Weight(rule)
           d == 2 * evaluated
           up == (n + evaluated) \div d
           down == (n + evaluated - 1) \div d
<1>1. n \in Nat /\ n <= 2 * w * evaluated /\ (open = 0 => n = 0)
  BY SharesBounded
<1>2. w \in 1..40 /\ d \in Nat \ {0}
  BY Weights
<1>3. Deduction(rule, open, evaluated) = up \/ Deduction(rule, open, evaluated) = down
  BY DEF Deduction, Rounded
<1> HIDE DEF n, w
<1>4. d * (w + 1) = 2 * w * evaluated + 2 * evaluated
  BY <1>2, SMT
<1>5. n + evaluated \in Nat /\ n + evaluated - 1 \in Nat
  BY <1>1
<1>6. n + evaluated < d * (w + 1) /\ n + evaluated - 1 < d * (w + 1)
  <2> DEFINE we == 2 * w * evaluated
  <2>1. we \in Nat
    BY <1>2, SMT
  <2>2. n <= we /\ d * (w + 1) = we + 2 * evaluated
    BY <1>1, <1>4
  <2> HIDE DEF we
  <2> QED  BY <1>1, <2>1, <2>2
<1>7. n = 0 => n + evaluated < d * (0 + 1) /\ n + evaluated - 1 < d * (0 + 1)
  BY <1>1
<1>8. up \in 0..w /\ down \in 0..w
  <2> HIDE DEF d
  <2>1. w \in Nat
    BY <1>2
  <2>2. (n + evaluated) \div d \in 0..w
    BY <1>2, <1>5, <1>6, <2>1, Quotient
  <2>3. (n + evaluated - 1) \div d \in 0..w
    BY <1>2, <1>5, <1>6, <2>1, Quotient
  <2> QED  BY <2>2, <2>3
<1>9. n = 0 => up \in 0..0 /\ down \in 0..0
  <2> HIDE DEF d
  <2> QED  BY <1>2, <1>5, <1>7, Quotient
<1> QED  BY <1>1, <1>3, <1>8, <1>9 DEF w

\* With more open issues a rule deducts at least as much.
LEMMA DeductionGrows ==
    ASSUME NEW rule \in Rules, NEW a \in Nat, NEW b \in Nat, a <= b, NEW evaluated \in Nat \ {0}
    PROVE  Deduction(rule, a, evaluated) <= Deduction(rule, b, evaluated)
<1> DEFINE w    == Weight(rule)
           d    == 2 * evaluated
           N(k) == 2 * w * Least(evaluated, 5 * k)
           D(k) == Deduction(rule, k, evaluated)
<1>1. w \in 1..40 /\ d \in Nat \ {0}
  BY Weights
<1>2. N(a) \in Nat /\ N(b) \in Nat
  BY SharesBounded
<1>3. D(a) \in 0..w /\ D(b) \in 0..w
  BY DeductionBounded
<1>4. \A k \in {a, b} : D(k) \in {(N(k) + evaluated) \div d, (N(k) + evaluated - 1) \div d}
  BY DEF Deduction, Rounded
<1>5. CASE a = b
  BY <1>3, <1>5
<1>6. CASE a # b /\ 5 * a < evaluated
  <2>1. Least(evaluated, 5 * a) + 1 <= Least(evaluated, 5 * b)
    BY <1>6 DEF Least
  <2>2. N(a) + 1 <= N(b)
    <3> DEFINE x == Least(evaluated, 5 * a)
               y == Least(evaluated, 5 * b)
    <3>1. x \in Nat /\ y \in Nat /\ x + 1 <= y
      BY <2>1 DEF Least
    <3> HIDE DEF x, y, w
    <3>2. 2 * w * x + 1 <= 2 * w * y
      BY <1>1, <3>1, SMT
    <3> QED  BY <3>2 DEF x, y
  <2> HIDE DEF N, D, d
  <2>3. D(a) <= (N(a) + evaluated) \div d
    BY <1>1, <1>2, <1>3, <1>4, QuotientGrows
  <2>4. (N(b) + evaluated - 1) \div d <= D(b)
    BY <1>1, <1>2, <1>3, <1>4, QuotientGrows
  <2>5. (N(a) + evaluated) \div d <= (N(b) + evaluated - 1) \div d
    <3>1. N(a) + evaluated \in Nat /\ N(b) + evaluated - 1 \in Nat
          /\ N(a) + evaluated <= N(b) + evaluated - 1
      BY <1>2, <2>2
    <3> QED  BY <1>1, <3>1, QuotientGrows
  <2>6. (N(a) + evaluated) \div d \in Nat /\ (N(b) + evaluated - 1) \div d \in Nat
    BY <1>1, <1>2, <2>2, QuotientGrows
  <2>7. D(a) <= D(b)
    BY <1>3, <2>3, <2>4, <2>5, <2>6
  <2> QED  BY <2>7 DEF D
<1>7. CASE 5 * a >= evaluated
  <2>1. N(b) = 2 * w * evaluated
    BY <1>7 DEF Least
  <2> HIDE DEF N, D, w
  <2>2. d * w = 2 * w * evaluated /\ 2 * w * evaluated \in Nat
    BY <1>1, SMT
  <2>3. d * w <= N(b) + evaluated /\ d * w <= N(b) + evaluated - 1
    BY <1>2, <2>1, <2>2
  <2> HIDE DEF d
  <2>4. w <= (N(b) + evaluated) \div d /\ w <= (N(b) + evaluated - 1) \div d
    BY <1>1, <1>2, <2>3, QuotientAtLeast
  <2>5. D(a) <= D(b)
    BY <1>1, <1>3, <1>4, <2>4
  <2> QED  BY <2>5 DEF D
<1> QED  BY <1>5, <1>6, <1>7

\* Four rules together.
LEMMA ScoreBounded ==
    ASSUME NEW open \in [Rules -> Nat], NEW evaluated \in Nat, NEW observed \in Nat,
           Sufficient(evaluated, observed)
    PROVE  LET Lost(rule) == IF open[rule] = 0 THEN 0 ELSE Weight(rule)
               s          == Score(open, evaluated, observed)
           IN  /\ s \in 0..100
               /\ s >= 100 - Lost("http_4xx_5xx") - Lost("noindex_on_indexable")
                          - Lost("missing_title") - Lost("canonical_conflict")
<1> DEFINE D(rule)    == Deduction(rule, open[rule], evaluated)
           Lost(rule) == IF open[rule] = 0 THEN 0 ELSE Weight(rule)
           rest       == 100 - D("http_4xx_5xx") - D("noindex_on_indexable")
                             - D("missing_title") - D("canonical_conflict")
<1>1. evaluated \in Nat \ {0}
  BY DEF Sufficient
<1>2. \A rule \in Rules : D(rule) \in 0..Lost(rule) /\ Lost(rule) \in 0..Weight(rule)
  <2> SUFFICES ASSUME NEW rule \in Rules
               PROVE  D(rule) \in 0..Lost(rule) /\ Lost(rule) \in 0..Weight(rule)
    OBVIOUS
  <2>1. Weight(rule) \in 1..40 /\ open[rule] \in Nat
    BY Weights
  <2>2. D(rule) \in 0..Weight(rule) /\ (open[rule] = 0 => D(rule) = 0)
    BY <1>1, <2>1, DeductionBounded
  <2> HIDE DEF D
  <2> QED  BY <2>1, <2>2
<1>3. Rules = {"http_4xx_5xx", "noindex_on_indexable", "missing_title", "canonical_conflict"}
  BY DEF Rules
<1>4. /\ Weight("http_4xx_5xx") = 40 /\ Weight("noindex_on_indexable") = 25
      /\ Weight("missing_title") = 20 /\ Weight("canonical_conflict") = 15
  BY DEF Weight
<1>5. Score(open, evaluated, observed) = IF rest >= 0 THEN rest ELSE 0
  BY DEF Score
<1> DEFINE d1 == D("http_4xx_5xx")   d2 == D("noindex_on_indexable")
           d3 == D("missing_title")  d4 == D("canonical_conflict")
           l1 == Lost("http_4xx_5xx")   l2 == Lost("noindex_on_indexable")
           l3 == Lost("missing_title")  l4 == Lost("canonical_conflict")
           low == 100 - l1 - l2 - l3 - l4
<1>6. /\ d1 \in 0..l1 /\ d2 \in 0..l2 /\ d3 \in 0..l3 /\ d4 \in 0..l4
      /\ l1 \in 0..40 /\ l2 \in 0..25 /\ l3 \in 0..20 /\ l4 \in 0..15
  <2> HIDE DEF D, Lost
  <2> QED  BY <1>2, <1>3, <1>4
<1>7. rest = 100 - d1 - d2 - d3 - d4
  OBVIOUS
<1>8. rest \in 0..100 /\ rest >= low
  <2> HIDE DEF d1, d2, d3, d4, l1, l2, l3, l4, rest
  <2> QED  BY <1>6, <1>7
<1> HIDE DEF rest, low
<1>9. Score(open, evaluated, observed) = rest
  BY <1>5, <1>8
<1> QED  BY <1>8, <1>9 DEF Lost, low

LEMMA ScoreFalls ==
    ASSUME NEW open \in [Rules -> Nat], NEW more \in [Rules -> Nat],
           \A rule \in Rules : more[rule] >= open[rule],
           NEW evaluated \in Nat, NEW observed \in Nat
    PROVE  Score(more, evaluated, observed) <= Score(open, evaluated, observed)
<1> DEFINE A(rule) == Deduction(rule, open[rule], evaluated)
           B(rule) == Deduction(rule, more[rule], evaluated)
           a       == 100 - A("http_4xx_5xx") - A("noindex_on_indexable")
                          - A("missing_title") - A("canonical_conflict")
           b       == 100 - B("http_4xx_5xx") - B("noindex_on_indexable")
                          - B("missing_title") - B("canonical_conflict")
<1>1. CASE ~Sufficient(evaluated, observed)
  BY <1>1 DEF Score, NoScore
<1>2. CASE Sufficient(evaluated, observed)
  <2>1. evaluated \in Nat \ {0}
    BY <1>2 DEF Sufficient
  <2>2. \A rule \in Rules : A(rule) \in Int /\ B(rule) \in Int /\ A(rule) <= B(rule)
    BY <2>1, DeductionBounded, DeductionGrows, Weights
  <2>3. /\ Score(open, evaluated, observed) = IF a >= 0 THEN a ELSE 0
        /\ Score(more, evaluated, observed) = IF b >= 0 THEN b ELSE 0
    BY <1>2 DEF Score
  <2> HIDE DEF A, B
  <2> QED  BY <2>2, <2>3 DEF Rules
<1> QED  BY <1>1, <1>2

\* The score is the one of what the report counts.
ScoreInv ==
    /\ report.open \in [Rules -> Nat] /\ report.evaluated \in Nat /\ report.observed \in Nat
    /\ report.score = Score(report.open, report.evaluated, report.observed)

LEMMA ScoreInit == ASSUME Init PROVE ScoreInv
  BY DEF Init, NoReport, ScoreInv, Score, Sufficient

\* Some of the pages are a number of pages.
LEMMA PagesCount == \A S \in SUBSET Pages : Cardinality(S) \in Nat
  BY PublicationAssumption, FS_Subset, FS_CardinalityType

LEMMA ReportScored == ASSUME BaseInv, NEW w \in Workers, Publish(w) PROVE ScoreInv'
<1> DEFINE r         == worker[w].run
           after     == runs[r].seen
           seen      == {p \in Pages : after[p] # NotSeen}
           evaluated == Rest[r].http + Cardinality({p \in seen : IsHttp(after[p])})
           observed  == Rest[r].http + Rest[r].other + Cardinality(seen)
           rows      == [i \in DOMAIN issue |-> Evaluated(issue[i], Found(i, runs[r].seen))]
           open      == [rule \in Rules |-> Counted(rows, rule)]
<1>1. r \in 1..MaxRuns
  <2>1. Active /\ r = Len(runs)
    BY DEF Publish, MayPublish, Active
  <2> QED  BY <2>1 DEF BaseInv, Typed, ActiveInv
<1>2. Rest[r].http \in Nat /\ Rest[r].other \in Nat
  BY <1>1, PublicationAssumption
<1>3. seen \in SUBSET Pages /\ {p \in seen : IsHttp(after[p])} \in SUBSET Pages
  OBVIOUS
<1>4. evaluated \in Nat /\ observed \in Nat
  <2> HIDE DEF seen
  <2> QED  BY <1>2, <1>3, PagesCount
<1>5. open \in [Rules -> Nat]
  <2>1. \A rule \in Rules : Counted(rows, rule) \in Nat
    BY PagesCount DEF Counted
  <2> HIDE DEF rows
  <2> QED  BY <2>1
<1>6. /\ report'.open = open /\ report'.evaluated = evaluated /\ report'.observed = observed
      /\ report'.score = Score(open, evaluated, observed)
  BY DEF Publish, ReportOf
<1> HIDE DEF open, evaluated, observed
<1> QED  BY <1>4, <1>5, <1>6 DEF ScoreInv

\* Only a publication makes a report.
LEMMA ReportChanges ==
    ASSUME [Next]_vars, ~\E w \in Workers : Publish(w) PROVE UNCHANGED <<report, latest>>
<1>1. ASSUME Start \/ Freeze \/ Cancel \/ Stop \/ Suppress \/ Cleanup \/ UNCHANGED vars
      PROVE  UNCHANGED <<report, latest>>
  BY <1>1 DEF Start, Freeze, Cancel, Stop, Suppress, Cleanup, vars
<1>2. ASSUME NEW w \in Workers, Take(w) \/ Quit(w) \/ Read(w) \/ ReadRows(w) \/ Refused(w)
      PROVE  UNCHANGED <<report, latest>>
  <2>1. Take(w) \/ Quit(w) \/ Refused(w) => UNCHANGED <<report, latest>>
    BY DEF Take, Quit, Refused
  <2>2. Read(w) => UNCHANGED <<report, latest>>
    BY DEF Read
  <2>3. ReadRows(w) => UNCHANGED <<report, latest>>
    BY DEF ReadRows
  <2> QED  BY <1>2, <2>1, <2>2, <2>3
<1> QED  BY <1>1, <1>2 DEF Next

LEMMA ScoreStep == ASSUME BaseInv, ScoreInv, [Next]_vars PROVE ScoreInv'
<1>1. CASE \E w \in Workers : Publish(w)
  BY <1>1, ReportScored
<1>2. CASE ~\E w \in Workers : Publish(w)
  BY <1>2, ReportChanges DEF ScoreInv
<1> QED  BY <1>1, <1>2

\* A report follows its issues: what the two scores before and after a step relate.
LEMMA ScoresRelate ==
    ASSUME ScoreInv, ScoreInv'
    PROVE  LET Worse(a, b) == /\ a.evaluated = b.evaluated /\ a.observed = b.observed
                              /\ \A rule \in Rules : a.open[rule] >= b.open[rule]
               Lost(rule)  == IF report'.open[rule] = 0 THEN 0 ELSE Weight(rule)
           IN  /\ Worse(report', report) => report'.score <= report.score
               /\ Worse(report, report') => report'.score >= report.score
               /\ report'.score # NoScore =>
                     /\ report'.score <= 100
                     /\ report'.score >= 100 - Lost("http_4xx_5xx") - Lost("noindex_on_indexable")
                                            - Lost("missing_title") - Lost("canonical_conflict")
<1> DEFINE Worse(a, b) == /\ a.evaluated = b.evaluated /\ a.observed = b.observed
                          /\ \A rule \in Rules : a.open[rule] >= b.open[rule]
           Lost(rule)  == IF report'.open[rule] = 0 THEN 0 ELSE Weight(rule)
<1>1. Worse(report', report) => report'.score <= report.score
  BY ScoreFalls DEF ScoreInv
<1>2. Worse(report, report') => report'.score >= report.score
  <2>1. Worse(report, report') => report.score <= report'.score
    BY ScoreFalls DEF ScoreInv
  <2>2. report.score \in Int /\ report'.score \in Int
    <3>1. ASSUME NEW open \in [Rules -> Nat], NEW evaluated \in Nat, NEW observed \in Nat
          PROVE  Score(open, evaluated, observed) \in Int
      <4>1. CASE Sufficient(evaluated, observed)
        <5>1. Score(open, evaluated, observed) \in 0..100
          BY <4>1, ScoreBounded
        <5> QED  BY <5>1
      <4>2. CASE ~Sufficient(evaluated, observed)
        BY <4>2 DEF Score, NoScore
      <4> QED  BY <4>1, <4>2
    <3> QED  BY <3>1 DEF ScoreInv
  <2> QED  BY <2>1, <2>2
<1>3. report'.score # NoScore =>
         /\ report'.score <= 100
         /\ report'.score >= 100 - Lost("http_4xx_5xx") - Lost("noindex_on_indexable")
                                - Lost("missing_title") - Lost("canonical_conflict")
  <2> SUFFICES ASSUME report'.score # NoScore
               PROVE  /\ report'.score <= 100
                      /\ report'.score >= 100 - Lost("http_4xx_5xx") - Lost("noindex_on_indexable")
                                             - Lost("missing_title") - Lost("canonical_conflict")
    OBVIOUS
  <2> DEFINE open      == report'.open
             evaluated == report'.evaluated
             observed  == report'.observed
             s         == report'.score
  <2>1. /\ open \in [Rules -> Nat] /\ evaluated \in Nat /\ observed \in Nat
        /\ s = Score(open, evaluated, observed) /\ s # NoScore
    BY DEF ScoreInv
  <2> HIDE DEF open, evaluated, observed, s
  <2>2. Sufficient(evaluated, observed)
    BY <2>1 DEF Score
  <2> DEFINE L(rule) == IF open[rule] = 0 THEN 0 ELSE Weight(rule)
             t       == Score(open, evaluated, observed)
  <2>3. /\ t \in 0..100
        /\ t >= 100 - L("http_4xx_5xx") - L("noindex_on_indexable")
                    - L("missing_title") - L("canonical_conflict")
    BY <2>1, <2>2, ScoreBounded
  <2>4. s = t
    BY <2>1
  <2> HIDE DEF t
  <2>5. /\ s <= 100
        /\ s >= 100 - L("http_4xx_5xx") - L("noindex_on_indexable")
                    - L("missing_title") - L("canonical_conflict")
    BY <2>3, <2>4
  <2> QED  BY <2>5 DEF open, s
<1> QED  BY <1>1, <1>2, <1>3

-----------------------------------------------------------------------------
(* The issues. *)

\* What the published runs say of each issue, and what the latest report counts.
IssueInv ==
    /\ issue = [i \in Pages \X Rules |-> issue[i]]
    /\ \A i \in Pages \X Rules : /\ issue[i].state = StateBy(i, latest)
                                 /\ IsFiniteSet(Openings(i, latest))
                                 /\ issue[i].occurrence = Cardinality(Openings(i, latest))
                                 /\ issue[i] \in [state : {"none", "OPEN", "RESOLVED"},
                                                  occurrence : Nat, suppressed : BOOLEAN]
    /\ latest # 0 =>
          /\ \A rule \in Rules :
                report.open[rule] <= Cardinality({p \in Pages : issue[<<p, rule>>].state = "OPEN"})
          /\ report.resolved = {i \in Pages \X Rules : /\ StateBy(i, latest - 1) = "OPEN"
                                                       /\ StateBy(i, latest) = "RESOLVED"}

LEMMA Verdicts == \A i, seen : Found(i, seen) \in {"PRESENT", "ABSENT", "UNKNOWN"}
  BY DEF Found, Verdict, Judged

\* What the runs up to some moment say depends on those runs alone.
LEMMA SameHistory ==
    ASSUME Published \in SUBSET Nat, Published' \in SUBSET Nat, NEW m \in Nat,
           \A q \in Nat : q <= m => (q \in Published' <=> q \in Published),
           \A q \in Published : q <= m => runs'[q].seen = runs[q].seen,
           NEW i, NEW r \in Int, r <= m
    PROVE  /\ Conclusive(i, r)' = Conclusive(i, r)
           /\ Faulty(i, r)' = Faulty(i, r)
           /\ StateBy(i, r)' = StateBy(i, r)
           /\ Openings(i, r)' = Openings(i, r)
<1>1. ASSUME NEW k \in Int, k <= m
      PROVE  /\ Conclusive(i, k)' = Conclusive(i, k)
             /\ Faulty(i, k)' = Faulty(i, k)
             /\ StateBy(i, k)' = StateBy(i, k)
  <2>1. \A q \in Nat : q <= k => (q \in Published' <=> q \in Published)
    BY <1>1
  <2>2. \A q \in Published : q <= k => runs'[q].seen = runs[q].seen
    BY <1>1
  <2>3. Conclusive(i, k)' = Conclusive(i, k)
    BY <2>1, <2>2 DEF Conclusive
  <2>4. \A q \in Conclusive(i, k) : runs'[q].seen = runs[q].seen
    BY <2>2 DEF Conclusive
  <2>5. Faulty(i, k)' = Faulty(i, k)
    BY <2>3, <2>4 DEF Faulty
  <2>6. StateBy(i, k)' = StateBy(i, k)
    BY <2>3, <2>5 DEF StateBy
  <2> QED  BY <2>3, <2>5, <2>6
<1>2. Openings(i, r)' = Openings(i, r)
  <2>1. \A q \in Faulty(i, r) : q \in Int /\ q - 1 <= m
    <3>1. \A q \in Faulty(i, r) : q \in Published /\ q <= r
      BY DEF Faulty, Conclusive
    <3>2. \A q \in Published : q \in Nat
      OBVIOUS
    <3>3. ASSUME NEW q \in Nat, q <= r PROVE q \in Int /\ q - 1 <= m
      BY <3>3
    <3> QED  BY <3>1, <3>2, <3>3
  <2>2. \A q \in Faulty(i, r) : StateBy(i, q - 1)' = StateBy(i, q - 1)
    BY <1>1, <2>1
  <2> QED  BY <1>1, <2>2 DEF Openings
<1> QED  BY <1>1, <1>2

\* Nothing is said between the latest report and the end.
LEMMA NothingLater ==
    ASSUME LatestInv, Published \in SUBSET Nat, latest \in Nat, NEW r \in Nat, r >= latest, NEW i
    PROVE  /\ Conclusive(i, r) = Conclusive(i, latest) /\ Faulty(i, r) = Faulty(i, latest)
           /\ StateBy(i, r) = StateBy(i, latest) /\ Openings(i, r) = Openings(i, latest)
<1>1. Conclusive(i, r) = Conclusive(i, latest)
  <2>1. \A q \in Published : q <= latest /\ q <= r
    BY DEF LatestInv
  <2> QED  BY <2>1 DEF Conclusive
<1>2. Faulty(i, r) = Faulty(i, latest)
  BY <1>1 DEF Faulty
<1>3. StateBy(i, r) = StateBy(i, latest) /\ Openings(i, r) = Openings(i, latest)
  BY <1>1, <1>2 DEF StateBy, Openings
<1> QED  BY <1>1, <1>2, <1>3

LEMMA RunsCount ==
    ASSUME BaseInv
    PROVE  /\ Published \in SUBSET Nat /\ latest \in Nat /\ Len(runs) \in Nat
           /\ latest <= Len(runs) /\ \A q \in Published : q >= 1
<1>1. DOMAIN runs = 1..Len(runs) /\ Len(runs) \in Nat /\ latest \in Nat
  BY DEF BaseInv, Typed
<1>2. latest # 0 => latest \in Published
  BY DEF BaseInv, LatestInv
<1> QED  BY <1>1, <1>2 DEF Published

LEMMA IssueInvImplies == ASSUME BaseInv, IssueInv PROVE IssuesFollowReports
<1>1. \A i : /\ StateBy(i, Len(runs)) = StateBy(i, latest)
             /\ Openings(i, Len(runs)) = Openings(i, latest)
  <2>1. LatestInv /\ Published \in SUBSET Nat /\ latest \in Nat
        /\ Len(runs) \in Nat /\ Len(runs) >= latest
    BY RunsCount DEF BaseInv
  <2> QED  BY <2>1, NothingLater
<1>2. DOMAIN issue = Pages \X Rules
  BY DEF IssueInv
<1>3. \A i \in DOMAIN issue : /\ issue[i].state = StateBy(i, Len(runs))
                              /\ issue[i].occurrence = Cardinality(Openings(i, Len(runs)))
  BY <1>1, <1>2 DEF IssueInv
<1>4. latest # 0 =>
         /\ \A rule \in Rules :
               report.open[rule] <= Cardinality({p \in Pages : issue[<<p, rule>>].state = "OPEN"})
         /\ report.resolved = {i \in DOMAIN issue : /\ StateBy(i, latest - 1) = "OPEN"
                                                    /\ StateBy(i, latest) = "RESOLVED"}
  BY <1>2 DEF IssueInv
<1> QED  BY <1>3, <1>4 DEF IssuesFollowReports

LEMMA IssueInit == ASSUME Init PROVE IssueInv
<1>1. issue = [i \in Pages \X Rules |-> NoIssue] /\ latest = 0 /\ runs = <<>>
  BY DEF Init
<1>2. Published = {}
  BY <1>1 DEF Published
<1>3. \A i : Faulty(i, latest) = {} /\ Openings(i, latest) = {}
  BY <1>2 DEF Conclusive, Faulty, Openings
<1>4. \A i : StateBy(i, latest) = "none"
  BY <1>3 DEF StateBy
<1> QED  BY <1>1, <1>3, <1>4, FS_EmptySet DEF IssueInv, NoIssue

\* Steps that publish nothing leave the issues as they are, but for their suppression.
LEMMA KeptIssues ==
    ASSUME BaseInv, IssueInv, Kept, BaseInv',
           issue' = [i \in Pages \X Rules |-> issue'[i]],
           \A i \in Pages \X Rules : /\ issue'[i].state = issue[i].state
                                     /\ issue'[i].occurrence = issue[i].occurrence
                                     /\ issue'[i] \in [state : {"none", "OPEN", "RESOLVED"},
                                                       occurrence : Nat, suppressed : BOOLEAN]
    PROVE  IssueInv'
<1>1. Published' = Published /\ \A r \in Published : runs'[r].seen = runs[r].seen
  BY DEF Kept
<1>2. Published \in SUBSET Nat /\ latest \in Nat /\ latest' = latest /\ report' = report
  BY RunsCount DEF Kept
<1>3. ASSUME NEW i
      PROVE  /\ StateBy(i, latest)' = StateBy(i, latest)
             /\ StateBy(i, latest - 1)' = StateBy(i, latest - 1)
             /\ Openings(i, latest)' = Openings(i, latest)
  <2>1. ASSUME NEW r \in Int, r <= latest
        PROVE  StateBy(i, r)' = StateBy(i, r) /\ Openings(i, r)' = Openings(i, r)
    BY <1>1, <1>2, <2>1, SameHistory
  <2>2. PICK n \in Nat : n = latest
    BY <1>2
  <2>3. /\ StateBy(i, n)' = StateBy(i, n) /\ StateBy(i, n - 1)' = StateBy(i, n - 1)
        /\ Openings(i, n)' = Openings(i, n)
    BY <2>1, <2>2
  <2> QED  BY <1>2, <2>2, <2>3
<1>4. \A i : /\ StateBy(i, latest)' = StateBy(i, latest)
             /\ StateBy(i, latest - 1)' = StateBy(i, latest - 1)
             /\ Openings(i, latest)' = Openings(i, latest)
  BY <1>3
<1>5. \A rule \in Rules : {p \in Pages : issue'[<<p, rule>>].state = "OPEN"}
                            = {p \in Pages : issue[<<p, rule>>].state = "OPEN"}
  OBVIOUS
<1>6. \A i \in Pages \X Rules :
         /\ issue'[i].state = StateBy(i, latest)'
         /\ IsFiniteSet(Openings(i, latest))'
         /\ issue'[i].occurrence = Cardinality(Openings(i, latest))'
  BY <1>4 DEF IssueInv
<1>7. latest' # 0 =>
         /\ \A rule \in Rules : report'.open[rule]
               <= Cardinality({p \in Pages : issue'[<<p, rule>>].state = "OPEN"})
         /\ report'.resolved = {i \in Pages \X Rules : /\ StateBy(i, latest - 1)' = "OPEN"
                                                      /\ StateBy(i, latest)' = "RESOLVED"}
  BY <1>2, <1>4, <1>5 DEF IssueInv
<1> QED  BY <1>6, <1>7 DEF IssueInv

LEMMA IssuesPublished ==
    ASSUME BaseInv, IssueInv, NEW w \in Workers, Publish(w) PROVE IssueInv'
<1>0. PICK n \in Nat : n = Len(runs)
  BY RunsCount
<1> DEFINE V(i) == Found(i, runs[n].seen)
           R(i) == Evaluated(issue[i], V(i))
           S(i) == StateBy(i, latest)
           O(i) == Openings(i, latest)
<1>1. /\ Published \in SUBSET Nat /\ n \in Nat /\ latest \in Nat /\ latest < n /\ latest' = n
      /\ Published' = Published \cup {n} /\ \A q \in Published : q < n /\ q >= 1
      /\ runs'[n].seen = runs[n].seen /\ \A q \in Published : runs'[q].seen = runs[q].seen
      /\ worker[w].run = n
  BY <1>0, PublishStep, RunsCount
<1>2. n - 1 \in Nat /\ latest <= n - 1
  BY <1>1
<1>3. ASSUME NEW i, NEW r \in Int, r <= n - 1
      PROVE  /\ Conclusive(i, r)' = Conclusive(i, r) /\ Faulty(i, r)' = Faulty(i, r)
             /\ StateBy(i, r)' = StateBy(i, r)
  <2>1. Published' \in SUBSET Nat
    BY <1>1
  <2>2. \A q \in Nat : q <= n - 1 => (q \in Published' <=> q \in Published)
    BY <1>1, <1>2
  <2> QED  BY <1>1, <1>3, <2>1, <2>2, SameHistory
<1>4. ASSUME NEW i
      PROVE  /\ StateBy(i, n - 1) = S(i) /\ StateBy(i, n - 1)' = S(i)
             /\ Conclusive(i, n - 1)' = Conclusive(i, latest) /\ Faulty(i, n - 1)' = Faulty(i, latest)
  <2>1. /\ StateBy(i, n - 1) = S(i) /\ Conclusive(i, n - 1) = Conclusive(i, latest)
        /\ Faulty(i, n - 1) = Faulty(i, latest)
    BY <1>1, <1>2, NothingLater DEF BaseInv
  <2>2. n - 1 \in Int /\ n - 1 <= n - 1
    BY <1>2
  <2> QED  BY <1>3, <2>1, <2>2
<1>5. ASSUME NEW i
      PROVE  /\ Conclusive(i, n)' = Conclusive(i, latest) \cup (IF V(i) # "UNKNOWN" THEN {n} ELSE {})
             /\ Faulty(i, n)' = Faulty(i, latest) \cup (IF V(i) = "PRESENT" THEN {n} ELSE {})
  <2>1. Conclusive(i, n)' = {q \in Published' : q <= n /\ Found(i, runs'[q].seen) # "UNKNOWN"}
    BY DEF Conclusive
  <2>2. Conclusive(i, latest) = {q \in Published : Found(i, runs[q].seen) # "UNKNOWN"}
    <3>1. \A q \in Published : q <= latest
      BY DEF BaseInv, LatestInv
    <3> QED  BY <3>1 DEF Conclusive
  <2>3. Conclusive(i, n)' = Conclusive(i, latest) \cup (IF V(i) # "UNKNOWN" THEN {n} ELSE {})
    <3> DEFINE H(q) == Found(i, runs'[q].seen)
    <3>1. \A q \in Published : H(q) = Found(i, runs[q].seen)
      BY <1>1
    <3>2. H(n) = V(i) /\ \A q \in Published \cup {n} : q <= n
      BY <1>1
    <3>3. Conclusive(i, n)' = {q \in Published \cup {n} : H(q) # "UNKNOWN"}
      BY <1>1, <2>1, <3>2
    <3>4. Conclusive(i, latest) = {q \in Published : H(q) # "UNKNOWN"}
      BY <2>2, <3>1
    <3> HIDE DEF H, V
    <3> QED  BY <3>2, <3>3, <3>4
  <2>4. Faulty(i, n)' = {q \in Conclusive(i, n)' : Found(i, runs'[q].seen) = "PRESENT"}
    BY DEF Faulty
  <2>5. \A q \in Conclusive(i, latest) : runs'[q].seen = runs[q].seen
    BY <1>1 DEF Conclusive
  <2>6. runs'[n].seen = runs[n].seen
    BY <1>1
  <2>7. Faulty(i, n)' = Faulty(i, latest) \cup (IF V(i) = "PRESENT" THEN {n} ELSE {})
    BY <2>3, <2>4, <2>5, <2>6 DEF Faulty
  <2> QED  BY <2>3, <2>7
<1>6. ASSUME NEW i
      PROVE  \A q \in Conclusive(i, latest) : q \in Nat /\ q < n
  BY <1>1 DEF Conclusive
<1>7. ASSUME NEW i
      PROVE  StateBy(i, n)' = CASE V(i) = "PRESENT" -> "OPEN"
                                [] V(i) = "ABSENT" -> (IF S(i) = "none" THEN "none" ELSE "RESOLVED")
                                [] OTHER -> S(i)
  <2> DEFINE C == Conclusive(i, n)'
             F == Faulty(i, n)'
  <2>1. StateBy(i, n)' = IF F = {} THEN "none" ELSE IF Newest(C) \in F THEN "OPEN" ELSE "RESOLVED"
    BY DEF StateBy
  <2>2. S(i) = "none" <=> Faulty(i, latest) = {}
    BY DEF StateBy
  <2>3. V(i) # "UNKNOWN" => Newest(C) = n
    <3> SUFFICES ASSUME V(i) # "UNKNOWN" PROVE Newest(C) = n
      OBVIOUS
    <3>1. C = Conclusive(i, latest) \cup {n}
      BY <1>5
    <3> HIDE DEF C
    <3>2. C \in SUBSET Nat /\ n \in C /\ \A q \in C : q <= n
      BY <1>1, <1>6, <3>1
    <3> QED  BY <3>2, NewestIs
  <2>4. CASE V(i) = "PRESENT"
    <3>1. n \in F
      BY <1>5, <2>4
    <3> HIDE DEF F, C
    <3> QED  BY <2>1, <2>3, <2>4, <3>1
  <2>5. CASE V(i) = "ABSENT"
    <3>1. F = Faulty(i, latest)
      BY <1>5, <2>5
    <3>2. n \notin F
      BY <1>6, <3>1 DEF Faulty
    <3> HIDE DEF F, C
    <3> QED  BY <2>1, <2>2, <2>3, <2>5, <3>1, <3>2
  <2>6. CASE V(i) = "UNKNOWN"
    <3>1. C = Conclusive(i, latest) /\ F = Faulty(i, latest)
      BY <1>5, <2>6
    <3> HIDE DEF F, C
    <3> QED  BY <2>1, <2>6, <3>1 DEF StateBy
  <2> HIDE DEF C, F
  <2> QED  BY <2>4, <2>5, <2>6, Verdicts
<1>8. ASSUME NEW i
      PROVE  Openings(i, n)' = O(i) \cup (IF V(i) = "PRESENT" /\ S(i) # "OPEN" THEN {n} ELSE {})
  <2>1. Openings(i, n)' = {q \in Faulty(i, n)' : StateBy(i, q - 1)' # "OPEN"}
    BY DEF Openings
  <2>2. \A q \in Faulty(i, latest) : StateBy(i, q - 1)' = StateBy(i, q - 1)
    <3>1. \A q \in Faulty(i, latest) : q \in Nat /\ q - 1 \in Int /\ q - 1 <= n - 1
      BY <1>1, <1>2, <1>6 DEF Faulty
    <3> QED  BY <1>3, <3>1
  <2>3. StateBy(i, n - 1)' = S(i)
    BY <1>4
  <2>4. {q \in Faulty(i, latest) : StateBy(i, q - 1)' # "OPEN"} = O(i)
    BY <2>2 DEF Openings
  <2> QED  BY <1>5, <2>1, <2>3, <2>4
<1>9. /\ issue' = [i \in Pages \X Rules |-> R(i)]
      /\ report'.resolved = {i \in Pages \X Rules : issue[i].state = "OPEN" /\ R(i).state = "RESOLVED"}
      /\ report'.open = [rule \in Rules |-> Counted(issue', rule)]
  <2>1. DOMAIN issue = Pages \X Rules
    BY DEF IssueInv
  <2> DEFINE rows == [i \in DOMAIN issue |-> Evaluated(issue[i], Found(i, runs[worker[w].run].seen))]
  <2>2. rows = [i \in Pages \X Rules |-> R(i)]
    BY <1>1, <2>1
  <2>3. issue' = rows /\ report'.open = [rule \in Rules |-> Counted(rows, rule)]
    BY DEF Publish, ReportOf
  <2>4. report'.resolved = {i \in DOMAIN issue : issue[i].state = "OPEN" /\ rows[i].state = "RESOLVED"}
    BY DEF Publish, ReportOf
  <2> HIDE DEF rows, R
  <2>5. \A i \in Pages \X Rules : rows[i] = R(i)
    BY <2>2
  <2> QED  BY <2>1, <2>2, <2>3, <2>4, <2>5
<1>10. ASSUME NEW i \in Pages \X Rules
       PROVE  /\ R(i).state = StateBy(i, n)'
              /\ IsFiniteSet(Openings(i, n)')
              /\ R(i).occurrence = Cardinality(Openings(i, n)')
              /\ R(i) \in [state : {"none", "OPEN", "RESOLVED"}, occurrence : Nat, suppressed : BOOLEAN]
  <2> DEFINE row == issue[i]
             v   == V(i)
  <2>1. /\ row \in [state : {"none", "OPEN", "RESOLVED"}, occurrence : Nat, suppressed : BOOLEAN]
        /\ row.state = S(i) /\ IsFiniteSet(O(i)) /\ row.occurrence = Cardinality(O(i))
    BY DEF IssueInv
  <2>2. v \in {"PRESENT", "ABSENT", "UNKNOWN"}
    BY Verdicts
  <2>3. n \notin O(i)
    BY <1>6 DEF Openings, Faulty
  <2>4. IsFiniteSet(O(i) \cup {n}) /\ Cardinality(O(i) \cup {n}) = Cardinality(O(i)) + 1
    BY <2>1, <2>3, FS_AddElement
  <2>5. /\ StateBy(i, n)' = CASE v = "PRESENT" -> "OPEN"
                              [] v = "ABSENT" -> (IF S(i) = "none" THEN "none" ELSE "RESOLVED")
                              [] OTHER -> S(i)
        /\ Openings(i, n)' = O(i) \cup (IF v = "PRESENT" /\ S(i) # "OPEN" THEN {n} ELSE {})
    BY <1>7, <1>8
  <2> HIDE DEF row, v, O, S, V
  <2>6. CASE v = "PRESENT" /\ row.state # "OPEN"
    <3>1. Evaluated(row, v) = [row EXCEPT !.state = "OPEN", !.occurrence = row.occurrence + 1]
      BY <2>6 DEF Evaluated
    <3> DEFINE e == [row EXCEPT !.state = "OPEN", !.occurrence = row.occurrence + 1]
    <3>2. /\ e.state = "OPEN" /\ e.occurrence = row.occurrence + 1
          /\ e \in [state : {"none", "OPEN", "RESOLVED"}, occurrence : Nat, suppressed : BOOLEAN]
      <4>1. row.occurrence + 1 \in Nat
        BY <2>1
      <4> DEFINE k == row.occurrence + 1
      <4>2. e = [row EXCEPT !.state = "OPEN", !.occurrence = k] /\ k \in Nat
        BY <4>1
      <4> HIDE DEF k, e
      <4>3. /\ e.state = "OPEN" /\ e.occurrence = k
            /\ e \in [state : {"none", "OPEN", "RESOLVED"}, occurrence : Nat, suppressed : BOOLEAN]
        BY <2>1, <4>2
      <4> QED  BY <4>3 DEF k
    <3> HIDE DEF e
    <3>3. StateBy(i, n)' = "OPEN" /\ Openings(i, n)' = O(i) \cup {n}
      BY <2>1, <2>5, <2>6
    <3>4. R(i) = Evaluated(row, v)
      BY DEF row, v
    <3> HIDE DEF R
    <3>5. /\ R(i).state = StateBy(i, n)' /\ R(i).occurrence = row.occurrence + 1
          /\ R(i) \in [state : {"none", "OPEN", "RESOLVED"}, occurrence : Nat, suppressed : BOOLEAN]
      BY <3>1, <3>2, <3>3, <3>4 DEF e
    <3>6. IsFiniteSet(Openings(i, n)') /\ Cardinality(Openings(i, n)') = row.occurrence + 1
      BY <2>1, <2>4, <3>3
    <3>7. /\ R(i).state = StateBy(i, n)'
          /\ IsFiniteSet(Openings(i, n)')
          /\ R(i).occurrence = Cardinality(Openings(i, n)')
          /\ R(i) \in [state : {"none", "OPEN", "RESOLVED"}, occurrence : Nat, suppressed : BOOLEAN]
      BY <3>5, <3>6
    <3> QED  BY <3>7 DEF R
  <2>7. CASE v = "ABSENT" /\ row.state = "OPEN"
    <3>1. Evaluated(row, v) = [row EXCEPT !.state = "RESOLVED"]
      BY <2>7 DEF Evaluated
    <3> QED  BY <2>1, <2>5, <2>7, <3>1 DEF row, v
  <2>8. CASE ~(v = "PRESENT" /\ row.state # "OPEN") /\ ~(v = "ABSENT" /\ row.state = "OPEN")
    <3>1. Evaluated(row, v) = row
      BY <2>8 DEF Evaluated
    <3>2. O(i) \cup {} = O(i)
      OBVIOUS
    <3> QED  BY <2>1, <2>2, <2>5, <2>8, <3>1, <3>2 DEF row, v
  <2> QED  BY <2>6, <2>7, <2>8
<1> HIDE DEF V, R, S, O
<1>11. ASSUME NEW i \in Pages \X Rules
       PROVE  /\ issue'[i].state = StateBy(i, latest)'
              /\ IsFiniteSet(Openings(i, latest))'
              /\ issue'[i].occurrence = Cardinality(Openings(i, latest))'
              /\ issue'[i] \in [state : {"none", "OPEN", "RESOLVED"}, occurrence : Nat,
                                suppressed : BOOLEAN]
  BY <1>1, <1>9, <1>10
<1>12. ASSUME NEW rule \in Rules
       PROVE  report'.open[rule]
                 <= Cardinality({p \in Pages : issue'[<<p, rule>>].state = "OPEN"})
  <2> DEFINE open    == {p \in Pages : issue'[<<p, rule>>].state = "OPEN"}
             counted == {p \in Pages : issue'[<<p, rule>>].state = "OPEN"
                                       /\ ~issue'[<<p, rule>>].suppressed}
  <2>1. report'.open[rule] = Cardinality(counted)
    BY <1>9 DEF Counted
  <2>2. counted \in SUBSET open /\ open \in SUBSET Pages
    OBVIOUS
  <2> HIDE DEF open, counted
  <2>3. IsFiniteSet(open)
    BY <2>2, PublicationAssumption, FS_Subset
  <2>4. Cardinality(counted) <= Cardinality(open)
    BY <2>2, <2>3, FS_Subset
  <2> QED  BY <2>1, <2>4 DEF open
<1>13. ASSUME NEW i \in Pages \X Rules
       PROVE  issue[i].state = StateBy(i, latest - 1)' /\ R(i).state = StateBy(i, latest)'
  <2>1. StateBy(i, latest - 1)' = StateBy(i, n - 1)'
    BY <1>1
  <2>2. StateBy(i, n - 1)' = S(i) /\ issue[i].state = S(i)
    BY <1>4 DEF IssueInv, S
  <2> QED  BY <1>1, <1>10, <2>1, <2>2
<1>14. report'.resolved = {i \in Pages \X Rules : /\ StateBy(i, latest - 1)' = "OPEN"
                                                  /\ StateBy(i, latest)' = "RESOLVED"}
  BY <1>9, <1>13
<1>15. issue' = [i \in Pages \X Rules |-> issue'[i]]
  BY <1>9
<1> QED  BY <1>11, <1>12, <1>14, <1>15 DEF IssueInv

LEMMA IssueStep == ASSUME BaseInv, IssueInv, [Next]_vars PROVE IssueInv'
<1>1. BaseInv'
  BY BaseStep
<1>2. ASSUME Kept, UNCHANGED issue PROVE IssueInv'
  BY <1>1, <1>2, KeptIssues DEF IssueInv
<1>3. CASE Start \/ Freeze \/ Cancel \/ Stop
  BY <1>2, <1>3, LifeSteps DEF Start, Freeze, Cancel, Stop
<1>4. CASE Cleanup \/ UNCHANGED vars
  BY <1>2, <1>4, UpkeepSteps DEF Cleanup, vars
<1>5. CASE Suppress
  <2>1. Kept
    BY <1>5, UpkeepSteps
  <2>2. PICK j \in Pages \X Rules : issue' = [issue EXCEPT ![j].suppressed = ~issue[j].suppressed]
    BY <1>5 DEF Suppress, IssueInv
  <2> DEFINE row == [issue[j] EXCEPT !.suppressed = ~issue[j].suppressed]
  <2>3. /\ issue[j] \in [state : {"none", "OPEN", "RESOLVED"}, occurrence : Nat, suppressed : BOOLEAN]
        /\ issue = [i \in Pages \X Rules |-> issue[i]]
    BY DEF IssueInv
  <2>4. /\ row.state = issue[j].state /\ row.occurrence = issue[j].occurrence
        /\ row \in [state : {"none", "OPEN", "RESOLVED"}, occurrence : Nat, suppressed : BOOLEAN]
    BY <2>3
  <2>5. issue' = [issue EXCEPT ![j] = row]
    BY <2>2
  <2> HIDE DEF row
  <2>6. issue' = [i \in Pages \X Rules |-> IF i = j THEN row ELSE issue[i]]
    BY <2>3, <2>5
  <2>7. \A i \in Pages \X Rules : issue'[i] = IF i = j THEN row ELSE issue[i]
    BY <2>6
  <2>8. issue' = [i \in Pages \X Rules |-> issue'[i]]
    BY <2>6, <2>7
  <2>9. \A i \in Pages \X Rules : /\ issue'[i].state = issue[i].state
                                  /\ issue'[i].occurrence = issue[i].occurrence
                                  /\ issue'[i] \in [state : {"none", "OPEN", "RESOLVED"},
                                                    occurrence : Nat, suppressed : BOOLEAN]
    BY <2>4, <2>7 DEF IssueInv
  <2> QED  BY <1>1, <2>1, <2>8, <2>9, KeptIssues
<1>6. CASE \E w \in Workers : Publish(w)
  BY <1>6, IssuesPublished
<1>7. ASSUME NEW w \in Workers, Take(w) \/ Quit(w) \/ Read(w) \/ ReadRows(w) \/ Refused(w)
      PROVE  IssueInv'
  <2>1. UNCHANGED <<runs, latest, report, issue>>
    <3>1. Take(w) \/ Quit(w) \/ Refused(w) => UNCHANGED <<runs, latest, report, issue>>
      BY DEF Take, Quit, Refused
    <3>2. Read(w) => UNCHANGED <<runs, latest, report, issue>>
      BY DEF Read
    <3>3. ReadRows(w) => UNCHANGED <<runs, latest, report, issue>>
      BY DEF ReadRows
    <3> QED  BY <1>7, <3>1, <3>2, <3>3
  <2>2. Kept
    BY <2>1 DEF Kept, Published
  <2> QED  BY <1>2, <2>1, <2>2
<1> QED  BY <1>3, <1>4, <1>5, <1>6, <1>7 DEF Next

-----------------------------------------------------------------------------
(* The verdicts and the change events. *)

\* A verdict that turns from one observation to another has its event.
LEMMA FlipHasEvent ==
    ASSUME NEW a, NEW b, NEW rule \in Rules,
           {Verdict(rule, Observe(a)), Verdict(rule, Observe(b))} = {"PRESENT", "ABSENT"},
           rule = "canonical_conflict" =>
              /\ ~(Parsed(a) /\ Unresolvable \in a.canonical)
              /\ ~(Parsed(b) /\ Unresolvable \in b.canonical)
    PROVE  \E e \in Changes(Observe(a), Observe(b)) :
              /\ e.type = EventOf[rule]
              /\ rule = "noindex_on_indexable" /\ Verdict(rule, Observe(b)) = "PRESENT"
                   => e.severity = "CRITICAL"
<1> DEFINE o == Observe(a)
           q == Observe(b)
           E(f) == Event(TypeOf[f], SeverityOf(o, q, f))
           H(sev) == Event("HTTP_STATUS_CHANGED", sev)
<1>1. \A f \in Fields : Differ(o, q, f) => E(f) \in Changes(o, q)
  <2> HIDE DEF o, q
  <2> QED  BY DEF Changes
<1>2. StatusDiffers(o, q) => \E sev : H(sev) \in Changes(o, q)
  <2> HIDE DEF o, q
  <2> QED  BY DEF Changes
<1>3. \A type, sev : Event(type, sev).type = type /\ Event(type, sev).severity = sev
  BY DEF Event
<1>4. /\ o.validity["canonical"] = "KNOWN" => Parsed(a) /\ o.value["canonical"] = a.canonical
      /\ q.validity["canonical"] = "KNOWN" => Parsed(b) /\ q.value["canonical"] = b.canonical
  BY DEF Observe, Fields
<1> HIDE DEF o, q
<1>5. CASE rule = "http_4xx_5xx"
  <2>1. IsHttp(o) /\ IsHttp(q) /\ (IsError(o.status) # IsError(q.status))
    BY <1>5 DEF Verdict, Judged, o, q
  <2>2. StatusDiffers(o, q)
    BY <2>1 DEF StatusDiffers
  <2> QED  BY <1>2, <1>3, <1>5, <2>2 DEF EventOf, o, q
<1>6. CASE rule = "noindex_on_indexable"
  <2>1. /\ o.validity["robots"] = "KNOWN" /\ q.validity["robots"] = "KNOWN"
        /\ (o.value["robots"] = "DISALLOWED") # (q.value["robots"] = "DISALLOWED")
        /\ Verdict(rule, q) = "PRESENT" => q.value["robots"] = "DISALLOWED"
    BY <1>6 DEF Verdict, Judged, o, q
  <2>2. Differ(o, q, "robots")
    BY <2>1 DEF Differ, BothKnown, Compared
  <2>3. E("robots") \in Changes(o, q)
    BY <1>1, <2>2 DEF Fields
  <2>4. E("robots").type = EventOf[rule]
    BY <1>3, <1>6 DEF EventOf, TypeOf
  <2>5. Verdict(rule, q) = "PRESENT" => E("robots").severity = "CRITICAL"
    BY <1>3, <2>1 DEF SeverityOf
  <2> QED  BY <2>3, <2>4, <2>5 DEF o, q
<1>7. CASE rule = "missing_title"
  <2>1. /\ o.validity["title"] = "KNOWN" /\ q.validity["title"] = "KNOWN"
        /\ (o.value["title"] = Absent) # (q.value["title"] = Absent)
    BY <1>7 DEF Verdict, Judged, o, q
  <2>2. Differ(o, q, "title")
    BY <2>1 DEF Differ, BothKnown, Compared
  <2>3. E("title") \in Changes(o, q)
    BY <1>1, <2>2 DEF Fields
  <2>4. E("title").type = EventOf[rule]
    BY <1>3, <1>7 DEF EventOf, TypeOf
  <2> QED  BY <1>7, <2>3, <2>4 DEF o, q
<1>8. CASE rule = "canonical_conflict"
  <2> DEFINE x == o.value["canonical"]
             y == q.value["canonical"]
  <2>0. ASSUME NEW r
        PROVE  Verdict(rule, r) = IF r.validity["canonical"] # "KNOWN" THEN "UNKNOWN"
                                  ELSE Judged(\/ Unresolvable \in r.value["canonical"]
                                              \/ Cardinality(r.value["canonical"]) > 1)
    BY <1>8 DEF Verdict
  <2>1. /\ o.validity["canonical"] = "KNOWN" /\ q.validity["canonical"] = "KNOWN"
        /\ {Judged(Unresolvable \in x \/ Cardinality(x) > 1),
            Judged(Unresolvable \in y \/ Cardinality(y) > 1)} = {"PRESENT", "ABSENT"}
    <3>1. {Verdict(rule, o), Verdict(rule, q)} = {"PRESENT", "ABSENT"}
      BY DEF o, q
    <3>2. Verdict(rule, o) # "UNKNOWN" /\ Verdict(rule, q) # "UNKNOWN"
      BY <3>1
    <3>3. /\ o.validity["canonical"] = "KNOWN" /\ q.validity["canonical"] = "KNOWN"
      BY <2>0, <3>2
    <3> QED  BY <2>0, <3>1, <3>3
  <2>2. Unresolvable \notin x /\ Unresolvable \notin y
    BY <1>4, <1>8, <2>1
  <2>3. x # y
    <3> HIDE DEF x, y
    <3>1. x = y => {Judged(Unresolvable \in x \/ Cardinality(x) > 1),
                    Judged(Unresolvable \in y \/ Cardinality(y) > 1)}
                 = {Judged(Unresolvable \in x \/ Cardinality(x) > 1)}
      OBVIOUS
    <3>2. "PRESENT" # "ABSENT"
      OBVIOUS
    <3> QED  BY <2>1, <3>1, <3>2
  <2>4. Differ(o, q, "canonical")
    <3> HIDE DEF x, y
    <3>1. x \ {Unresolvable} = x /\ y \ {Unresolvable} = y
      BY <2>2
    <3>2. Compared(o, "canonical") = x \ {Unresolvable}
          /\ Compared(q, "canonical") = y \ {Unresolvable}
      BY DEF Compared, x, y
    <3>3. Compared(o, "canonical") # Compared(q, "canonical")
      BY <2>3, <3>1, <3>2
    <3>4. BothKnown(o, q, "canonical")
      BY <2>1 DEF BothKnown
    <3> QED  BY <3>3, <3>4 DEF Differ
  <2>5. E("canonical") \in Changes(o, q)
    BY <1>1, <2>4 DEF Fields
  <2>6. E("canonical").type = EventOf[rule]
    BY <1>3, <1>8 DEF EventOf, TypeOf
  <2> QED  BY <1>8, <2>5, <2>6 DEF o, q
<1> QED  BY <1>5, <1>6, <1>7, <1>8 DEF Rules

\* The report is that of the latest published run.
RunInv == report.run = latest /\ (latest = 0 => report.base = 0)

LEMMA RunStep == ASSUME BaseInv, RunInv, [Next]_vars PROVE RunInv'
<1>1. ASSUME NEW w \in Workers, Publish(w) PROVE RunInv'
  <2>1. report'.run = worker[w].run
    BY <1>1 DEF Publish, ReportOf
  <2>2. worker[w].run = Len(runs) /\ latest' = Len(runs) /\ Len(runs) # 0
    BY <1>1, PublishStep, RunsCount
  <2> QED  BY <2>1, <2>2 DEF RunInv
<1> QED  BY <1>1, ReportChanges DEF RunInv

LEMMA FlipsFollow == ASSUME BaseInv, RunInv, IssueInv PROVE FlipsAreReported
<1> DEFINE before == runs[report.base].seen
           after  == runs[report.run].seen
<1> SUFFICES ASSUME report.base # 0, NEW i \in Pages \X Rules,
                    {Found(i, before), Found(i, after)} = {"PRESENT", "ABSENT"},
                    i[2] = "canonical_conflict" => ~Invalid(before[i[1]]) /\ ~Invalid(after[i[1]])
             PROVE  \E c \in report.changes :
                       /\ c[1] = i[1] /\ c[2].type = EventOf[i[2]]
                       /\ i[2] = "noindex_on_indexable" /\ Found(i, after) = "PRESENT"
                            => c[2].severity = "CRITICAL"
  BY DEF FlipsAreReported, IssueInv
<1>1. latest # 0 /\ report.run = latest
  BY DEF RunInv
<1>2. report.changes = Events(before, after, report.base)
  BY <1>1 DEF BaseInv, ReportInv, SeenBy
<1> HIDE DEF before, after
<1>3. /\ before[i[1]] # NotSeen /\ after[i[1]] # NotSeen
      /\ Found(i, before) = Verdict(i[2], Observe(before[i[1]]))
      /\ Found(i, after) = Verdict(i[2], Observe(after[i[1]]))
  BY DEF Found
<1>4. PICK e \in Changes(Observe(before[i[1]]), Observe(after[i[1]])) :
         /\ e.type = EventOf[i[2]]
         /\ i[2] = "noindex_on_indexable" /\ Found(i, after) = "PRESENT"
              => e.severity = "CRITICAL"
  <2>1. i[2] \in Rules
    OBVIOUS
  <2> QED  BY <1>3, <2>1, FlipHasEvent DEF Invalid
<1>5. <<i[1], e>> \in Events(before, after, report.base)
  BY <1>3, <1>4 DEF Events
<1> QED  BY <1>2, <1>4, <1>5

-----------------------------------------------------------------------------

\* Every report compares its run with all that the run published before it saw, and keeps
\* its own details for the next (publishRun, cleanupRunDetails).
THEOREM AlwaysComparedWithBaseline == Spec => []ComparedWithBaseline
<1>1. Init => BaseInv
  BY BaseInit
<1>2. BaseInv /\ [Next]_vars => BaseInv'
  BY BaseStep
<1>3. BaseInv => ComparedWithBaseline
  BY BaseInvImplies
<1> QED  BY <1>1, <1>2, <1>3, PTL DEF Spec

\* A report with as many pages and at least as many open issues scores no higher, no rule
\* costs more than its weight, whatever the doubles round an exact half to
\* (computeHealthScore).
THEOREM ScoreAlwaysFollowsIssues == Spec => ScoreFollowsIssues
<1>1. Init => BaseInv /\ ScoreInv
  BY BaseInit, ScoreInit
<1>2. BaseInv /\ ScoreInv /\ [Next]_vars => (BaseInv /\ ScoreInv)'
  BY BaseStep, ScoreStep
<1>3. ScoreInv /\ ScoreInv' =>
        [LET Worse(a, b) == /\ a.evaluated = b.evaluated /\ a.observed = b.observed
                            /\ \A rule \in Rules : a.open[rule] >= b.open[rule]
             Lost(rule)  == IF report'.open[rule] = 0 THEN 0 ELSE Weight(rule)
         IN  report' # report =>
               /\ Worse(report', report) => report'.score <= report.score
               /\ Worse(report, report') => report'.score >= report.score
               /\ report'.score # NoScore =>
                     /\ report'.score <= 100
                     /\ report'.score >= 100 - Lost("http_4xx_5xx") - Lost("noindex_on_indexable")
                                            - Lost("missing_title") - Lost("canonical_conflict")
        ]_report
  BY ScoresRelate
<1> QED  BY <1>1, <1>2, <1>3, PTL DEF Spec, ScoreFollowsIssues

\* The state of every issue, its occurrence and what the reports count are what the
\* conclusive verdicts of the published runs make of them (nextIssueState, publishRun).
THEOREM IssuesAlwaysFollowReports == Spec => []IssuesFollowReports
<1>1. Init => BaseInv /\ IssueInv
  BY BaseInit, IssueInit
<1>2. BaseInv /\ IssueInv /\ [Next]_vars => (BaseInv /\ IssueInv)'
  BY BaseStep, IssueStep
<1>3. BaseInv /\ IssueInv => IssuesFollowReports
  BY IssueInvImplies
<1> QED  BY <1>1, <1>2, <1>3, PTL DEF Spec

\* A fault that a report finds new, or finds gone, is among its change events
\* (compareObservations, evaluateAllRules).
THEOREM FlipsAlwaysReported == Spec => []FlipsAreReported
<1>1. Init => BaseInv /\ RunInv /\ IssueInv
  BY BaseInit, IssueInit DEF Init, NoReport, RunInv
<1>2. BaseInv /\ RunInv /\ IssueInv /\ [Next]_vars => (BaseInv /\ RunInv /\ IssueInv)'
  BY BaseStep, RunStep, IssueStep
<1>3. BaseInv /\ RunInv /\ IssueInv => FlipsAreReported
  BY FlipsFollow
<1> QED  BY <1>1, <1>2, <1>3, PTL DEF Spec
=============================================================================
