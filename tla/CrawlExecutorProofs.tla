------------------------- MODULE CrawlExecutorProofs -------------------------
(***************************************************************************)
(* What CrawlExecutor guarantees for every number of executions, every     *)
(* site, every way pages answer, and every policy.                         *)
(*                                                                         *)
(* The argument has two halves.  Only one execution carries the current    *)
(* token (OneCurrent), and what the others do changes nothing that the     *)
(* database says of the crawl (Undisturbed).  So what an execution found   *)
(* in the database is still there when it goes by it (HolderInv), although *)
(* no transaction spans two of its steps.                                  *)
(***************************************************************************)
EXTENDS CrawlExecutor, FiniteSetTheorems, TLAPS

-----------------------------------------------------------------------------
(* The inductive invariant. *)

\* Where an execution has an item of the frontier in hand.
Working == {"fetch", "wire", "retry", "links", "save", "target", "done"}

\* Where it goes by what Recover left.
Crawling == {"robots", "rules", "sitemap", "lists", "loop"} \cup Working

\* An execution carries a token that was handed out, and the newest one is stored.
TokenBound == \A e \in Executions : exec[e].token <= run.token

\* An execution whose token is the current one; only it may write.
Current(e) == exec[e].pc \in Started /\ exec[e].token = run.token

OneCurrent == \A e, f \in Executions : Current(e) /\ Current(f) => e = f

\* Whoever got the lease has moved the run out of the queue.
QueuedUnheld == run.status = "QUEUED" => \A e \in Executions : exec[e].pc \notin Started

\* The item and the answer in hand are what the place in the loop says.
InHand(e) ==
    /\ exec[e].pc \in Working => exec[e].item \in Urls
    /\ exec[e].pc \in {"save", "target", "done"} => exec[e].answer # "none"
    /\ exec[e].pc = "links" => exec[e].answer = "html"
    /\ exec[e].pc = "retry" => exec[e].answer = "network"
    /\ exec[e].pc = "save" => /\ exec[e].answer = "security" => "security" \in exec[e].flags
                              /\ exec[e].answer \in Unrecovered => "unrecovered" \in exec[e].flags

\* The item in hand is claimed, and no other.
OwnClaim(e) ==
    exec[e].pc \in Crawling /\ Fence(e)
    => \A u \in Urls : frontier[u] = "FETCHING" <=> exec[e].pc \in Working /\ u = exec[e].item

\* A page about to be recorded as unreachable was tried often enough.
RetriesUsed(e) ==
    exec[e].pc = "save" /\ Fence(e) /\ exec[e].answer = "network"
    => attempts[exec[e].item] = MaxRetries

\* The links of a page are known, or there is no room for them.
LinksKnown(u) == Links[u] \subseteq InFrontier \/ Cardinality(InFrontier) >= MaxFrontier

LinksFirst(e) ==
    exec[e].pc = "save" /\ Fence(e) /\ exec[e].answer = "html" => LinksKnown(exec[e].item)

\* There is room for the observation of the page in hand.
PageRoom(e) ==
    exec[e].pc \in Working \ {"target", "done"} /\ CanObserve(e)
    => Cardinality(Observed) < MaxPages

\* What is about to be marked as done is observed.
SavedFirst(e) ==
    exec[e].pc \in {"target", "done"} /\ CanObserve(e) => exec[e].item \in Observed

\* The flags of an execution that may freeze the run tell all failures recorded.
Covered(flags) ==
    \A u \in Urls : /\ obs[u] = "security" => "security" \in flags
                    /\ obs[u] \in Unrecovered => "unrecovered" \in flags

FlagsTell(e) ==
    /\ \/ exec[e].pc \in Crawling \cup {"finalize"}
       \/ exec[e].pc = "publish" /\ exec[e].plan # "publish"
    /\ CanObserve(e)
    => Covered(exec[e].flags)

HolderInv(e) == /\ OwnClaim(e) /\ RetriesUsed(e) /\ LinksFirst(e)
                /\ PageRoom(e) /\ SavedFirst(e) /\ FlagsTell(e)

\* A page answered and none failed.
Clean == AnyHttp /\ \A u \in Urls : obs[u] \notin Unrecovered \cup {"security"}

\* Nothing is observed after the freeze, and only a frozen run becomes FULL.
FrozenClean == run.status = "FINALIZING" \/ run.completeness = "FULL" => Clean

FullIsCompleted == run.completeness = "FULL" => run.status = "COMPLETED"

RunInv == /\ FrozenClean /\ FullIsCompleted /\ DoneMeansObserved /\ GivenUpAfterRetries
          /\ LinksBeforeObservation /\ BudgetsHold

TokenInv == TokenBound /\ OneCurrent /\ QueuedUnheld

IInv == /\ TypeOK /\ TokenInv /\ RunInv
        /\ \A e \in Executions : InHand(e) /\ HolderInv(e)

-----------------------------------------------------------------------------
(* Types. *)

\* A row with one field replaced by a value of that field's type is a row.
LEMMA RunRowUpdate ==
    \A r \in RunRow :
        /\ \A x \in Active \cup Terminal : [r EXCEPT !.status = x] \in RunRow
        /\ \A x \in {"NONE", "PARTIAL", "FULL"} : [r EXCEPT !.completeness = x] \in RunRow
        /\ \A x \in Nat : [r EXCEPT !.token = x] \in RunRow
        /\ \A x \in BOOLEAN : [r EXCEPT !.lease = x] \in RunRow
        /\ \A x \in BOOLEAN : [r EXCEPT !.cancelled = x] \in RunRow
        /\ \A x \in Nat : [r EXCEPT !.bytes = x] \in RunRow
  BY DEF RunRow

LEMMA ExecUpdate ==
    \A x \in ExecState :
        /\ \A y \in Pcs : [x EXCEPT !.pc = y] \in ExecState
        /\ \A y \in {"publish", "cancel", "crawl"} : [x EXCEPT !.plan = y] \in ExecState
        /\ \A y \in Nat : [x EXCEPT !.token = y] \in ExecState
        /\ \A y \in Urls \cup {NoUrl} : [x EXCEPT !.item = y] \in ExecState
        /\ \A y \in {"none", "robots"} \cup Answers : [x EXCEPT !.answer = y] \in ExecState
        /\ \A y \in Nat : [x EXCEPT !.bytes = y] \in ExecState
        /\ \A y \in SUBSET Flags : [x EXCEPT !.flags = y] \in ExecState
  BY DEF ExecState

LEMMA FreshType == Fresh \in ExecState
  BY DEF Fresh, ExecState, Pcs

LEMMA AbandonType == ASSUME TypeOK, NEW e \in Executions, Abandon(e)
                     PROVE  exec' \in [Executions -> ExecState]
  BY FreshType DEF TypeOK, Abandon

LEMMA GotoType == ASSUME TypeOK, NEW e \in Executions, NEW pc \in Pcs, Goto(e, pc)
                  PROVE  exec' \in [Executions -> ExecState]
  BY ExecUpdate DEF TypeOK, Goto

LEMMA StopType == ASSUME TypeOK, NEW e \in Executions, NEW flag \in Flags, Stop(e, flag)
                  PROVE  exec' \in [Executions -> ExecState]
<1>1. exec[e] \in ExecState /\ exec[e].flags \cup {flag} \in SUBSET Flags
  BY DEF TypeOK, ExecState
<1>2. exec' = [exec EXCEPT ![e] = [[exec[e] EXCEPT !.pc = "finalize"]
                                     EXCEPT !.flags = exec[e].flags \cup {flag}]]
  BY <1>1 DEF Stop, TypeOK, ExecState
<1>3. "finalize" \in Pcs
  BY DEF Pcs
<1>4. [[exec[e] EXCEPT !.pc = "finalize"] EXCEPT !.flags = exec[e].flags \cup {flag}] \in ExecState
  BY <1>1, <1>3, ExecUpdate
<1>5. QED
  BY <1>2, <1>4 DEF TypeOK

LEMMA AnsweredType ==
    ASSUME TypeOK, NEW e \in Executions, NEW n \in Nat, NEW seen \in SUBSET Flags, NEW next \in Pcs
    PROVE  Answered(e, n, seen, next) \in ExecState
<1>1. exec[e] \in ExecState
  BY DEF TypeOK
<1>2. exec[e].bytes + n \in Nat /\ exec[e].flags \cup seen \in SUBSET Flags
  BY <1>1 DEF ExecState
<1>3. QED
  BY <1>1, <1>2 DEF Answered, ExecState

LEMMA AnsweredFields ==
    ASSUME TypeOK, NEW e \in Executions, NEW n, NEW seen, NEW next
    PROVE  /\ Answered(e, n, seen, next).pc = next
           /\ Answered(e, n, seen, next).token = exec[e].token
           /\ Answered(e, n, seen, next).item = exec[e].item
           /\ Answered(e, n, seen, next).answer = exec[e].answer
           /\ Answered(e, n, seen, next).plan = exec[e].plan
           /\ Answered(e, n, seen, next).flags = exec[e].flags \cup seen
  BY DEF Answered, TypeOK, ExecState

LEMMA BeforeRequestType ==
    ASSUME TypeOK, NEW e \in Executions, NEW next \in Pcs, BeforeRequest(e, next)
    PROVE  exec' \in [Executions -> ExecState]
  BY AbandonType, StopType, GotoType DEF BeforeRequest, Flags

LEMMA AskType ==
    ASSUME TypeOK, NEW e \in Executions, NEW next \in Pcs, Ask(e, next)
    PROVE  run' \in RunRow /\ exec' \in [Executions -> ExecState]
<1>1. CASE Fence(e)
  BY <1>1, RunRowUpdate, BeforeRequestType DEF Ask, TypeOK
<1>2. CASE ~Fence(e)
  BY <1>2, AbandonType DEF Ask, TypeOK
<1>3. QED
  BY <1>1, <1>2

LEMMA AddUrlsType ==
    ASSUME TypeOK, NEW e \in Executions, NEW S, NEW me \in ExecState, AddUrls(e, S, me)
    PROVE  /\ frontier' \in [Urls -> {"absent", "PENDING", "FETCHING", "DONE"}]
           /\ exec' \in [Executions -> ExecState]
<1> DEFINE new == {u \in S : frontier[u] = "absent"}
<1>1. PICK added \in SUBSET new :
          /\ frontier' = IF Fence(e)
                           THEN [u \in Urls |-> IF u \in added THEN "PENDING" ELSE frontier[u]]
                           ELSE frontier
          /\ \/ exec' = [exec EXCEPT ![e] =
                      [me EXCEPT !.flags = @ \cup IF new = added THEN {} ELSE {"truncated"}]]
             \/ Abandon(e)
  BY DEF AddUrls, Unseen
<1>2. frontier' \in [Urls -> {"absent", "PENDING", "FETCHING", "DONE"}]
  BY <1>1 DEF TypeOK
<1>3. exec' \in [Executions -> ExecState]
  <2> DEFINE more == IF new = added THEN {} ELSE {"truncated"}
  <2>1. CASE exec' = [exec EXCEPT ![e] = [me EXCEPT !.flags = @ \cup more]]
    <3>1. me.flags \cup more \in SUBSET Flags
      BY DEF ExecState, Flags
    <3> HIDE DEF more
    <3>2. [me EXCEPT !.flags = @ \cup more] \in ExecState
      BY <3>1 DEF ExecState
    <3>3. QED
      BY <2>1, <3>2 DEF TypeOK
  <2>2. CASE Abandon(e)
    BY <2>2, AbandonType
  <2>3. QED
    BY <1>1, <2>1, <2>2
<1>4. QED
  BY <1>2, <1>3

LEMMA ChargeType == ASSUME TypeOK, NEW n \in Nat, Charge(n)
                    PROVE  run' \in RunRow
  BY DEF Charge, TypeOK, RunRow

LEMMA InitTyped == Init => TypeOK
<1> SUFFICES ASSUME Init PROVE TypeOK
  OBVIOUS
<1>1. run \in RunRow
  BY DEF Init, RunRow, Active
<1>2. attempts \in [Urls -> 0..MaxRetries]
  BY ExecutorAssumption DEF Init
<1>3. QED
  BY <1>1, <1>2, FreshType DEF Init, TypeOK

LEMMA StartTyped ==
    ASSUME TypeOK, NEW e \in Executions,
           ReadRun(e) \/ Acquire(e) \/ AcquireFails(e) \/ Recover(e)
    PROVE  TypeOK'
<1> USE DEF TypeOK
<1>1. CASE ReadRun(e)
  <2>1. exec[e] \in ExecState /\ run.bytes \in Nat
    BY DEF RunRow
  <2> DEFINE plan == IF run.cancelled THEN "cancel"
                     ELSE IF run.status = "FINALIZING" THEN "publish" ELSE "crawl"
  <2>2. [exec[e] EXCEPT !.pc = "acquire", !.plan = plan, !.bytes = run.bytes] \in ExecState
    <3>1. plan \in {"publish", "cancel", "crawl"} /\ "acquire" \in Pcs
      BY DEF Pcs
    <3> HIDE DEF plan
    <3>2. QED
      BY <2>1, <3>1 DEF ExecState
  <2>3. exec' = [exec EXCEPT ![e] =
                   [exec[e] EXCEPT !.pc = "acquire", !.plan = plan, !.bytes = run.bytes]]
    BY <1>1, <2>1 DEF ReadRun, ExecState
  <2> HIDE DEF plan
  <2>4. exec' \in [Executions -> ExecState]
    BY <2>2, <2>3
  <2>5. QED
    BY <1>1, <2>4 DEF ReadRun, db
<1>2. CASE Acquire(e)
  <2>1. exec[e] \in ExecState /\ run.token + 1 \in Nat
    BY DEF RunRow
  <2> DEFINE pc == IF exec[e].plan = "publish" THEN "publish" ELSE "recover"
  <2>2. [exec[e] EXCEPT !.token = run.token + 1, !.pc = pc] \in ExecState
    <3>1. pc \in Pcs
      BY DEF Pcs
    <3> HIDE DEF pc
    <3>2. QED
      BY <2>1, <3>1 DEF ExecState
  <2>3. exec' = [exec EXCEPT ![e] = [exec[e] EXCEPT !.token = run.token + 1, !.pc = pc]]
    BY <1>2, <2>1 DEF Acquire, ExecState
  <2> HIDE DEF pc
  <2>4. exec' \in [Executions -> ExecState]
    BY <2>2, <2>3
  <2>5. run' \in RunRow
    <3>1. Leased(run.status) \in Active \cup Terminal
      BY DEF Leased, Active
    <3>2. run' = [run EXCEPT !.status = Leased(run.status), !.token = run.token + 1, !.lease = TRUE]
      BY <1>2 DEF Acquire, RunRow
    <3>3. QED
      BY <2>1, <3>1, <3>2 DEF RunRow
  <2>6. QED
    BY <1>2, <2>4, <2>5 DEF Acquire
<1>3. CASE AcquireFails(e)
  BY <1>3, AbandonType DEF AcquireFails, db
<1>4. CASE Recover(e)
  <2> DEFINE pc == IF exec[e].plan = "cancel" THEN "finalize" ELSE "robots"
             fl == RecoveredFlags \cup (IF exec[e].plan = "cancel" THEN {"cancelled"} ELSE {})
  <2>1. pc \in Pcs /\ fl \in SUBSET Flags
    BY DEF Pcs, Flags, RecoveredFlags
  <2>2. exec' = [exec EXCEPT ![e].pc = pc, ![e].flags = fl]
    BY <1>4 DEF Recover
  <2> HIDE DEF pc, fl
  <2>3. exec' \in [Executions -> ExecState]
    <3>1. exec[e] \in ExecState
      OBVIOUS
    <3>2. [exec[e] EXCEPT !.pc = pc, !.flags = fl] \in ExecState
      BY <2>1, <3>1 DEF ExecState
    <3>3. exec' = [exec EXCEPT ![e] = [exec[e] EXCEPT !.pc = pc, !.flags = fl]]
      BY <2>2, <3>1 DEF ExecState
    <3>4. QED
      BY <3>2, <3>3
  <2>4. frontier' \in [Urls -> {"absent", "PENDING", "FETCHING", "DONE"}]
    BY <1>4 DEF Recover, FrontierReset
  <2>5. QED
    BY <1>4, <2>3, <2>4 DEF Recover
<1>5. QED
  BY <1>1, <1>2, <1>3, <1>4

LEMMA SeedsTyped ==
    ASSUME TypeOK, NEW e \in Executions,
           AskRobots(e) \/ RobotsAnswers(e) \/ AskSitemap(e) \/ SitemapAnswers(e)
    PROVE  TypeOK'
<1>1. CASE AskRobots(e)
  <2>1. "rules" \in Pcs
    BY DEF Pcs
  <2>2. QED
    BY <1>1, <2>1, AskType DEF AskRobots, TypeOK
<1>2. CASE AskSitemap(e)
  <2>1. "lists" \in Pcs
    BY DEF Pcs
  <2>2. QED
    BY <1>2, <2>1, AskType DEF AskSitemap, TypeOK
<1>3. CASE RobotsAnswers(e)
  <2>1. CASE Abandon(e) /\ UNCHANGED <<run, frontier>>
    BY <1>3, <2>1, AbandonType DEF RobotsAnswers, TypeOK
  <2>2. ASSUME NEW n \in 0..1, Charge(n),
               exec' = [exec EXCEPT ![e] = Answered(e, n, {"forced"}, "finalize")],
               UNCHANGED frontier
        PROVE  TypeOK'
    <3>1. n \in Nat /\ {"forced"} \in SUBSET Flags /\ "finalize" \in Pcs
      BY DEF Flags, Pcs
    <3>2. Answered(e, n, {"forced"}, "finalize") \in ExecState
      BY <3>1, AnsweredType
    <3>3. QED
      BY <1>3, <2>2, <3>1, <3>2, ChargeType DEF RobotsAnswers, TypeOK
  <2>3. ASSUME NEW n \in 0..1, Charge(n), AddUrls(e, Seeds, Answered(e, n, {}, "sitemap"))
        PROVE  TypeOK'
    <3>1. n \in Nat /\ {} \in SUBSET Flags /\ "sitemap" \in Pcs
      BY DEF Pcs
    <3>2. Answered(e, n, {}, "sitemap") \in ExecState
      BY <3>1, AnsweredType
    <3>3. QED
      BY <1>3, <2>3, <3>1, <3>2, AddUrlsType, ChargeType DEF RobotsAnswers, TypeOK
  <2>4. QED
    BY <1>3, <2>1, <2>2, <2>3 DEF RobotsAnswers
<1>4. CASE SitemapAnswers(e)
  <2>1. CASE Abandon(e) /\ UNCHANGED <<run, frontier>>
    BY <1>4, <2>1, AbandonType DEF SitemapAnswers, TypeOK
  <2>2. ASSUME NEW listed \in {{}, SitemapUrls}, NEW n \in 0..1, NEW seen \in {{}, {"limit"}},
               Charge(n), AddUrls(e, listed, Answered(e, n, seen, "loop"))
        PROVE  TypeOK'
    <3>1. n \in Nat /\ seen \in SUBSET Flags /\ "loop" \in Pcs
      BY DEF Flags, Pcs
    <3>2. Answered(e, n, seen, "loop") \in ExecState
      BY <3>1, AnsweredType
    <3>3. QED
      BY <1>4, <2>2, <3>1, <3>2, AddUrlsType, ChargeType DEF SitemapAnswers, TypeOK
  <2>3. QED
    BY <1>4, <2>1, <2>2 DEF SitemapAnswers
<1>5. QED
  BY <1>1, <1>2, <1>3, <1>4

LEMMA LoopTyped ==
    ASSUME TypeOK, NEW e \in Executions, Loop(e) \/ Fetch(e) \/ PageAnswers(e) \/ Retry(e)
    PROVE  TypeOK'
<1>1. exec[e] \in ExecState
  BY DEF TypeOK
<1>2. CASE Loop(e)
  <2>1. ASSUME Goto(e, "finalize") \/ Stop(e, "limit") \/ Stop(e, "budget") \/ Stop(e, "cancelled")
                 \/ Abandon(e),
               UNCHANGED <<run, frontier>>
        PROVE  TypeOK'
    <3>1. "finalize" \in Pcs /\ {"limit", "budget", "cancelled"} \subseteq Flags
      BY DEF Pcs, Flags
    <3>2. exec' \in [Executions -> ExecState]
      BY <2>1, <3>1, GotoType, StopType, AbandonType
    <3>3. QED
      BY <1>2, <2>1, <3>2 DEF Loop, TypeOK
  <2>2. ASSUME run' = [run EXCEPT !.lease = TRUE],
               NEW u \in Urls,
               frontier' = [frontier EXCEPT ![u] = "FETCHING"],
               exec' = [exec EXCEPT ![e].pc = "fetch", ![e].item = u]
        PROVE  TypeOK'
    <3>1. exec' \in [Executions -> ExecState]
      BY <1>1, <2>2 DEF TypeOK, ExecState, Pcs
    <3>2. run' \in RunRow
      BY <2>2, RunRowUpdate DEF TypeOK
    <3>3. frontier' \in [Urls -> {"absent", "PENDING", "FETCHING", "DONE"}]
      BY <2>2 DEF TypeOK
    <3>4. QED
      BY <1>2, <3>1, <3>2, <3>3 DEF Loop, TypeOK
  <2>3. QED
    BY <1>2, <2>1, <2>2 DEF Loop
<1>3. CASE Fetch(e)
  <2>1. exec' \in [Executions -> ExecState]
    <3>1. CASE exec' = [exec EXCEPT ![e].pc = "save", ![e].answer = "robots"]
      BY <1>1, <3>1 DEF TypeOK, ExecState, Pcs
    <3>2. CASE BeforeRequest(e, "wire")
      <4>1. "wire" \in Pcs
        BY DEF Pcs
      <4>2. QED
        BY <3>2, <4>1, BeforeRequestType
    <3>3. QED
      BY <1>3, <3>1, <3>2 DEF Fetch
  <2>2. QED
    BY <1>3, <2>1 DEF Fetch, db, TypeOK
<1>4. CASE PageAnswers(e)
  <2>1. CASE Abandon(e) /\ UNCHANGED run
    BY <1>4, <2>1, AbandonType DEF PageAnswers, TypeOK
  <2>2. ASSUME NEW a \in Answers, NEW n \in Sizes(a), Charge(n),
               exec' = [exec EXCEPT
                     ![e] = [Answered(e, n, SeenIn(a), AfterAnswer(a)) EXCEPT !.answer = a]]
        PROVE  TypeOK'
    <3>1. n \in Nat /\ SeenIn(a) \in SUBSET Flags /\ AfterAnswer(a) \in Pcs
      BY DEF Sizes, SeenIn, AfterAnswer, Flags, Pcs
    <3>2. Answered(e, n, SeenIn(a), AfterAnswer(a)) \in ExecState
      BY <3>1, AnsweredType
    <3>3. [Answered(e, n, SeenIn(a), AfterAnswer(a)) EXCEPT !.answer = a] \in ExecState
      BY <3>2, ExecUpdate
    <3>4. QED
      BY <1>4, <2>2, <3>1, <3>3, ChargeType DEF PageAnswers, TypeOK
  <2>3. QED
    BY <1>4, <2>1, <2>2 DEF PageAnswers
<1>5. CASE Retry(e)
  <2> DEFINE u == exec[e].item
  <2>1. exec' \in [Executions -> ExecState]
    <3>1. CASE exec' = [exec EXCEPT ![e].pc = "loop", ![e].item = NoUrl, ![e].answer = "none"]
      BY <1>1, <3>1 DEF TypeOK, ExecState, Pcs
    <3>2. CASE exec' = [exec EXCEPT ![e].pc = "save", ![e].flags = @ \cup {"unrecovered"}]
      BY <1>1, <3>2 DEF TypeOK, ExecState, Pcs, Flags
    <3>3. QED
      BY <1>5, <3>1, <3>2 DEF Retry
  <2>2. \/ UNCHANGED <<frontier, attempts>>
        \/ /\ MayRetry(attempts[u])
           /\ frontier' = [frontier EXCEPT ![u] = "PENDING"]
           /\ attempts' = [attempts EXCEPT ![u] = Counted(@)]
    BY <1>5 DEF Retry
  <2>3. frontier' \in [Urls -> {"absent", "PENDING", "FETCHING", "DONE"}]
    BY <2>2 DEF TypeOK
  <2>4. attempts' \in [Urls -> 0..MaxRetries]
    <3>1. CASE UNCHANGED attempts
      BY <3>1 DEF TypeOK
    <3>2. CASE MayRetry(attempts[u]) /\ attempts' = [attempts EXCEPT ![u] = Counted(@)]
      <4>1. u \in Urls => attempts[u] + 1 \in 0..MaxRetries
        BY <3>2, ExecutorAssumption DEF MayRetry, TypeOK
      <4>2. QED
        BY <3>2, <4>1 DEF Counted, TypeOK
    <3>3. QED
      BY <2>2, <3>1, <3>2
  <2>5. QED
    BY <1>5, <2>1, <2>3, <2>4 DEF Retry, TypeOK
<1>6. QED
  BY <1>2, <1>3, <1>4, <1>5

LEMMA PageTyped ==
    ASSUME TypeOK, NEW e \in Executions, AddLinks(e) \/ Save(e) \/ AddTarget(e) \/ MarkDone(e)
    PROVE  TypeOK'
<1>1. exec[e] \in ExecState
  BY DEF TypeOK
<1>2. CASE AddLinks(e)
  <2>1. Answered(e, 0, {}, "save") \in ExecState
    <3>1. "save" \in Pcs
      BY DEF Pcs
    <3>2. QED
      BY <3>1, AnsweredType
  <2>2. QED
    BY <1>2, <2>1, AddUrlsType DEF AddLinks, TypeOK
<1>3. CASE Save(e)
  <2>1. exec' \in [Executions -> ExecState]
    <3>1. "target" \in Pcs /\ "done" \in Pcs
      BY DEF Pcs
    <3>2. QED
      BY <1>3, <3>1, GotoType DEF Save
  <2>2. exec[e].answer \in {"none", "robots"} \cup Answers
    BY <1>1 DEF ExecState
  <2>3. obs' \in [Urls -> {"none", "robots"} \cup Answers]
    BY <1>3, <2>2 DEF Save, TypeOK
  <2>4. QED
    BY <1>3, <2>1, <2>3 DEF Save, TypeOK
<1>4. CASE AddTarget(e)
  <2>1. Answered(e, 0, {}, "done") \in ExecState
    <3>1. "done" \in Pcs
      BY DEF Pcs
    <3>2. QED
      BY <3>1, AnsweredType
  <2>2. QED
    BY <1>4, <2>1, AddUrlsType DEF AddTarget, TypeOK
<1>5. CASE MarkDone(e)
  <2>1. exec' \in [Executions -> ExecState]
    BY <1>1, <1>5 DEF MarkDone, TypeOK, ExecState, Pcs
  <2>2. frontier' \in [Urls -> {"absent", "PENDING", "FETCHING", "DONE"}]
    BY <1>5 DEF MarkDone, TypeOK
  <2>3. QED
    BY <1>5, <2>1, <2>2 DEF MarkDone, TypeOK
<1>6. QED
  BY <1>2, <1>3, <1>4, <1>5

\* A run that ends without a report ends in one of three ways.
LEMMA OutcomeType ==
    ASSUME NEW e \in Executions
    PROVE  Outcome(e) \in {<<"FAILED", "NONE">>, <<"CANCELLED", "NONE">>, <<"COMPLETED", "PARTIAL">>}
  BY DEF Outcome

LEMMA EndTyped ==
    ASSUME TypeOK, NEW e \in Executions,
           MarkFinalizing(e) \/ TerminalWrite(e) \/ Publish(e) \/ PublishRefused(e)
    PROVE  TypeOK'
<1>1. exec[e] \in ExecState /\ run \in RunRow
  BY DEF TypeOK
<1>2. "finalize" \in Pcs /\ "publish" \in Pcs /\ "recover" \in Pcs /\ "cancelled" \in Flags
  BY DEF Pcs, Flags
<1>3. CASE MarkFinalizing(e)
  <2>1. exec' \in [Executions -> ExecState]
    BY <1>2, <1>3, AbandonType, StopType, GotoType DEF MarkFinalizing
  <2>2. run' \in RunRow
    <3>1. exec[e].bytes \in Nat
      BY <1>1 DEF ExecState
    <3>2. QED
      BY <1>1, <1>3, <3>1 DEF MarkFinalizing, RunRow, Active
  <2>3. QED
    BY <1>3, <2>1, <2>2 DEF MarkFinalizing, TypeOK
<1>4. CASE TerminalWrite(e)
  <2>1. run' \in RunRow
    <3>1. Outcome(e)[1] \in Active \cup Terminal /\ Outcome(e)[2] \in {"NONE", "PARTIAL", "FULL"}
      BY OutcomeType DEF Terminal
    <3>2. exec[e].bytes \in Nat
      BY <1>1 DEF ExecState
    <3>3. QED
      BY <1>1, <1>4, <3>1, <3>2 DEF TerminalWrite, RunRow
  <2>2. QED
    BY <1>4, <2>1, AbandonType DEF TerminalWrite, TypeOK
<1>5. CASE Publish(e)
  <2>1. run' \in RunRow
    BY <1>1, <1>5 DEF Publish, RunRow, Terminal
  <2>2. QED
    BY <1>5, <2>1, AbandonType DEF Publish, TypeOK
<1>6. CASE PublishRefused(e)
  <2>1. CASE exec' = [exec EXCEPT ![e].pc = "recover", ![e].plan = "crawl"]
    <3>1. exec' \in [Executions -> ExecState]
      BY <1>1, <1>2, <2>1 DEF TypeOK, ExecState
    <3>2. QED
      BY <1>6, <3>1 DEF PublishRefused, db, TypeOK
  <2>2. CASE Stop(e, "cancelled") \/ Abandon(e)
    BY <1>2, <1>6, <2>2, StopType, AbandonType DEF PublishRefused, db, TypeOK
  <2>3. QED
    BY <1>6, <2>1, <2>2 DEF PublishRefused
<1>7. QED
  BY <1>3, <1>4, <1>5, <1>6

LEMMA WorldTyped ==
    ASSUME TypeOK, Lapse \/ CancelFlag \/ CancelDirect \/ \E e \in Executions : Crash(e)
    PROVE  TypeOK'
<1>1. run \in RunRow
  BY DEF TypeOK
<1>2. CASE Lapse
  BY <1>1, <1>2 DEF Lapse, TypeOK, RunRow
<1>3. CASE CancelFlag
  BY <1>1, <1>3 DEF CancelFlag, TypeOK, RunRow
<1>4. CASE CancelDirect
  <2>1. run.token + 1 \in Nat /\ "CANCELLED" \in Terminal
    BY <1>1 DEF RunRow, Terminal
  <2>2. run' \in RunRow
    BY <1>1, <1>4, <2>1 DEF CancelDirect, RunRow
  <2>3. QED
    BY <1>4, <2>2 DEF CancelDirect, TypeOK
<1>5. ASSUME NEW e \in Executions, Crash(e)
      PROVE  TypeOK'
  BY <1>5, AbandonType DEF Crash, db, TypeOK
<1>6. QED
  BY <1>2, <1>3, <1>4, <1>5

LEMMA StepTyped == ASSUME TypeOK, NEW e \in Executions, Step(e)
                   PROVE  TypeOK'
  BY StartTyped, SeedsTyped, LoopTyped, PageTyped, EndTyped DEF Step

\* Every operation of the crawl phase keeps rows and records in their range; in
\* particular the attempts of a page never exceed MAX_PAGE_RETRIES (executeCrawl).
THEOREM TypeCorrect == Spec => []TypeOK
<1>1. TypeOK /\ [Next]_vars => TypeOK'
  <2>1. CASE UNCHANGED vars
    BY <2>1 DEF vars, TypeOK
  <2>2. CASE Next
    BY <2>2, StepTyped, WorldTyped DEF Next
  <2>3. QED
    BY <2>1, <2>2
<1>2. QED
  BY <1>1, InitTyped, PTL DEF Spec

-----------------------------------------------------------------------------
(* What a step changes. *)

\* An execution ends, or goes on to one of pcs with what it remembers.
Moves(e, pcs) ==
    \/ exec'[e] = Fresh
    \/ /\ exec'[e].pc \in pcs
       /\ exec'[e].token = exec[e].token
       /\ exec'[e].item = exec[e].item
       /\ exec'[e].answer = exec[e].answer
       /\ exec'[e].plan = exec[e].plan
       /\ exec[e].flags \subseteq exec'[e].flags

\* The other executions remember what they did.
OthersStay(e) == \A f \in Executions \ {e} : exec'[f] = exec[f]

\* What the properties look at in the row of the run.
RunStays == run'.status = run.status /\ run'.completeness = run.completeness /\ run'.token = run.token

LEMMA AbandonMoves == ASSUME TypeOK, NEW e \in Executions, Abandon(e)
                      PROVE  exec'[e] = Fresh /\ OthersStay(e)
  BY DEF TypeOK, Abandon, OthersStay

LEMMA GotoMoves == ASSUME TypeOK, NEW e \in Executions, NEW pc, Goto(e, pc)
                   PROVE  Moves(e, {pc}) /\ OthersStay(e)
  BY DEF TypeOK, ExecState, Goto, Moves, OthersStay

LEMMA StopMoves == ASSUME TypeOK, NEW e \in Executions, NEW flag, Stop(e, flag)
                   PROVE  Moves(e, {"finalize"}) /\ OthersStay(e) /\ flag \in exec'[e].flags
<1>1. exec[e] \in ExecState /\ exec \in [Executions -> ExecState]
  BY DEF TypeOK
<1>2. exec' = [exec EXCEPT ![e] = [exec[e] EXCEPT !.pc = "finalize", !.flags = exec[e].flags \cup {flag}]]
  BY <1>1 DEF Stop, ExecState
<1>3. QED
  BY <1>1, <1>2 DEF ExecState, Moves, OthersStay

LEMMA MovesMore == ASSUME NEW e, NEW pcs, NEW more, Moves(e, pcs), pcs \subseteq more
                   PROVE  Moves(e, more)
  BY DEF Moves

LEMMA BeforeRequestMoves ==
    ASSUME TypeOK, NEW e \in Executions, NEW next, BeforeRequest(e, next)
    PROVE  Moves(e, {"finalize", next}) /\ OthersStay(e)
<1>1. CASE Abandon(e)
  BY <1>1, AbandonMoves DEF Moves
<1>2. CASE Stop(e, "cancelled") \/ Stop(e, "budget") \/ Stop(e, "limit")
  BY <1>2, StopMoves, MovesMore
<1>3. CASE Goto(e, next)
  <2>1. Moves(e, {next}) /\ OthersStay(e)
    BY <1>3, GotoMoves
  <2>2. QED
    BY <2>1 DEF Moves
<1>4. QED
  BY <1>1, <1>2, <1>3 DEF BeforeRequest

LEMMA AskMoves ==
    ASSUME TypeOK, NEW e \in Executions, NEW next, Ask(e, next)
    PROVE  /\ Moves(e, {"finalize", next}) /\ OthersStay(e)
           /\ RunStays
           /\ run' = run \/ Fence(e)
<1>1. CASE Fence(e)
  <2>1. run' = [run EXCEPT !.lease = TRUE] /\ BeforeRequest(e, next)
    BY <1>1 DEF Ask
  <2>2. RunStays
    BY <2>1 DEF TypeOK, RunRow, RunStays
  <2>3. QED
    BY <1>1, <2>1, <2>2, BeforeRequestMoves
<1>2. CASE ~Fence(e)
  BY <1>2, AbandonMoves DEF Ask, Moves, RunStays
<1>3. QED
  BY <1>1, <1>2

LEMMA ChargeStays == ASSUME TypeOK, NEW n, Charge(n)
                     PROVE  RunStays
  BY DEF Charge, TypeOK, RunRow, RunStays

\* Adding URLs: some that are new become due, never more than there is room for;
\* if an execution survives it, all of them are known or the frontier is full.
LEMMA AddUrlsFacts ==
    ASSUME TypeOK, NEW e \in Executions, NEW S \in SUBSET Urls, NEW me \in ExecState,
           AddUrls(e, S, me)
    PROVE  /\ OthersStay(e)
           /\ \/ exec'[e] = Fresh
              \/ /\ exec'[e].pc = me.pc /\ exec'[e].token = me.token /\ exec'[e].item = me.item
                 /\ exec'[e].answer = me.answer /\ exec'[e].plan = me.plan
                 /\ me.flags \subseteq exec'[e].flags
                 /\ Fence(e) => S \subseteq InFrontier' \/ Cardinality(InFrontier') >= MaxFrontier
           /\ ~Fence(e) => frontier' = frontier
           /\ \A u \in Urls : \/ frontier'[u] = frontier[u]
                              \/ frontier[u] = "absent" /\ frontier'[u] = "PENDING"
           /\ Cardinality(InFrontier) <= MaxFrontier => Cardinality(InFrontier') <= MaxFrontier
<1> DEFINE new == {u \in S : frontier[u] = "absent"}
           more(added) == IF new = added THEN {} ELSE {"truncated"}
<1>1. PICK added \in SUBSET new :
          /\ Cardinality(added) <= Room
          /\ frontier' = IF Fence(e)
                           THEN [u \in Urls |-> IF u \in added THEN "PENDING" ELSE frontier[u]]
                           ELSE frontier
          /\ \/ /\ new = added \/ Cardinality(added) = Room
                /\ exec' = [exec EXCEPT ![e] = [me EXCEPT !.flags = @ \cup more(added)]]
             \/ Abandon(e)
  BY DEF AddUrls, Unseen
<1>2. /\ frontier \in [Urls -> {"absent", "PENDING", "FETCHING", "DONE"}]
      /\ exec \in [Executions -> ExecState]
  BY DEF TypeOK
<1>3. /\ IsFiniteSet(InFrontier) /\ IsFiniteSet(added)
      /\ Cardinality(InFrontier) \in Nat /\ Cardinality(added) \in Nat /\ MaxFrontier \in Nat
  <2>1. IsFiniteSet(Urls) /\ InFrontier \subseteq Urls /\ added \subseteq Urls
    BY ExecutorAssumption DEF InFrontier
  <2>2. QED
    BY <2>1, FS_Subset, FS_CardinalityType, ExecutorAssumption
<1>4. Fence(e) => /\ InFrontier' = InFrontier \cup added
                  /\ Cardinality(InFrontier') = Cardinality(InFrontier) + Cardinality(added)
  <2> SUFFICES ASSUME Fence(e)
               PROVE  /\ InFrontier' = InFrontier \cup added
                      /\ Cardinality(InFrontier') = Cardinality(InFrontier) + Cardinality(added)
    OBVIOUS
  <2>1. InFrontier' = InFrontier \cup added
    BY <1>1, <1>2 DEF InFrontier
  <2>2. InFrontier \cap added = {}
    BY DEF InFrontier
  <2>3. QED
    BY <1>3, <2>1, <2>2, FS_Union, FS_EmptySet
<1>5. ~Fence(e) => InFrontier' = InFrontier
  BY <1>1 DEF InFrontier
<1>6. Cardinality(InFrontier) <= MaxFrontier => Cardinality(InFrontier') <= MaxFrontier
  BY <1>1, <1>3, <1>4, <1>5 DEF Room
<1>7. \A u \in Urls : \/ frontier'[u] = frontier[u]
                      \/ frontier[u] = "absent" /\ frontier'[u] = "PENDING"
  BY <1>1, <1>2
<1>8. CASE Abandon(e)
  BY <1>1, <1>6, <1>7, <1>8, AbandonMoves
<1>9. CASE /\ new = added \/ Cardinality(added) = Room
           /\ exec' = [exec EXCEPT ![e] = [me EXCEPT !.flags = @ \cup more(added)]]
  <2>1. Fence(e) => S \subseteq InFrontier' \/ Cardinality(InFrontier') >= MaxFrontier
    <3> SUFFICES ASSUME Fence(e)
                 PROVE  S \subseteq InFrontier' \/ Cardinality(InFrontier') >= MaxFrontier
      OBVIOUS
    <3>1. CASE new = added
      BY <1>4, <3>1 DEF InFrontier
    <3>2. CASE Cardinality(added) = Room
      BY <1>3, <1>4, <3>2 DEF Room
    <3>3. QED
      BY <1>9, <3>1, <3>2
  <2>2. exec'[e] = [me EXCEPT !.flags = @ \cup more(added)] /\ OthersStay(e)
    BY <1>2, <1>9 DEF OthersStay
  <2> HIDE DEF more
  <2>3. /\ exec'[e].pc = me.pc /\ exec'[e].token = me.token /\ exec'[e].item = me.item
        /\ exec'[e].answer = me.answer /\ exec'[e].plan = me.plan
        /\ me.flags \subseteq exec'[e].flags
    BY <2>2 DEF ExecState
  <2>4. QED
    BY <1>1, <1>6, <1>7, <2>1, <2>2, <2>3
<1>10. QED
  BY <1>1, <1>8, <1>9

-----------------------------------------------------------------------------
(* What keeps the invariant. *)

\* An execution keeps to its token and writes only where it is current.
ActsAs(e) == /\ OthersStay(e)
             /\ run'.token = run.token
             /\ run.status # "QUEUED" => run'.status # "QUEUED"
             /\ exec'[e] = Fresh \/ exec'[e].token = exec[e].token
             /\ exec'[e].pc \in Started => exec[e].pc \in Started
             /\ UNCHANGED db \/ Current(e)

\* What is shown of each action of an execution.
Keeps(e) == ActsAs(e) /\ InHand(e)' /\ HolderInv(e)' /\ RunInv'

\* The moves that write nothing, or only the lease and the byte count.
LEMMA MovesActs ==
    ASSUME TypeOK, NEW e \in Executions, NEW pcs, Moves(e, pcs), OthersStay(e), RunStays,
           exec[e].pc \in Started, UNCHANGED db \/ Fence(e)
    PROVE  ActsAs(e)
  BY DEF Moves, ActsAs, RunStays, Fresh, Started, Current, Fence

\* An execution that ended holds nothing.
LEMMA FreshKeeps == ASSUME NEW e \in Executions, exec'[e] = Fresh
                    PROVE  InHand(e)' /\ HolderInv(e)'
<1>1. exec'[e].pc = "off"
  BY DEF Fresh
<1>2. QED
  BY <1>1 DEF InHand, HolderInv, OwnClaim, RetriesUsed, LinksFirst, PageRoom, SavedFirst,
     FlagsTell, Working, Crawling

\* Going to finalize keeps what FlagsTell says.
LEMMA FinalizeKeeps ==
    ASSUME NEW e \in Executions, HolderInv(e), UNCHANGED obs, RunStays,
           exec'[e].pc = "finalize", exec'[e].token = exec[e].token,
           exec[e].flags \subseteq exec'[e].flags,
           \/ exec[e].pc \in Crawling \cup {"finalize"}
           \/ exec[e].pc = "publish" /\ exec[e].plan # "publish"
    PROVE  InHand(e)' /\ HolderInv(e)'
<1>1. FlagsTell(e)'
  <2>1. CanObserve(e)' => CanObserve(e)
    BY DEF CanObserve, Fence, RunStays
  <2>2. CanObserve(e) => Covered(exec[e].flags)
    BY DEF HolderInv, FlagsTell
  <2>3. Covered(exec[e].flags) => Covered(exec[e].flags)'
    BY DEF Covered
  <2>4. QED
    BY <2>1, <2>2 DEF FlagsTell, Covered
<1>2. QED
  BY <1>1 DEF InHand, HolderInv, OwnClaim, RetriesUsed, LinksFirst, PageRoom, SavedFirst,
     Working, Crawling

\* A frontier that only grows keeps what is known of links.
LEMMA GrowthKeepsLinks ==
    ASSUME InFrontier \subseteq InFrontier', InFrontier' \subseteq Urls, NEW u, LinksKnown(u)
    PROVE  LinksKnown(u)'
<1>1. IsFiniteSet(InFrontier')
  BY ExecutorAssumption, FS_Subset
<1>2. /\ Cardinality(InFrontier) <= Cardinality(InFrontier') /\ MaxFrontier \in Nat
      /\ Cardinality(InFrontier) \in Nat /\ Cardinality(InFrontier') \in Nat
  BY <1>1, FS_Subset, FS_CardinalityType, ExecutorAssumption
<1>3. QED
  BY <1>2 DEF LinksKnown

\* No step forgets a URL.
FrontierGrows == /\ InFrontier \subseteq InFrontier' /\ InFrontier' \subseteq Urls
                 /\ Cardinality(InFrontier') <= MaxFrontier

\* What the database says of the crawl stays true while nothing is observed, URLs
\* are only added, what becomes done is observed, and no retry is counted too many.
LEMMA RunInvKept ==
    ASSUME RunInv, UNCHANGED obs, RunStays, FrontierGrows,
           \A u \in Urls : attempts[u] = MaxRetries => attempts'[u] = MaxRetries,
           \A u \in Urls : frontier'[u] = "DONE"
                           => \/ frontier[u] = "DONE" \/ u \in Observed
                              \/ run.status \notin {"QUEUED", "RUNNING"}
    PROVE  RunInv'
<1> USE DEF RunInv
<1>1. Observed' = Observed
  BY DEF Observed
<1>2. FrozenClean' /\ FullIsCompleted'
  BY DEF FrozenClean, FullIsCompleted, Clean, AnyHttp, RunStays
<1>3. DoneMeansObserved'
  BY <1>1 DEF DoneMeansObserved, RunStays
<1>4. GivenUpAfterRetries'
  BY DEF GivenUpAfterRetries
<1>5. LinksBeforeObservation'
  <2>1. ASSUME NEW u \in Urls, obs'[u] = "html"
        PROVE  LinksKnown(u)'
    <3>1. LinksKnown(u)
      BY <2>1 DEF LinksBeforeObservation, LinksKnown
    <3>2. QED
      BY <3>1, GrowthKeepsLinks DEF FrontierGrows
  <2>2. QED
    BY <2>1 DEF LinksBeforeObservation, LinksKnown
<1>6. BudgetsHold'
  BY <1>1 DEF BudgetsHold, FrontierGrows
<1>7. QED
  BY <1>2, <1>3, <1>4, <1>5, <1>6

LEMMA FrontierStays == ASSUME RunInv, UNCHANGED frontier
                       PROVE  FrontierGrows
  BY DEF FrontierGrows, InFrontier, RunInv, BudgetsHold

\* The move of an execution that writes nothing of the crawl, to where nothing
\* more is asked of it than where it was.
LEMMA QuietKeeps ==
    ASSUME TypeOK, RunInv, NEW e \in Executions, NEW pcs, Moves(e, pcs), OthersStay(e), RunStays,
           exec[e].pc \in Started, UNCHANGED db \/ Fence(e), UNCHANGED <<frontier, attempts, obs>>,
           exec'[e] # Fresh => InHand(e)' /\ HolderInv(e)'
    PROVE  Keeps(e)
  BY MovesActs, FreshKeeps, RunInvKept, FrontierStays DEF Keeps

\* An execution that moves keeps to what it found if nobody else writes.
LEMMA SamePlaceKeeps ==
    ASSUME NEW e \in Executions, HolderInv(e), InHand(e), RunStays,
           UNCHANGED <<frontier, attempts, obs>>,
           exec'[e] # Fresh, NEW pcs, Moves(e, pcs),
           \/ pcs = {"finalize", "rules"} /\ exec[e].pc = "robots"
           \/ pcs = {"finalize", "lists"} /\ exec[e].pc = "sitemap"
           \/ pcs = {"finalize", "wire"} /\ exec[e].pc = "fetch"
    PROVE  InHand(e)' /\ HolderInv(e)'
<1>1. CASE exec'[e].pc = "finalize"
  <2>1. exec[e].pc \in Crawling
    BY DEF Crawling, Working
  <2>2. QED
    BY <1>1, <2>1, FinalizeKeeps DEF Moves
<1>2. CASE exec'[e].pc # "finalize"
  <2>1. /\ exec'[e].token = exec[e].token /\ exec'[e].item = exec[e].item
        /\ exec[e].flags \subseteq exec'[e].flags
    BY DEF Moves
  <2>2. /\ exec'[e].pc \in {"rules", "lists", "wire"}
        /\ exec'[e].pc = "wire" => exec[e].pc = "fetch"
        /\ exec'[e].pc # "wire" => exec[e].pc \notin Working
        /\ exec[e].pc \in Crawling
    BY <1>2 DEF Moves, Crawling, Working
  <2>3. (Fence(e)' <=> Fence(e)) /\ (CanObserve(e)' <=> CanObserve(e))
    BY <2>1 DEF Fence, CanObserve, RunStays
  <2>4. InHand(e)'
    BY <2>1, <2>2 DEF InHand, Working
  <2>5. OwnClaim(e)'
    BY <2>1, <2>2, <2>3 DEF HolderInv, OwnClaim, Working
  <2>6. PageRoom(e)'
    BY <2>2, <2>3 DEF HolderInv, PageRoom, Working, Observed
  <2>7. FlagsTell(e)'
    BY <2>1, <2>2, <2>3 DEF HolderInv, FlagsTell, Covered
  <2>8. QED
    BY <2>2, <2>4, <2>5, <2>6, <2>7 DEF HolderInv, RetriesUsed, LinksFirst, SavedFirst
<1>3. QED
  BY <1>1, <1>2

-----------------------------------------------------------------------------
(* Each action of an execution keeps the invariant. *)

LEMMA AskKeeps == ASSUME IInv, NEW e \in Executions, AskRobots(e) \/ AskSitemap(e)
                  PROVE  Keeps(e)
<1>1. TypeOK /\ RunInv /\ InHand(e) /\ HolderInv(e)
  BY DEF IInv
<1>2. PICK next \in {"rules", "lists"} :
        /\ Ask(e, next)
        /\ next = "rules" => exec[e].pc = "robots"
        /\ next = "lists" => exec[e].pc = "sitemap"
        /\ UNCHANGED <<frontier, attempts, obs>>
  BY DEF AskRobots, AskSitemap, At
<1>3. /\ Moves(e, {"finalize", next}) /\ OthersStay(e) /\ RunStays
      /\ UNCHANGED db \/ Fence(e)
  BY <1>1, <1>2, AskMoves DEF db
<1>4. exec'[e] # Fresh => InHand(e)' /\ HolderInv(e)'
  BY <1>1, <1>2, <1>3, SamePlaceKeeps
<1>5. exec[e].pc \in Started
  BY <1>2 DEF Started, Pcs
<1>6. QED
  BY <1>1, <1>2, <1>3, <1>4, <1>5, QuietKeeps

LEMMA FetchKeeps == ASSUME IInv, NEW e \in Executions, Fetch(e)
                    PROVE  Keeps(e)
<1>1. TypeOK /\ RunInv /\ InHand(e) /\ HolderInv(e)
  BY DEF IInv
<1>2. exec[e].pc = "fetch" /\ UNCHANGED <<run, frontier, attempts, obs>> /\ RunStays
  BY DEF Fetch, At, db, RunStays
<1>3. exec[e].pc \in Started
  BY <1>2 DEF Started, Pcs
<1>4. CASE BeforeRequest(e, "wire")
  <2>1. Moves(e, {"finalize", "wire"}) /\ OthersStay(e)
    BY <1>1, <1>4, BeforeRequestMoves
  <2>2. exec'[e] # Fresh => InHand(e)' /\ HolderInv(e)'
    BY <1>1, <1>2, <2>1, SamePlaceKeeps
  <2>3. QED
    BY <1>1, <1>2, <1>3, <2>1, <2>2, QuietKeeps DEF db
<1>5. CASE exec' = [exec EXCEPT ![e].pc = "save", ![e].answer = "robots"]
  <2>1. /\ exec'[e].pc = "save" /\ exec'[e].answer = "robots"
        /\ exec'[e].token = exec[e].token /\ exec'[e].item = exec[e].item
        /\ exec'[e].flags = exec[e].flags /\ OthersStay(e)
    BY <1>1, <1>5 DEF TypeOK, ExecState, OthersStay
  <2>2. (Fence(e)' <=> Fence(e)) /\ (CanObserve(e)' <=> CanObserve(e))
    BY <1>2, <2>1 DEF Fence, CanObserve
  <2>3. InHand(e)'
    BY <1>1, <1>2, <2>1 DEF InHand, Working, Unrecovered
  <2>4. OwnClaim(e)' /\ PageRoom(e)' /\ FlagsTell(e)'
    BY <1>1, <1>2, <2>1, <2>2
    DEF HolderInv, OwnClaim, PageRoom, FlagsTell, Covered, Observed, Working, Crawling
  <2>5. HolderInv(e)'
    BY <2>1, <2>4 DEF HolderInv, RetriesUsed, LinksFirst, SavedFirst
  <2>6. ActsAs(e)
    BY <1>2, <1>3, <2>1 DEF ActsAs, db
  <2>7. RunInv'
    BY <1>1, <1>2, RunInvKept, FrontierStays
  <2>8. QED
    BY <2>3, <2>5, <2>6, <2>7 DEF Keeps
<1>6. QED
  BY <1>4, <1>5 DEF Fetch

\* URLs are added where nothing depends on which are known already, or, for the
\* links of a page, all of them before it is saved.
LEMMA AddUrlsKeeps ==
    ASSUME IInv, NEW e \in Executions, NEW S \in SUBSET Urls, NEW me \in ExecState,
           AddUrls(e, S, me), UNCHANGED <<attempts, obs>>, RunStays, UNCHANGED run \/ Fence(e),
           me.token = exec[e].token, me.item = exec[e].item, me.answer = exec[e].answer,
           exec[e].flags \subseteq me.flags,
           \/ exec[e].pc = "rules" /\ me.pc = "sitemap"
           \/ exec[e].pc = "lists" /\ me.pc = "loop"
           \/ exec[e].pc = "links" /\ me.pc = "save" /\ S = Links[exec[e].item]
           \/ exec[e].pc = "target" /\ me.pc = "done"
    PROVE  Keeps(e)
<1>1. TypeOK /\ RunInv /\ InHand(e) /\ HolderInv(e)
  BY DEF IInv
<1>2. exec[e].pc \in Started /\ exec[e].pc \in Crawling
  BY DEF Started, Pcs, Crawling, Working
<1>3. /\ OthersStay(e)
      /\ \/ exec'[e] = Fresh
         \/ /\ exec'[e].pc = me.pc /\ exec'[e].token = me.token /\ exec'[e].item = me.item
            /\ exec'[e].answer = me.answer /\ me.flags \subseteq exec'[e].flags
            /\ Fence(e) => S \subseteq InFrontier' \/ Cardinality(InFrontier') >= MaxFrontier
      /\ ~Fence(e) => frontier' = frontier
      /\ \A u \in Urls : \/ frontier'[u] = frontier[u]
                         \/ frontier[u] = "absent" /\ frontier'[u] = "PENDING"
      /\ Cardinality(InFrontier) <= MaxFrontier => Cardinality(InFrontier') <= MaxFrontier
  BY <1>1, AddUrlsFacts
<1>4. RunInv'
  <2>1. FrontierGrows
    BY <1>1, <1>3 DEF FrontierGrows, InFrontier, RunInv, BudgetsHold
  <2>2. QED
    BY <1>1, <1>3, <2>1, RunInvKept
<1>5. ActsAs(e)
  BY <1>2, <1>3 DEF ActsAs, Fresh, Started, db, RunStays, Current, Fence
<1>6. CASE exec'[e] = Fresh
  BY <1>4, <1>5, <1>6, FreshKeeps DEF Keeps
<1>7. CASE exec'[e] # Fresh
  <2>1. /\ exec'[e].pc = me.pc /\ exec'[e].token = exec[e].token /\ exec'[e].item = exec[e].item
        /\ exec'[e].answer = exec[e].answer /\ exec[e].flags \subseteq exec'[e].flags
        /\ Fence(e) => S \subseteq InFrontier' \/ Cardinality(InFrontier') >= MaxFrontier
    BY <1>3, <1>7
  <2>2. (Fence(e)' <=> Fence(e)) /\ (CanObserve(e)' <=> CanObserve(e))
    BY <2>1 DEF Fence, CanObserve, RunStays
  <2>3. InHand(e)'
    BY <1>1, <2>1 DEF InHand, Working, Unrecovered
  <2>4. OwnClaim(e)'
    BY <1>1, <1>2, <1>3, <2>1, <2>2 DEF HolderInv, OwnClaim, Working
  <2>5. RetriesUsed(e)' /\ LinksFirst(e)'
    BY <1>1, <2>1, <2>2 DEF InHand, RetriesUsed, LinksFirst, LinksKnown
  <2>6. PageRoom(e)' /\ SavedFirst(e)'
    BY <1>1, <2>1, <2>2 DEF HolderInv, PageRoom, SavedFirst, Observed, Working
  <2>7. FlagsTell(e)'
    BY <1>1, <1>2, <2>1, <2>2 DEF HolderInv, FlagsTell, Covered
  <2>8. QED
    BY <1>4, <1>5, <2>3, <2>4, <2>5, <2>6, <2>7 DEF Keeps, HolderInv
<1>8. QED
  BY <1>6, <1>7

LEMMA LinksAndTargetKeep ==
    ASSUME IInv, NEW e \in Executions, AddLinks(e) \/ AddTarget(e)
    PROVE  Keeps(e)
<1>1. TypeOK /\ InHand(e) /\ "save" \in Pcs /\ "done" \in Pcs /\ {} \in SUBSET Flags
  BY DEF IInv, Pcs
<1>2. exec[e].item \in Urls /\ UNCHANGED run /\ RunStays /\ UNCHANGED <<attempts, obs>>
  BY <1>1 DEF AddLinks, AddTarget, At, InHand, Working, RunStays
<1>3. Links[exec[e].item] \in SUBSET Urls /\ {Target[exec[e].item]} \in SUBSET Urls
  BY <1>2, ExecutorAssumption
<1>4. CASE AddLinks(e)
  <2>1. AddUrls(e, Links[exec[e].item], Answered(e, 0, {}, "save")) /\ exec[e].pc = "links"
    BY <1>4 DEF AddLinks, At
  <2> DEFINE me == Answered(e, 0, {}, "save")
  <2>2. /\ me \in ExecState /\ me.pc = "save" /\ me.token = exec[e].token
        /\ me.item = exec[e].item /\ me.answer = exec[e].answer /\ exec[e].flags \subseteq me.flags
    BY <1>1, AnsweredType, AnsweredFields
  <2> HIDE DEF me
  <2>3. AddUrls(e, Links[exec[e].item], me)
    BY <2>1 DEF me
  <2>4. QED
    BY <1>2, <1>3, <2>1, <2>2, <2>3, AddUrlsKeeps
<1>5. CASE AddTarget(e)
  <2>1. AddUrls(e, {Target[exec[e].item]}, Answered(e, 0, {}, "done")) /\ exec[e].pc = "target"
    BY <1>5 DEF AddTarget, At
  <2> DEFINE me == Answered(e, 0, {}, "done")
  <2>2. /\ me \in ExecState /\ me.pc = "done" /\ me.token = exec[e].token
        /\ me.item = exec[e].item /\ me.answer = exec[e].answer /\ exec[e].flags \subseteq me.flags
    BY <1>1, AnsweredType, AnsweredFields
  <2> HIDE DEF me
  <2>3. AddUrls(e, {Target[exec[e].item]}, me)
    BY <2>1 DEF me
  <2>4. QED
    BY <1>2, <1>3, <2>1, <2>2, <2>3, AddUrlsKeeps
<1>6. QED
  BY <1>4, <1>5

LEMMA SeedsKeep ==
    ASSUME IInv, NEW e \in Executions, RobotsAnswers(e) \/ SitemapAnswers(e)
    PROVE  Keeps(e)
<1>1. TypeOK /\ RunInv /\ HolderInv(e) /\ InHand(e)
  BY DEF IInv
<1>2. UNCHANGED <<attempts, obs>> /\ exec[e].pc \in {"rules", "lists"}
  BY DEF RobotsAnswers, SitemapAnswers, At
<1>3. exec[e].pc \in Started /\ exec[e].pc \in Crawling
  BY <1>2 DEF Started, Pcs, Crawling
<1>4. CASE Abandon(e) /\ UNCHANGED <<run, frontier>>
  <2>1. exec'[e] = Fresh /\ OthersStay(e)
    BY <1>1, <1>4, AbandonMoves
  <2>2. QED
    BY <1>1, <1>2, <1>3, <1>4, <2>1, QuietKeeps DEF Moves, RunStays, db
<1>5. CASE /\ Fence(e) /\ exec[e].pc = "rules" /\ UNCHANGED frontier
           /\ \E n \in 0..1 : /\ Charge(n)
                              /\ exec' = [exec EXCEPT ![e] = Answered(e, n, {"forced"}, "finalize")]
  <2>1. PICK n \in 0..1 : /\ Charge(n)
                          /\ exec' = [exec EXCEPT ![e] = Answered(e, n, {"forced"}, "finalize")]
    BY <1>5
  <2>2. n \in Nat /\ {"forced"} \in SUBSET Flags /\ "finalize" \in Pcs
    BY DEF Flags, Pcs
  <2>3. exec'[e] = Answered(e, n, {"forced"}, "finalize") /\ OthersStay(e) /\ RunStays
    BY <1>1, <2>1, ChargeStays DEF TypeOK, OthersStay
  <2>4. /\ exec'[e].pc = "finalize" /\ exec'[e].token = exec[e].token
        /\ exec[e].flags \subseteq exec'[e].flags /\ Moves(e, {"finalize"})
    BY <1>1, <2>2, <2>3, AnsweredFields DEF Moves
  <2>5. InHand(e)' /\ HolderInv(e)'
    BY <1>1, <1>2, <1>3, <2>3, <2>4, FinalizeKeeps
  <2>6. QED
    BY <1>1, <1>2, <1>3, <1>5, <2>3, <2>4, <2>5, QuietKeeps
<1>6. CASE /\ Fence(e) /\ exec[e].pc = "rules"
           /\ \E n \in 0..1 : Charge(n) /\ AddUrls(e, Seeds, Answered(e, n, {}, "sitemap"))
  <2>1. PICK n \in 0..1 : Charge(n) /\ AddUrls(e, Seeds, Answered(e, n, {}, "sitemap"))
    BY <1>6
  <2>2. n \in Nat /\ {} \in SUBSET Flags /\ "sitemap" \in Pcs /\ Seeds \in SUBSET Urls /\ RunStays
    BY <1>1, <2>1, ExecutorAssumption, ChargeStays DEF Pcs
  <2> DEFINE me == Answered(e, n, {}, "sitemap")
  <2>3. /\ me \in ExecState /\ me.pc = "sitemap" /\ me.token = exec[e].token
        /\ me.item = exec[e].item /\ me.answer = exec[e].answer /\ exec[e].flags \subseteq me.flags
    BY <1>1, <2>2, AnsweredType, AnsweredFields
  <2> HIDE DEF me
  <2>4. AddUrls(e, Seeds, me)
    BY <2>1 DEF me
  <2>5. QED
    BY <1>2, <1>6, <2>2, <2>3, <2>4, AddUrlsKeeps
<1>7. CASE /\ Fence(e) /\ exec[e].pc = "lists"
           /\ \E listed \in {{}, SitemapUrls}, n \in 0..1, seen \in {{}, {"limit"}} :
                Charge(n) /\ AddUrls(e, listed, Answered(e, n, seen, "loop"))
  <2>1. PICK listed \in {{}, SitemapUrls}, n \in 0..1, seen \in {{}, {"limit"}} :
                Charge(n) /\ AddUrls(e, listed, Answered(e, n, seen, "loop"))
    BY <1>7
  <2>2. listed \in SUBSET Urls /\ RunStays
    BY <1>1, <2>1, ExecutorAssumption, ChargeStays
  <2>3. n \in Nat /\ seen \in SUBSET Flags /\ "loop" \in Pcs
    BY DEF Pcs, Flags
  <2> DEFINE me == Answered(e, n, seen, "loop")
  <2>4. /\ me \in ExecState /\ me.pc = "loop" /\ me.token = exec[e].token
        /\ me.item = exec[e].item /\ me.answer = exec[e].answer /\ exec[e].flags \subseteq me.flags
    BY <1>1, <2>3, AnsweredType, AnsweredFields
  <2> HIDE DEF me
  <2>5. AddUrls(e, listed, me)
    BY <2>1 DEF me
  <2>6. QED
    BY <1>2, <1>7, <2>2, <2>4, <2>5, AddUrlsKeeps
<1>8. QED
  BY <1>4, <1>5, <1>6, <1>7 DEF RobotsAnswers, SitemapAnswers, At

LEMMA LoopKeeps == ASSUME IInv, NEW e \in Executions, Loop(e)
                   PROVE  Keeps(e)
<1>1. TypeOK /\ RunInv /\ InHand(e) /\ HolderInv(e)
  BY DEF IInv
<1>2. exec[e].pc = "loop" /\ UNCHANGED <<attempts, obs>>
  BY DEF Loop, At
<1>3. exec[e].pc \in Started /\ exec[e].pc \in Crawling
  BY <1>2 DEF Started, Pcs, Crawling
<1>4. CASE /\ Goto(e, "finalize") \/ Stop(e, "limit") \/ Stop(e, "budget") \/ Stop(e, "cancelled")
                \/ Abandon(e)
           /\ UNCHANGED <<run, frontier>>
  <2>1. CASE Abandon(e)
    <3>1. exec'[e] = Fresh /\ OthersStay(e)
      BY <1>1, <2>1, AbandonMoves
    <3>2. QED
      BY <1>1, <1>2, <1>3, <1>4, <3>1, QuietKeeps DEF Moves, RunStays, db
  <2>2. CASE Goto(e, "finalize") \/ Stop(e, "limit") \/ Stop(e, "budget") \/ Stop(e, "cancelled")
    <3>1. Moves(e, {"finalize"}) /\ OthersStay(e)
      BY <1>1, <2>2, GotoMoves, StopMoves
    <3>2. exec'[e] # Fresh => InHand(e)' /\ HolderInv(e)'
      BY <1>1, <1>2, <1>3, <1>4, <3>1, FinalizeKeeps DEF Moves, RunStays
    <3>3. QED
      BY <1>1, <1>2, <1>3, <1>4, <3>1, <3>2, QuietKeeps DEF RunStays, db
  <2>3. QED
    BY <1>4, <2>1, <2>2
<1>5. CASE /\ Fence(e) /\ ~PagesUsedUp /\ run' = [run EXCEPT !.lease = TRUE]
           /\ \E u \in Urls : /\ frontier[u] = "PENDING"
                              /\ frontier' = [frontier EXCEPT ![u] = "FETCHING"]
                              /\ exec' = [exec EXCEPT ![e].pc = "fetch", ![e].item = u]
  <2>1. PICK u \in Urls : /\ frontier[u] = "PENDING"
                          /\ frontier' = [frontier EXCEPT ![u] = "FETCHING"]
                          /\ exec' = [exec EXCEPT ![e].pc = "fetch", ![e].item = u]
    BY <1>5
  <2>2. /\ exec'[e].pc = "fetch" /\ exec'[e].item = u /\ exec'[e].token = exec[e].token
        /\ exec'[e].flags = exec[e].flags /\ OthersStay(e)
    BY <1>1, <2>1 DEF TypeOK, ExecState, OthersStay
  <2>3. RunStays
    BY <1>1, <1>5 DEF TypeOK, RunRow, RunStays
  <2>4. (Fence(e)' <=> Fence(e)) /\ (CanObserve(e)' <=> CanObserve(e))
    BY <2>2, <2>3 DEF Fence, CanObserve, RunStays
  <2>5. InHand(e)'
    BY <2>2 DEF InHand
  <2>6. OwnClaim(e)'
    <3>1. \A v \in Urls : frontier[v] # "FETCHING"
      BY <1>1, <1>2, <1>5 DEF HolderInv, OwnClaim, Crawling, Working
    <3>2. \A v \in Urls : frontier'[v] = "FETCHING" <=> v = u
      BY <1>1, <2>1, <3>1 DEF TypeOK
    <3>3. QED
      BY <2>2, <3>2 DEF OwnClaim, Working
  <2>7. PageRoom(e)'
    <3>1. Observed' = Observed /\ IsFiniteSet(Observed)
      BY <1>2, ExecutorAssumption, FS_Subset DEF Observed
    <3>2. Cardinality(Observed) < MaxPages
      BY <1>5, <3>1, FS_CardinalityType, ExecutorAssumption DEF PagesUsedUp
    <3>3. QED
      BY <3>1, <3>2 DEF PageRoom
  <2>8. FlagsTell(e)'
    BY <1>1, <1>2, <1>3, <2>2, <2>4 DEF HolderInv, FlagsTell, Covered
  <2>9. HolderInv(e)'
    BY <2>2, <2>6, <2>7, <2>8 DEF HolderInv, RetriesUsed, LinksFirst, SavedFirst
  <2>10. ActsAs(e)
    BY <1>3, <1>5, <2>2, <2>3 DEF ActsAs, RunStays, Current, Fence
  <2>11. RunInv'
    <3>1. InFrontier' = InFrontier /\ FrontierGrows
      BY <1>1, <2>1 DEF TypeOK, InFrontier, FrontierGrows, RunInv, BudgetsHold
    <3>2. \A v \in Urls : frontier'[v] = "DONE" => frontier[v] = "DONE"
      BY <1>1, <2>1 DEF TypeOK
    <3>3. QED
      BY <1>1, <1>2, <2>3, <3>1, <3>2, RunInvKept
  <2>12. QED
    BY <2>5, <2>9, <2>10, <2>11 DEF Keeps
<1>6. QED
  BY <1>4, <1>5 DEF Loop

LEMMA PageAnswersKeeps == ASSUME IInv, NEW e \in Executions, PageAnswers(e)
                          PROVE  Keeps(e)
<1>1. TypeOK /\ RunInv /\ InHand(e) /\ HolderInv(e)
  BY DEF IInv
<1>2. exec[e].pc = "wire" /\ UNCHANGED <<frontier, attempts, obs>>
  BY DEF PageAnswers, At
<1>3. exec[e].pc \in Started /\ exec[e].pc \in Crawling
  BY <1>2 DEF Started, Pcs, Crawling, Working
<1>4. CASE Abandon(e) /\ UNCHANGED run
  <2>1. exec'[e] = Fresh /\ OthersStay(e)
    BY <1>1, <1>4, AbandonMoves
  <2>2. QED
    BY <1>1, <1>2, <1>3, <1>4, <2>1, QuietKeeps DEF Moves, RunStays, db
<1>5. ASSUME Fence(e), NEW a \in Answers, NEW n \in Sizes(a), Charge(n),
             exec' = [exec EXCEPT
               ![e] = [Answered(e, n, SeenIn(a), AfterAnswer(a)) EXCEPT !.answer = a]]
      PROVE  Keeps(e)
  <2> DEFINE me == Answered(e, n, SeenIn(a), AfterAnswer(a))
  <2>1. n \in Nat /\ SeenIn(a) \in SUBSET Flags /\ AfterAnswer(a) \in Pcs
    BY DEF Sizes, SeenIn, AfterAnswer, Flags, Pcs
  <2>2. /\ me \in ExecState /\ me.pc = AfterAnswer(a) /\ me.token = exec[e].token
        /\ me.item = exec[e].item /\ me.flags = exec[e].flags \cup SeenIn(a)
    BY <1>1, <2>1, AnsweredType, AnsweredFields
  <2>3. exec'[e] = [me EXCEPT !.answer = a] /\ OthersStay(e) /\ RunStays
    BY <1>1, <1>5, ChargeStays DEF TypeOK, OthersStay
  <2> HIDE DEF me
  <2>4. /\ exec'[e].pc = AfterAnswer(a) /\ exec'[e].answer = a /\ exec'[e].token = exec[e].token
        /\ exec'[e].item = exec[e].item /\ exec'[e].flags = exec[e].flags \cup SeenIn(a)
    BY <2>2, <2>3 DEF ExecState
  <2>5. /\ exec'[e].pc \in {"retry", "links", "save"}
        /\ a = "network" <=> exec'[e].pc = "retry"
        /\ a = "html" <=> exec'[e].pc = "links"
    BY <2>4 DEF AfterAnswer
  <2>6. (Fence(e)' <=> Fence(e)) /\ (CanObserve(e)' <=> CanObserve(e))
    BY <2>3, <2>4 DEF Fence, CanObserve, RunStays
  <2>7. InHand(e)'
    <3>1. a # "none"
      BY ExecutorAssumption
    <3>2. /\ a = "security" => "security" \in exec'[e].flags
          /\ a \in Unrecovered /\ a # "network" => "unrecovered" \in exec'[e].flags
      BY <2>4 DEF SeenIn, Unrecovered
    <3>3. exec[e].item \in Urls
      BY <1>1, <1>2 DEF InHand, Working
    <3>4. QED
      BY <2>4, <2>5, <3>1, <3>2, <3>3 DEF InHand
  <2>8. OwnClaim(e)' /\ PageRoom(e)' /\ FlagsTell(e)'
    <3>1. OwnClaim(e)'
      BY <1>1, <1>2, <1>3, <2>4, <2>5, <2>6 DEF HolderInv, OwnClaim, Working
    <3>2. PageRoom(e)'
      BY <1>1, <1>2, <2>5, <2>6 DEF HolderInv, PageRoom, Observed, Working
    <3>3. FlagsTell(e)'
      BY <1>1, <1>2, <1>3, <2>4, <2>6 DEF HolderInv, FlagsTell, Covered
    <3>4. QED
      BY <3>1, <3>2, <3>3
  <2>9. HolderInv(e)'
    BY <2>4, <2>5, <2>8 DEF HolderInv, RetriesUsed, LinksFirst, SavedFirst
  <2>10. ActsAs(e)
    BY <1>3, <1>5, <2>3, <2>4 DEF ActsAs, RunStays, Current, Fence
  <2>11. RunInv'
    BY <1>1, <1>2, <2>3, RunInvKept, FrontierStays
  <2>12. QED
    BY <2>7, <2>9, <2>10, <2>11 DEF Keeps
<1>6. QED
  BY <1>4, <1>5 DEF PageAnswers

LEMMA RetryKeeps == ASSUME IInv, NEW e \in Executions, Retry(e)
                    PROVE  Keeps(e)
<1> DEFINE u == exec[e].item
<1>1. TypeOK /\ RunInv /\ InHand(e) /\ HolderInv(e)
  BY DEF IInv
<1>2. exec[e].pc = "retry" /\ UNCHANGED <<run, obs>> /\ RunStays /\ u \in Urls
  BY <1>1 DEF Retry, At, RunStays, InHand, Working
<1>3. exec[e].pc \in Started /\ exec[e].pc \in Crawling /\ exec[e].answer = "network"
  BY <1>1, <1>2 DEF Started, Pcs, Crawling, Working, InHand
<1>4. CASE MayRetry(attempts[u])
  <2>1. /\ exec' = [exec EXCEPT ![e].pc = "loop", ![e].item = NoUrl, ![e].answer = "none"]
        /\ \/ /\ Fence(e)
              /\ frontier' = [frontier EXCEPT ![u] = "PENDING"]
              /\ attempts' = [attempts EXCEPT ![u] = Counted(@)]
           \/ ~Fence(e) /\ UNCHANGED <<frontier, attempts>>
    BY <1>4 DEF Retry
  <2>2. /\ exec'[e].pc = "loop" /\ exec'[e].token = exec[e].token
        /\ exec'[e].flags = exec[e].flags /\ OthersStay(e)
    BY <1>1, <2>1 DEF TypeOK, ExecState, OthersStay
  <2>3. (Fence(e)' <=> Fence(e)) /\ (CanObserve(e)' <=> CanObserve(e))
    BY <1>2, <2>2 DEF Fence, CanObserve
  <2>4. OwnClaim(e)'
    <3>1. Fence(e) => \A v \in Urls : frontier[v] = "FETCHING" => v = u
      BY <1>1, <1>2, <1>3 DEF HolderInv, OwnClaim
    <3>2. Fence(e) => \A v \in Urls : frontier'[v] # "FETCHING"
      BY <1>1, <1>2, <2>1, <3>1 DEF TypeOK
    <3>3. QED
      BY <2>2, <2>3, <3>2 DEF OwnClaim, Working
  <2>5. FlagsTell(e)'
    BY <1>1, <1>2, <1>3, <2>2, <2>3 DEF HolderInv, FlagsTell, Covered
  <2>6. InHand(e)' /\ HolderInv(e)'
    BY <2>2, <2>4, <2>5
    DEF InHand, HolderInv, RetriesUsed, LinksFirst, PageRoom, SavedFirst, Working
  <2>7. ActsAs(e)
    BY <1>2, <1>3, <2>1, <2>2 DEF ActsAs, db, Current, Fence
  <2>8. RunInv'
    <3>1. \A v \in Urls : attempts[v] = MaxRetries => attempts'[v] = MaxRetries
      <4>1. attempts[u] # MaxRetries
        BY <1>1, <1>2, <1>4, ExecutorAssumption DEF MayRetry, TypeOK
      <4>2. \A v \in Urls : v # u => attempts'[v] = attempts[v]
        BY <1>1, <2>1 DEF TypeOK
      <4>3. QED
        BY <1>2, <4>1, <4>2
    <3>2. Fence(e) => frontier[u] = "FETCHING"
      BY <1>1, <1>2, <1>3 DEF HolderInv, OwnClaim, Working
    <3>3. InFrontier' = InFrontier /\ \A v \in Urls : frontier'[v] = "DONE" => frontier[v] = "DONE"
      BY <1>1, <1>2, <2>1, <3>2 DEF TypeOK, InFrontier
    <3>4. FrontierGrows
      BY <1>1, <3>3 DEF FrontierGrows, RunInv, BudgetsHold, InFrontier
    <3>5. QED
      BY <1>1, <1>2, <3>1, <3>3, <3>4, RunInvKept
  <2>9. QED
    BY <2>6, <2>7, <2>8 DEF Keeps
<1>5. CASE ~MayRetry(attempts[u])
  <2>1. /\ exec' = [exec EXCEPT ![e].pc = "save", ![e].flags = @ \cup {"unrecovered"}]
        /\ UNCHANGED <<frontier, attempts>>
    BY <1>5 DEF Retry
  <2>2. /\ exec'[e].pc = "save" /\ exec'[e].token = exec[e].token
        /\ exec'[e].item = u /\ exec'[e].answer = "network"
        /\ exec'[e].flags = exec[e].flags \cup {"unrecovered"} /\ OthersStay(e)
    BY <1>1, <1>3, <2>1 DEF TypeOK, ExecState, OthersStay
  <2>3. (Fence(e)' <=> Fence(e)) /\ (CanObserve(e)' <=> CanObserve(e))
    BY <1>2, <2>2 DEF Fence, CanObserve
  <2>4. InHand(e)'
    BY <1>2, <2>2 DEF InHand
  <2>5. RetriesUsed(e)'
    <3>1. attempts[u] = MaxRetries
      BY <1>1, <1>2, <1>5, ExecutorAssumption DEF MayRetry, TypeOK
    <3>2. QED
      BY <2>1, <2>2, <3>1 DEF RetriesUsed
  <2>6. OwnClaim(e)' /\ PageRoom(e)' /\ FlagsTell(e)'
    <3>1. OwnClaim(e)'
      BY <1>1, <1>2, <1>3, <2>1, <2>2, <2>3 DEF HolderInv, OwnClaim, Working
    <3>2. PageRoom(e)'
      BY <1>1, <1>2, <2>2, <2>3 DEF HolderInv, PageRoom, Observed, Working
    <3>3. FlagsTell(e)'
      BY <1>1, <1>2, <1>3, <2>2, <2>3 DEF HolderInv, FlagsTell, Covered
    <3>4. QED
      BY <3>1, <3>2, <3>3
  <2>7. HolderInv(e)'
    BY <2>2, <2>5, <2>6 DEF HolderInv, LinksFirst, SavedFirst
  <2>8. ActsAs(e)
    BY <1>2, <1>3, <2>1, <2>2 DEF ActsAs, db
  <2>9. RunInv'
    BY <1>1, <1>2, <2>1, RunInvKept, FrontierStays
  <2>10. QED
    BY <2>4, <2>7, <2>8, <2>9 DEF Keeps
<1>6. QED
  BY <1>4, <1>5

LEMMA SaveKeeps == ASSUME IInv, NEW e \in Executions, Save(e)
                   PROVE  Keeps(e)
<1> DEFINE u == exec[e].item
<1>1. TypeOK /\ RunInv /\ InHand(e) /\ HolderInv(e)
  BY DEF IInv
<1>2. /\ exec[e].pc = "save" /\ UNCHANGED <<run, frontier, attempts>> /\ RunStays
      /\ u \in Urls /\ exec[e].answer # "none"
  BY <1>1 DEF Save, At, RunStays, InHand, Working
<1>3. exec[e].pc \in Started /\ exec[e].pc \in Crawling
  BY <1>2 DEF Started, Pcs, Crawling, Working
<1>4. /\ exec'[e].pc \in {"target", "done"} /\ exec'[e].token = exec[e].token
      /\ exec'[e].item = u /\ exec'[e].answer = exec[e].answer
      /\ exec'[e].flags = exec[e].flags /\ OthersStay(e)
  BY <1>1 DEF Save, Goto, TypeOK, ExecState, OthersStay
<1>5. (Fence(e)' <=> Fence(e)) /\ (CanObserve(e)' <=> CanObserve(e))
  BY <1>2, <1>4 DEF Fence, CanObserve
<1>6. InHand(e)'
  BY <1>1, <1>2, <1>4 DEF InHand
<1>7. OwnClaim(e)'
  BY <1>1, <1>2, <1>3, <1>4, <1>5 DEF HolderInv, OwnClaim, Working
<1>8. CASE UNCHANGED obs
  <2>1. SavedFirst(e)'
    <3>1. CanObserve(e) => obs[u] # "none"
      BY <1>1, <1>2, <1>8 DEF Save, TypeOK
    <3>2. QED
      BY <1>2, <1>4, <1>5, <1>8, <3>1 DEF SavedFirst, Observed
  <2>2. FlagsTell(e)'
    BY <1>1, <1>3, <1>4, <1>5, <1>8 DEF HolderInv, FlagsTell, Covered
  <2>3. HolderInv(e)'
    BY <1>4, <1>7, <2>1, <2>2 DEF HolderInv, RetriesUsed, LinksFirst, PageRoom
  <2>4. ActsAs(e)
    BY <1>2, <1>3, <1>4, <1>8 DEF ActsAs, db
  <2>5. RunInv'
    BY <1>1, <1>2, <1>8, RunInvKept, FrontierStays
  <2>6. QED
    BY <1>6, <2>3, <2>4, <2>5 DEF Keeps
<1>9. CASE obs' # obs
  <2>1. CanObserve(e) /\ obs[u] = "none" /\ obs' = [obs EXCEPT ![u] = exec[e].answer]
    BY <1>9 DEF Save
  <2>2. /\ obs'[u] = exec[e].answer
        /\ \A v \in Urls : v # u => obs'[v] = obs[v]
    BY <1>1, <1>2, <2>1 DEF TypeOK
  <2>3. Observed' = Observed \cup {u} /\ u \notin Observed
    BY <1>2, <2>1, <2>2 DEF Observed
  <2>4. SavedFirst(e)'
    BY <1>4, <2>3 DEF SavedFirst
  <2>5. FlagsTell(e)'
    <3>1. Covered(exec[e].flags)
      BY <1>1, <1>3, <2>1 DEF HolderInv, FlagsTell
    <3>2. /\ exec[e].answer = "security" => "security" \in exec[e].flags
          /\ exec[e].answer \in Unrecovered => "unrecovered" \in exec[e].flags
      BY <1>1, <1>2 DEF InHand
    <3>3. QED
      BY <1>4, <2>2, <3>1, <3>2 DEF FlagsTell, Covered
  <2>6. HolderInv(e)'
    BY <1>4, <1>7, <2>4, <2>5 DEF HolderInv, RetriesUsed, LinksFirst, PageRoom
  <2>7. ActsAs(e)
    BY <1>2, <1>3, <1>4, <2>1 DEF ActsAs, CanObserve, Fence, Current
  <2>8. FrozenClean' /\ FullIsCompleted'
    BY <1>1, <1>2, <2>1 DEF RunInv, CanObserve, FrozenClean, FullIsCompleted
  <2>9. DoneMeansObserved'
    BY <1>1, <1>2, <2>3 DEF RunInv, DoneMeansObserved
  <2>10. GivenUpAfterRetries'
    <3>1. exec[e].answer = "network" => attempts[u] = MaxRetries
      BY <1>1, <1>2, <2>1 DEF HolderInv, RetriesUsed, CanObserve
    <3>2. QED
      BY <1>1, <1>2, <2>2, <3>1 DEF RunInv, GivenUpAfterRetries
  <2>11. LinksBeforeObservation'
    <3>1. exec[e].answer = "html" => LinksKnown(u)
      BY <1>1, <1>2, <2>1 DEF HolderInv, LinksFirst, CanObserve
    <3>2. InFrontier' = InFrontier
      BY <1>2 DEF InFrontier
    <3>3. QED
      BY <1>1, <2>2, <3>1, <3>2 DEF RunInv, LinksBeforeObservation, LinksKnown
  <2>12. BudgetsHold'
    <3>1. IsFiniteSet(Observed) /\ Cardinality(Observed) \in Nat
      BY ExecutorAssumption, FS_Subset, FS_CardinalityType DEF Observed
    <3>2. Cardinality(Observed') = Cardinality(Observed) + 1
      BY <2>3, <3>1, FS_AddElement
    <3>3. Cardinality(Observed) < MaxPages
      BY <1>1, <1>2, <2>1 DEF HolderInv, PageRoom, Working
    <3>4. InFrontier' = InFrontier
      BY <1>2 DEF InFrontier
    <3>5. QED
      BY <1>1, <3>1, <3>2, <3>3, <3>4, ExecutorAssumption DEF RunInv, BudgetsHold
  <2>13. RunInv'
    BY <2>8, <2>9, <2>10, <2>11, <2>12 DEF RunInv
  <2>14. QED
    BY <1>6, <2>6, <2>7, <2>13 DEF Keeps
<1>10. QED
  BY <1>8, <1>9

LEMMA MarkDoneKeeps == ASSUME IInv, NEW e \in Executions, MarkDone(e)
                       PROVE  Keeps(e)
<1> DEFINE u == exec[e].item
<1>1. TypeOK /\ RunInv /\ InHand(e) /\ HolderInv(e)
  BY DEF IInv
<1>2. exec[e].pc = "done" /\ UNCHANGED <<run, attempts, obs>> /\ RunStays /\ u \in Urls
  BY <1>1 DEF MarkDone, At, RunStays, InHand, Working
<1>3. exec[e].pc \in Started /\ exec[e].pc \in Crawling /\ exec[e].pc \in Working
  BY <1>2 DEF Started, Pcs, Crawling, Working
<1>4. /\ exec'[e].pc = "loop" /\ exec'[e].token = exec[e].token
      /\ exec'[e].flags = exec[e].flags /\ OthersStay(e)
  BY <1>1 DEF MarkDone, TypeOK, ExecState, OthersStay
<1>5. (Fence(e)' <=> Fence(e)) /\ (CanObserve(e)' <=> CanObserve(e))
  BY <1>2, <1>4 DEF Fence, CanObserve
<1>6. \/ ~Fence(e) /\ UNCHANGED frontier
      \/ /\ Fence(e) /\ frontier[u] = "FETCHING" /\ frontier'[u] = "DONE"
         /\ \A v \in Urls : v # u => frontier'[v] = frontier[v] /\ frontier[v] # "FETCHING"
  <2>1. frontier' = IF Fence(e) THEN [frontier EXCEPT ![u] = "DONE"] ELSE frontier
    BY DEF MarkDone
  <2>2. Fence(e) => \A v \in Urls : frontier[v] = "FETCHING" <=> v = u
    BY <1>1, <1>3 DEF HolderInv, OwnClaim
  <2>3. QED
    BY <1>1, <1>2, <2>1, <2>2 DEF TypeOK
<1>7. OwnClaim(e)'
  BY <1>4, <1>5, <1>6 DEF OwnClaim, Working
<1>8. FlagsTell(e)'
  BY <1>1, <1>2, <1>3, <1>4, <1>5 DEF HolderInv, FlagsTell, Covered
<1>9. InHand(e)' /\ HolderInv(e)'
  BY <1>4, <1>7, <1>8 DEF InHand, HolderInv, RetriesUsed, LinksFirst, PageRoom, SavedFirst, Working
<1>10. ActsAs(e)
  BY <1>2, <1>3, <1>4, <1>6 DEF ActsAs, db, Current, Fence
<1>11. RunInv'
  <2>1. InFrontier' = InFrontier
    BY <1>2, <1>6 DEF InFrontier
  <2>2. FrontierGrows
    BY <1>1, <2>1 DEF FrontierGrows, InFrontier, RunInv, BudgetsHold
  <2>3. Fence(e) => u \in Observed \/ run.status \notin {"QUEUED", "RUNNING"}
    <3>1. CASE run.status = "RUNNING"
      BY <1>1, <1>2, <3>1 DEF HolderInv, SavedFirst, CanObserve
    <3>2. CASE run.status = "QUEUED"
      BY <1>3, <3>2 DEF IInv, TokenInv, QueuedUnheld
    <3>3. QED
      BY <3>1, <3>2
  <2>4. \A v \in Urls : frontier'[v] = "DONE"
                         => \/ frontier[v] = "DONE" \/ v \in Observed
                            \/ run.status \notin {"QUEUED", "RUNNING"}
    BY <1>6, <2>3
  <2>5. QED
    BY <1>1, <1>2, <2>2, <2>4, RunInvKept
<1>12. QED
  BY <1>9, <1>10, <1>11 DEF Keeps

LEMMA RecoverKeeps == ASSUME IInv, NEW e \in Executions, Recover(e)
                      PROVE  Keeps(e)
<1>1. TypeOK /\ RunInv
  BY DEF IInv
<1>2. exec[e].pc = "recover" /\ UNCHANGED <<run, attempts, obs>> /\ RunStays
  BY DEF Recover, At, RunStays
<1>3. exec[e].pc \in Started
  BY <1>2 DEF Started, Pcs
<1> DEFINE pc == IF exec[e].plan = "cancel" THEN "finalize" ELSE "robots"
           fl == RecoveredFlags \cup (IF exec[e].plan = "cancel" THEN {"cancelled"} ELSE {})
<1>4. /\ exec'[e].pc \in {"finalize", "robots"} /\ exec'[e].token = exec[e].token
      /\ exec'[e].flags = fl /\ OthersStay(e)
  <2>1. exec' = [exec EXCEPT ![e].pc = pc, ![e].flags = fl]
    BY DEF Recover
  <2> HIDE DEF fl
  <2>2. QED
    BY <1>1, <2>1 DEF TypeOK, ExecState, OthersStay
<1>5. frontier' = IF Fence(e) THEN FrontierReset ELSE frontier
  BY DEF Recover
<1>6. OwnClaim(e)'
  <2>1. Fence(e)' => Fence(e)
    BY <1>2, <1>4 DEF Fence
  <2>2. Fence(e) => \A u \in Urls : frontier'[u] # "FETCHING"
    BY <1>1, <1>5 DEF FrontierReset, TypeOK
  <2>3. QED
    BY <1>4, <2>1, <2>2 DEF OwnClaim, Working
<1>7. FlagsTell(e)'
  <2>1. Covered(fl)
    BY DEF Covered, RecoveredFlags
  <2> HIDE DEF fl
  <2>2. QED
    BY <1>2, <1>4, <2>1 DEF FlagsTell, Covered
<1>8. InHand(e)' /\ HolderInv(e)'
  BY <1>4, <1>6, <1>7 DEF InHand, HolderInv, RetriesUsed, LinksFirst, PageRoom, SavedFirst, Working
<1>9. ActsAs(e)
  BY <1>2, <1>3, <1>4, <1>5 DEF ActsAs, db, Current, Fence
<1>10. RunInv'
  <2>1. /\ InFrontier' = InFrontier
        /\ \A u \in Urls : frontier'[u] = "DONE" => frontier[u] = "DONE"
    BY <1>5 DEF InFrontier, FrontierReset
  <2>2. FrontierGrows
    BY <1>1, <2>1 DEF FrontierGrows, InFrontier, RunInv, BudgetsHold
  <2>3. QED
    BY <1>1, <1>2, <2>1, <2>2, RunInvKept
<1>11. QED
  BY <1>8, <1>9, <1>10 DEF Keeps

\* The row of the run may move on when pages and frontier do not.
LEMMA RowKeepsRunInv ==
    ASSUME RunInv, UNCHANGED <<frontier, attempts, obs>>,
           run'.status \in {"QUEUED", "RUNNING"} => run.status \in {"QUEUED", "RUNNING"},
           FrozenClean', FullIsCompleted'
    PROVE  RunInv'
<1>1. InFrontier' = InFrontier /\ Observed' = Observed
  BY DEF InFrontier, Observed
<1>2. QED
  BY <1>1 DEF RunInv, DoneMeansObserved, GivenUpAfterRetries, LinksBeforeObservation, BudgetsHold

\* Where nothing is asked of an execution.
LEMMA FreeKeeps == ASSUME NEW e \in Executions, exec'[e].pc \in {"off", "acquire", "recover"}
                   PROVE  InHand(e)' /\ HolderInv(e)'
  BY DEF InHand, HolderInv, OwnClaim, RetriesUsed, LinksFirst, PageRoom, SavedFirst,
     FlagsTell, Working, Crawling

\* A freeze finds every page done and observed, and no failure unseen.
LEMMA FreezeIsClean ==
    ASSUME IInv, NEW e \in Executions, MarkFinalizing(e), Fence(e)
    PROVE  /\ Clean
           /\ run.status \in {"RUNNING", "FINALIZING"}
           /\ run.status = "RUNNING" => InFrontier \subseteq Observed
<1>1. TypeOK /\ RunInv /\ HolderInv(e) /\ QueuedUnheld
  BY DEF IInv, TokenInv
<1>2. exec[e].pc = "finalize" /\ FullCandidate(e)
  BY DEF MarkFinalizing, At
<1>3. exec[e].flags = {} /\ Unfinished = {} /\ AnyHttp
  BY <1>2 DEF FullCandidate, Missing
<1>4. run.status \in {"RUNNING", "FINALIZING"}
  BY <1>1, <1>2 DEF Fence, QueuedUnheld, Started, Pcs, Active
<1>5. CASE run.status = "RUNNING"
  <2>1. Covered({})
    BY <1>1, <1>2, <1>3, <1>5 DEF HolderInv, FlagsTell, CanObserve
  <2>2. Clean
    BY <1>3, <2>1 DEF Clean, Covered
  <2>3. InFrontier \subseteq Observed
    <3>1. \A u \in InFrontier : frontier[u] = "DONE"
      BY <1>1, <1>3 DEF InFrontier, Unfinished, TypeOK
    <3>2. QED
      BY <1>1, <1>5, <3>1 DEF RunInv, DoneMeansObserved, InFrontier
  <2>4. QED
    BY <1>4, <2>2, <2>3
<1>6. CASE run.status = "FINALIZING"
  BY <1>1, <1>6 DEF RunInv, FrozenClean
<1>7. QED
  BY <1>4, <1>5, <1>6

LEMMA MarkFinalizingKeeps == ASSUME IInv, NEW e \in Executions, MarkFinalizing(e)
                             PROVE  Keeps(e)
<1>1. TypeOK /\ RunInv /\ InHand(e) /\ HolderInv(e)
  BY DEF IInv
<1>2. exec[e].pc = "finalize" /\ UNCHANGED <<frontier, attempts, obs>>
  BY DEF MarkFinalizing, At
<1>3. exec[e].pc \in Started
  BY <1>2 DEF Started, Pcs
<1>4. CASE Abandon(e) /\ UNCHANGED run
  <2>1. exec'[e] = Fresh /\ OthersStay(e)
    BY <1>1, <1>4, AbandonMoves
  <2>2. QED
    BY <1>1, <1>2, <1>3, <1>4, <2>1, QuietKeeps DEF Moves, RunStays, db
<1>5. CASE Stop(e, "cancelled") /\ UNCHANGED run
  <2>1. Moves(e, {"finalize"}) /\ OthersStay(e)
    BY <1>1, <1>5, StopMoves
  <2>2. exec'[e] # Fresh => InHand(e)' /\ HolderInv(e)'
    BY <1>1, <1>2, <1>5, <2>1, FinalizeKeeps DEF Moves, RunStays
  <2>3. QED
    BY <1>1, <1>2, <1>3, <1>5, <2>1, <2>2, QuietKeeps DEF RunStays, db
<1>6. CASE /\ Fence(e) /\ run' = [run EXCEPT !.status = "FINALIZING", !.bytes = exec[e].bytes]
           /\ Goto(e, "publish")
  <2>1. /\ run'.status = "FINALIZING" /\ run'.completeness = run.completeness
        /\ run'.token = run.token
    BY <1>1, <1>6 DEF TypeOK, RunRow
  <2>2. exec'[e].pc = "publish" /\ exec'[e].token = exec[e].token /\ OthersStay(e)
    BY <1>1, <1>6 DEF Goto, TypeOK, ExecState, OthersStay
  <2>3. InHand(e)' /\ HolderInv(e)'
    BY <2>1, <2>2 DEF InHand, HolderInv, OwnClaim, RetriesUsed, LinksFirst, PageRoom, SavedFirst,
       FlagsTell, CanObserve, Working, Crawling
  <2>4. ActsAs(e)
    BY <1>3, <1>6, <2>1, <2>2 DEF ActsAs, Current, Fence
  <2>5. Clean' /\ run.status \in {"RUNNING", "FINALIZING"}
    BY <1>2, <1>6, FreezeIsClean DEF Clean, AnyHttp
  <2>6. FrozenClean' /\ FullIsCompleted'
    BY <1>1, <2>1, <2>5 DEF FrozenClean, FullIsCompleted, RunInv
  <2>7. RunInv'
    BY <1>1, <1>2, <2>1, <2>6, RowKeepsRunInv
  <2>8. QED
    BY <2>3, <2>4, <2>7 DEF Keeps
<1>7. QED
  BY <1>4, <1>5, <1>6 DEF MarkFinalizing

LEMMA EndKeeps == ASSUME IInv, NEW e \in Executions, TerminalWrite(e) \/ Publish(e)
                  PROVE  Keeps(e)
<1>1. TypeOK /\ RunInv
  BY DEF IInv
<1>2. /\ exec[e].pc \in Started /\ exec'[e] = Fresh /\ OthersStay(e)
      /\ UNCHANGED <<frontier, attempts, obs>>
  BY <1>1, AbandonMoves DEF TerminalWrite, Publish, At, Started, Pcs
<1>3. InHand(e)' /\ HolderInv(e)'
  BY <1>2, FreshKeeps
<1>4. CASE UNCHANGED run
  BY <1>1, <1>2, <1>4, QuietKeeps DEF Moves, RunStays, db
<1>5. ASSUME Fence(e), NEW st \in Terminal, NEW co \in {"NONE", "PARTIAL", "FULL"},
             run'.status = st, run'.completeness = co, run'.token = run.token,
             co = "FULL" => st = "COMPLETED" /\ run.status = "FINALIZING"
      PROVE  Keeps(e)
  <2>1. ActsAs(e)
    BY <1>2, <1>5 DEF ActsAs, Current, Fence, Terminal, Fresh, Started
  <2>2. FrozenClean' /\ FullIsCompleted'
    BY <1>1, <1>2, <1>5 DEF RunInv, FrozenClean, FullIsCompleted, Clean, AnyHttp, Terminal
  <2>3. RunInv'
    BY <1>1, <1>2, <1>5, <2>2, RowKeepsRunInv DEF Terminal
  <2>4. QED
    BY <1>3, <2>1, <2>3 DEF Keeps
<1>6. CASE TerminalWrite(e) /\ Fence(e)
  <2> DEFINE st == Outcome(e)[1]
             co == Outcome(e)[2]
  <2>1. st \in Terminal /\ co \in {"NONE", "PARTIAL"}
    BY OutcomeType DEF Terminal
  <2>2. run' = [run EXCEPT !.status = st, !.completeness = co, !.lease = FALSE, !.bytes = exec[e].bytes]
    BY <1>6 DEF TerminalWrite
  <2> HIDE DEF st, co
  <2>3. run'.status = st /\ run'.completeness = co /\ run'.token = run.token
    BY <1>1, <2>2 DEF TypeOK, RunRow
  <2>4. QED
    BY <1>5, <1>6, <2>1, <2>3
<1>7. CASE Publish(e)
  <2>1. Fence(e) /\ run.status = "FINALIZING"
    BY <1>7 DEF Publish, CanPublish
  <2>2. run'.status = "COMPLETED" /\ run'.completeness = "FULL" /\ run'.token = run.token
    BY <1>1, <1>7 DEF Publish, TypeOK, RunRow
  <2>3. QED
    BY <1>5, <2>1, <2>2 DEF Terminal
<1>8. QED
  BY <1>4, <1>6, <1>7 DEF TerminalWrite

LEMMA PublishRefusedKeeps == ASSUME IInv, NEW e \in Executions, PublishRefused(e)
                             PROVE  Keeps(e)
<1>1. TypeOK /\ RunInv /\ InHand(e) /\ HolderInv(e)
  BY DEF IInv
<1>2. /\ exec[e].pc = "publish" /\ UNCHANGED <<run, frontier, attempts, obs>> /\ UNCHANGED db
      /\ RunStays
  BY DEF PublishRefused, At, db, RunStays
<1>3. exec[e].pc \in Started
  BY <1>2 DEF Started, Pcs
<1>4. CASE exec' = [exec EXCEPT ![e].pc = "recover", ![e].plan = "crawl"]
  <2>1. exec'[e].pc = "recover" /\ exec'[e].token = exec[e].token /\ OthersStay(e)
    BY <1>1, <1>4 DEF TypeOK, ExecState, OthersStay
  <2>2. ActsAs(e)
    BY <1>2, <1>3, <2>1 DEF ActsAs
  <2>3. QED
    BY <1>1, <1>2, <2>1, <2>2, FreeKeeps, RunInvKept, FrontierStays DEF Keeps
<1>5. CASE Abandon(e)
  <2>1. exec'[e] = Fresh /\ OthersStay(e)
    BY <1>1, <1>5, AbandonMoves
  <2>2. QED
    BY <1>1, <1>2, <1>3, <2>1, QuietKeeps DEF Moves
<1>6. CASE exec[e].plan # "publish" /\ Stop(e, "cancelled")
  <2>1. Moves(e, {"finalize"}) /\ OthersStay(e)
    BY <1>1, <1>6, StopMoves
  <2>2. exec'[e] # Fresh => InHand(e)' /\ HolderInv(e)'
    BY <1>1, <1>2, <1>6, <2>1, FinalizeKeeps DEF Moves
  <2>3. QED
    BY <1>1, <1>2, <1>3, <2>1, <2>2, QuietKeeps
<1>7. QED
  BY <1>4, <1>5, <1>6 DEF PublishRefused

LEMMA CrashKeeps == ASSUME IInv, NEW e \in Executions, Crash(e)
                    PROVE  Keeps(e)
<1>1. TypeOK /\ RunInv
  BY DEF IInv
<1>2. /\ exec[e].pc \in Started /\ UNCHANGED <<run, frontier, attempts, obs>> /\ RunStays
      /\ UNCHANGED db
  BY DEF Crash, db, RunStays
<1>3. exec'[e] = Fresh /\ OthersStay(e)
  BY <1>1, AbandonMoves DEF Crash
<1>4. QED
  BY <1>1, <1>2, <1>3, QuietKeeps DEF Moves

LEMMA ReadKeeps == ASSUME IInv, NEW e \in Executions, ReadRun(e) \/ AcquireFails(e)
                   PROVE  Keeps(e)
<1>1. TypeOK /\ RunInv
  BY DEF IInv
<1>2. UNCHANGED <<run, frontier, attempts, obs>> /\ RunStays /\ UNCHANGED db
  BY DEF ReadRun, AcquireFails, db, RunStays
<1>3. /\ exec'[e].pc \in {"off", "acquire"} /\ OthersStay(e)
      /\ exec'[e] = Fresh \/ exec'[e].token = exec[e].token
  <2>1. CASE ReadRun(e)
    BY <1>1, <2>1 DEF ReadRun, TypeOK, ExecState, OthersStay
  <2>2. CASE AcquireFails(e)
    BY <1>1, <2>2, AbandonMoves DEF AcquireFails, Fresh
  <2>3. QED
    BY <2>1, <2>2
<1>4. ActsAs(e)
  BY <1>2, <1>3 DEF ActsAs, Started
<1>5. QED
  BY <1>1, <1>2, <1>3, <1>4, FreeKeeps, RunInvKept, FrontierStays DEF Keeps

\* All actions but the acquisition of the lease.
LEMMA StepKeeps ==
    ASSUME IInv, NEW e \in Executions, Step(e) \/ Crash(e), ~Acquire(e)
    PROVE  Keeps(e)
  BY AskKeeps, FetchKeeps, LinksAndTargetKeep, SeedsKeep, LoopKeeps, PageAnswersKeeps, RetryKeeps,
     SaveKeeps, MarkDoneKeeps, RecoverKeeps, MarkFinalizingKeeps, EndKeeps, PublishRefusedKeeps,
     CrashKeeps, ReadKeeps DEF Step

-----------------------------------------------------------------------------
(* What a step leaves alone. *)

\* An execution that may not write has nothing to keep.
LEMMA FencedOut == ASSUME NEW f \in Executions, exec'[f].pc \in Started => ~Fence(f)'
                   PROVE  HolderInv(f)'
<1>1. Working \subseteq Started /\ Crawling \subseteq Started /\ {"finalize", "publish"} \subseteq Started
  BY DEF Working, Crawling, Started, Pcs
<1>2. CASE ~Fence(f)'
  BY <1>2 DEF HolderInv, OwnClaim, RetriesUsed, LinksFirst, PageRoom, SavedFirst, FlagsTell, CanObserve
<1>3. CASE exec'[f].pc \notin Started
  <2>1. exec'[f].pc \notin Working /\ exec'[f].pc \notin Crawling \cup {"finalize", "publish", "save"}
    BY <1>1, <1>3 DEF Working
  <2>2. exec'[f].pc \notin {"target", "done"}
    BY <1>1, <1>3 DEF Working
  <2>3. QED
    BY <2>1, <2>2 DEF HolderInv, OwnClaim, RetriesUsed, LinksFirst, PageRoom, SavedFirst, FlagsTell
<1>4. QED
  BY <1>2, <1>3

\* What an execution has in hand is its own affair.
LEMMA InHandStays == ASSUME NEW f \in Executions, exec'[f] = exec[f], InHand(f)
                     PROVE  InHand(f)'
  BY DEF InHand

\* What an execution may write, and what it knows of what it found, depends only on
\* itself, the run and the frontier.
LEMMA HolderStays ==
    ASSUME NEW f \in Executions, exec'[f] = exec[f], HolderInv(f),
           UNCHANGED <<frontier, attempts, obs>>,
           run'.token = run.token,
           run'.status = run.status
    PROVE  HolderInv(f)'
<1>1. (Fence(f)' <=> Fence(f)) /\ (CanObserve(f)' <=> CanObserve(f))
  BY DEF Fence, CanObserve
<1>2. InFrontier' = InFrontier /\ Observed' = Observed
  BY DEF InFrontier, Observed
<1>3. OwnClaim(f)' /\ RetriesUsed(f)' /\ LinksFirst(f)'
  BY <1>1, <1>2 DEF HolderInv, OwnClaim, RetriesUsed, LinksFirst, LinksKnown
<1>4. PageRoom(f)' /\ SavedFirst(f)' /\ FlagsTell(f)'
  BY <1>1, <1>2 DEF HolderInv, PageRoom, SavedFirst, FlagsTell, Covered
<1>5. QED
  BY <1>3, <1>4 DEF HolderInv

\* Only the execution that is current writes, so that what any other relies on is
\* either as it was or no longer relied on.
LEMMA Undisturbed ==
    ASSUME OneCurrent, NEW e \in Executions, NEW f \in Executions \ {e}, ActsAs(e),
           InHand(f), HolderInv(f)
    PROVE  InHand(f)' /\ HolderInv(f)'
<1>1. exec'[f] = exec[f]
  BY DEF ActsAs, OthersStay
<1>2. CASE UNCHANGED db
  BY <1>1, <1>2, InHandStays, HolderStays DEF db
<1>3. CASE Current(e)
  <2>1. ~Current(f)
    BY <1>3 DEF OneCurrent
  <2>2. exec'[f].pc \in Started => ~Fence(f)'
    BY <1>1, <2>1 DEF Current, Fence, ActsAs
  <2>3. QED
    BY <1>1, <2>2, InHandStays, FencedOut
<1>4. QED
  BY <1>2, <1>3 DEF ActsAs

\* Steps of one execution hand out no token.
LEMMA TokensKept ==
    ASSUME TypeOK, TypeOK', TokenInv, NEW e \in Executions, ActsAs(e)
    PROVE  TokenInv'
<1>1. \A f \in Executions \ {e} : exec'[f] = exec[f]
  BY DEF ActsAs, OthersStay
<1>2. run'.token = run.token /\ run.token \in Nat
  BY DEF ActsAs, TypeOK, RunRow
<1>3. \A f \in Executions : exec'[f].token <= run'.token
  BY <1>1, <1>2 DEF ActsAs, TokenInv, TokenBound, Fresh
<1>4. \A f \in Executions : Current(f)' => Current(f)
  BY <1>1, <1>2 DEF Current, ActsAs, Fresh, Started
<1>5. \A f \in Executions : exec'[f].pc \in Started => exec[f].pc \in Started
  BY <1>1 DEF ActsAs
<1>6. OneCurrent'
  BY <1>4 DEF TokenInv, OneCurrent
<1>7. QueuedUnheld'
  BY <1>5 DEF ActsAs, TokenInv, QueuedUnheld
<1>8. QED
  BY <1>3, <1>6, <1>7 DEF TokenInv, TokenBound

LEMMA KeepsIsEnough ==
    ASSUME IInv, TypeOK', NEW e \in Executions, Keeps(e)
    PROVE  IInv'
<1>1. TokenInv'
  BY TokensKept DEF IInv, Keeps
<1>2. \A f \in Executions : InHand(f)' /\ HolderInv(f)'
  <2>1. \A f \in Executions \ {e} : InHand(f)' /\ HolderInv(f)'
    BY Undisturbed DEF IInv, TokenInv, Keeps
  <2>2. QED
    BY <2>1 DEF Keeps
<1>3. QED
  BY <1>1, <1>2 DEF IInv, Keeps

\* A takeover: the new token fences out whoever worked on the run before.
LEMMA AcquireIsSafe == ASSUME IInv, TypeOK', NEW e \in Executions, Acquire(e)
                       PROVE  IInv'
<1>1. TypeOK /\ RunInv /\ TokenInv
  BY DEF IInv
<1>2. /\ run'.token = run.token + 1 /\ run'.status = Leased(run.status)
      /\ run'.completeness = run.completeness /\ run.status \in Active
      /\ UNCHANGED <<frontier, attempts, obs>> /\ run.token \in Nat
  BY <1>1 DEF Acquire, TypeOK, RunRow
<1>3. /\ exec'[e].token = run'.token /\ exec'[e].pc \in {"publish", "recover"}
      /\ exec'[e].pc = "publish" => exec'[e].plan = "publish"
      /\ OthersStay(e)
  <2> DEFINE pc == IF exec[e].plan = "publish" THEN "publish" ELSE "recover"
  <2>1. exec' = [exec EXCEPT ![e].token = run.token + 1, ![e].pc = pc]
    BY DEF Acquire
  <2>2. pc \in {"publish", "recover"} /\ (pc = "publish" => exec[e].plan = "publish")
    OBVIOUS
  <2> HIDE DEF pc
  <2>3. QED
    BY <1>1, <1>2, <2>1, <2>2 DEF TypeOK, ExecState, OthersStay
<1>4. \A f \in Executions \ {e} : exec'[f] = exec[f] /\ exec[f].token < run'.token
  <2>1. \A f \in Executions : exec[f].token \in Nat /\ exec[f].token <= run.token
    BY <1>1 DEF TypeOK, ExecState, TokenInv, TokenBound
  <2>2. QED
    BY <1>2, <1>3, <2>1 DEF OthersStay
<1>5. TokenInv'
  <2>1. TokenBound'
    BY <1>2, <1>3, <1>4 DEF TokenBound, TypeOK, ExecState
  <2>2. OneCurrent'
    <3>1. \A f \in Executions \ {e} : ~Current(f)'
      BY <1>2, <1>4 DEF Current, TypeOK, ExecState
    <3>2. QED
      BY <3>1 DEF OneCurrent
  <2>3. QueuedUnheld'
    BY <1>2 DEF QueuedUnheld, Leased
  <2>4. QED
    BY <2>1, <2>2, <2>3 DEF TokenInv
<1>6. \A f \in Executions : InHand(f)' /\ HolderInv(f)'
  <2>1. InHand(e)' /\ HolderInv(e)'
    BY <1>3 DEF InHand, HolderInv, OwnClaim, RetriesUsed, LinksFirst, PageRoom, SavedFirst,
       FlagsTell, Working, Crawling
  <2>2. ASSUME NEW f \in Executions \ {e} PROVE InHand(f)' /\ HolderInv(f)'
    <3>1. ~Fence(f)'
      BY <1>2, <1>4 DEF Fence, TypeOK, ExecState
    <3>2. QED
      BY <1>4, <3>1, InHandStays, FencedOut DEF IInv
  <2>3. QED
    BY <2>1, <2>2
<1>7. RunInv'
  <2>1. FrozenClean' /\ FullIsCompleted'
    BY <1>1, <1>2 DEF RunInv, FrozenClean, FullIsCompleted, Clean, AnyHttp, Leased, Active
  <2>2. QED
    BY <1>1, <1>2, <2>1, RowKeepsRunInv DEF Leased, Active
<1>8. QED
  BY <1>5, <1>6, <1>7 DEF IInv

\* The lease and the cancellation flag are nothing the invariant speaks of.
LEMMA FlagsAreSafe == ASSUME IInv, TypeOK', Lapse \/ CancelFlag
                      PROVE  IInv'
<1>1. RunStays /\ UNCHANGED <<frontier, attempts, obs, exec>>
  BY DEF IInv, TypeOK, RunRow, Lapse, CancelFlag, RunStays
<1>2. RunInv'
  BY <1>1, RunInvKept, FrontierStays DEF IInv
<1>3. TokenInv'
  BY <1>1 DEF IInv, TokenInv, TokenBound, OneCurrent, QueuedUnheld, Current, RunStays
<1>4. \A e \in Executions : InHand(e)' /\ HolderInv(e)'
  BY <1>1, InHandStays, HolderStays DEF IInv, RunStays
<1>5. QED
  BY <1>2, <1>3, <1>4 DEF IInv

\* A direct cancellation fences out whoever worked on the run.
LEMMA CancelIsSafe == ASSUME IInv, TypeOK', CancelDirect
                      PROVE  IInv'
<1>1. TypeOK /\ RunInv /\ TokenInv
  BY DEF IInv
<1>2. /\ run'.token = run.token + 1 /\ run'.status = "CANCELLED" /\ run.token \in Nat
      /\ run'.completeness = run.completeness /\ run.status \in Active
      /\ UNCHANGED <<frontier, attempts, obs, exec>>
  BY <1>1 DEF CancelDirect, TypeOK, RunRow
<1>3. \A f \in Executions : exec[f].token \in Nat /\ exec[f].token <= run.token
  BY <1>1 DEF TypeOK, ExecState, TokenInv, TokenBound
<1>4. TokenInv'
  BY <1>2, <1>3 DEF TokenInv, TokenBound, OneCurrent, QueuedUnheld, Current
<1>5. \A f \in Executions : InHand(f)' /\ HolderInv(f)'
  <2>1. \A f \in Executions : ~Fence(f)'
    BY <1>2 DEF Fence, Active
  <2>2. QED
    BY <1>2, <2>1, InHandStays, FencedOut DEF IInv
<1>6. RunInv'
  <2>1. FrozenClean' /\ FullIsCompleted'
    BY <1>1, <1>2 DEF RunInv, FrozenClean, FullIsCompleted, Clean, AnyHttp, Active
  <2>2. QED
    BY <1>1, <1>2, <2>1, RowKeepsRunInv
<1>7. QED
  BY <1>4, <1>5, <1>6 DEF IInv

LEMMA StutterIsSafe == ASSUME IInv, UNCHANGED vars
                       PROVE  IInv'
<1>1. /\ run' = run /\ frontier' = frontier /\ attempts' = attempts /\ obs' = obs /\ exec' = exec
      /\ RunStays
  BY DEF vars, RunStays
<1>2. TypeOK'
  BY <1>1 DEF IInv, TypeOK
<1>3. RunInv'
  BY <1>1, RunInvKept, FrontierStays DEF IInv
<1>4. TokenInv'
  BY <1>1 DEF IInv, TokenInv, TokenBound, OneCurrent, QueuedUnheld, Current
<1>5. \A e \in Executions : InHand(e)' /\ HolderInv(e)'
  BY <1>1, InHandStays, HolderStays DEF IInv
<1>6. QED
  BY <1>2, <1>3, <1>4, <1>5 DEF IInv

LEMMA NextIsSafe == ASSUME IInv, [Next]_vars
                    PROVE  IInv'
<1>1. CASE UNCHANGED vars
  BY <1>1, StutterIsSafe
<1>2. TypeOK /\ (Next => TypeOK')
  BY StepTyped, WorldTyped DEF IInv, Next
<1>3. ASSUME NEW e \in Executions, Step(e) \/ Crash(e)
      PROVE  IInv'
  <2>1. TypeOK'
    BY <1>2, <1>3 DEF Next
  <2>2. CASE Acquire(e)
    BY <2>1, <2>2, AcquireIsSafe
  <2>3. CASE ~Acquire(e)
    BY <1>3, <2>1, <2>3, StepKeeps, KeepsIsEnough
  <2>4. QED
    BY <2>2, <2>3
<1>4. CASE Lapse \/ CancelFlag \/ CancelDirect
  BY <1>2, <1>4, FlagsAreSafe, CancelIsSafe DEF Next
<1>5. QED
  BY <1>1, <1>3, <1>4 DEF Next

LEMMA InitIsSafe == Init => IInv
<1> SUFFICES ASSUME Init PROVE IInv
  OBVIOUS
<1>1. TypeOK
  BY InitTyped
<1>2. \A e \in Executions : exec[e] = Fresh /\ exec[e].pc = "off" /\ exec[e].token = 0
  BY DEF Init, Fresh
<1>3. /\ run.token = 0 /\ run.completeness = "NONE" /\ run.status = "QUEUED"
      /\ InFrontier = {} /\ Observed = {}
  BY DEF Init, InFrontier, Observed
<1>4. TokenInv
  BY <1>2, <1>3 DEF TokenInv, TokenBound, OneCurrent, QueuedUnheld, Current, Started
<1>5. \A e \in Executions : InHand(e) /\ HolderInv(e)
  BY <1>2 DEF InHand, HolderInv, OwnClaim, RetriesUsed, LinksFirst, PageRoom, SavedFirst,
     FlagsTell, Working, Crawling
<1>6. RunInv
  <2>1. Cardinality(InFrontier) = 0 /\ Cardinality(Observed) = 0
    BY <1>3, FS_EmptySet
  <2>2. BudgetsHold
    BY <2>1, ExecutorAssumption DEF BudgetsHold
  <2>3. DoneMeansObserved /\ GivenUpAfterRetries /\ LinksBeforeObservation
    BY DEF Init, DoneMeansObserved, GivenUpAfterRetries, LinksBeforeObservation
  <2>4. QED
    BY <1>3, <2>2, <2>3 DEF RunInv, FrozenClean, FullIsCompleted
<1>7. QED
  BY <1>1, <1>4, <1>5, <1>6 DEF IInv

-----------------------------------------------------------------------------
(* The properties. *)

\* At every point of a run, whichever executions worked on it, one token is current,
\* and its holder finds in the database what it left there (IInv above): the fence of
\* withRunFence is enough to make the unlocked steps of executeCrawl safe.
THEOREM Invariance == Spec => []IInv
  BY InitIsSafe, NextIsSafe, PTL DEF Spec

\* Before the freeze, every page marked done has its observation, for any number of
\* executions that die or are superseded between saveObservation and markFrontierDone.
THEOREM DoneIsObserved == Spec => []DoneMeansObserved
<1>1. IInv => DoneMeansObserved
  BY DEF IInv, RunInv
<1>2. QED
  BY <1>1, Invariance, PTL

\* resetStaleFrontier and the fence leave no item claimed that nobody fetches: when
\* the holder looks for the next due page, none is FETCHING.
THEOREM NoItemIsStranded == Spec => []NothingStranded
<1>1. IInv => NothingStranded
  BY DEF IInv, HolderInv, OwnClaim, NothingStranded, At, Crawling, Working
<1>2. QED
  BY <1>1, Invariance, PTL

\* A FULL report has an answered page and no page that failed, whichever execution
\* saw the failure (finalize, hasUnrecoveredObservation, the flags of an execution).
THEOREM FullHasNoFailure == Spec => []FullIsClean
<1>1. IInv => FullIsClean
  BY DEF IInv, RunInv, FrozenClean, Clean, FullIsClean
<1>2. QED
  BY <1>1, Invariance, PTL

\* A page is recorded as unreachable only after MAX_PAGE_RETRIES retries, counted in
\* its frontier row over all executions (rescheduleFrontier).
THEOREM GivenUpLate == Spec => []GivenUpAfterRetries
<1>1. IInv => GivenUpAfterRetries
  BY DEF IInv, RunInv
<1>2. QED
  BY <1>1, Invariance, PTL

\* The links of a page are stored before its observation, unless the frontier is
\* full; a crash between the two loses no link (executeCrawl, addCapped).
THEOREM LinksAreNotLost == Spec => []LinksBeforeObservation
<1>1. IInv => LinksBeforeObservation
  BY DEF IInv, RunInv
<1>2. QED
  BY <1>1, Invariance, PTL

\* maxPages and maxFrontierUrls hold for the run, over all its executions, although
\* each counts in a transaction of its own before it writes in another.
THEOREM BudgetsAreKept == Spec => []BudgetsHold
<1>1. IInv => BudgetsHold
  BY DEF IInv, RunInv
<1>2. QED
  BY <1>1, Invariance, PTL

\* Only four actions of an execution write more of the row than the lease and the
\* byte count.
LEMMA RowIdle ==
    ASSUME TypeOK, NEW e \in Executions, Step(e) \/ Crash(e),
           ~Acquire(e), ~MarkFinalizing(e), ~TerminalWrite(e), ~Publish(e)
    PROVE  RunStays /\ run'.cancelled = run.cancelled
<1>1. run \in RunRow
  BY DEF TypeOK
<1>2. ASSUME \/ run' = run \/ run' = [run EXCEPT !.lease = TRUE]
             \/ \E n \in 0..1 : run' = [run EXCEPT !.bytes = @ + n]
      PROVE  RunStays /\ run'.cancelled = run.cancelled
  BY <1>1, <1>2 DEF RunRow, RunStays
<1>3. CASE AskRobots(e) \/ AskSitemap(e)
  BY <1>2, <1>3 DEF AskRobots, AskSitemap, Ask
<1>4. CASE RobotsAnswers(e) \/ SitemapAnswers(e) \/ PageAnswers(e)
  <2>1. \A answer : Sizes(answer) \subseteq 0..1
    BY DEF Sizes
  <2>2. QED
    BY <1>2, <1>4, <2>1 DEF RobotsAnswers, SitemapAnswers, PageAnswers, Charge
<1>5. CASE Loop(e)
  BY <1>2, <1>5 DEF Loop
<1>6. CASE \/ ReadRun(e) \/ AcquireFails(e) \/ Recover(e) \/ Fetch(e) \/ Retry(e) \/ AddLinks(e)
           \/ Save(e) \/ AddTarget(e) \/ MarkDone(e) \/ PublishRefused(e) \/ Crash(e)
  BY <1>2, <1>6 DEF ReadRun, AcquireFails, Recover, Fetch, Retry, AddLinks, Save, AddTarget,
     MarkDone, PublishRefused, Crash, db
<1>7. QED
  BY <1>3, <1>4, <1>5, <1>6 DEF Step

LEMMA FreezeStep ==
    ASSUME IInv, [Next]_vars, run.status = "RUNNING", run'.status = "FINALIZING"
    PROVE  InFrontier \subseteq Observed
<1>1. run \in RunRow /\ TypeOK
  BY DEF IInv, TypeOK
<1>2. ASSUME NEW e \in Executions, Step(e) \/ Crash(e)
      PROVE  InFrontier \subseteq Observed
  <2>1. ~Acquire(e)
    BY <1>1 DEF Acquire, Leased, RunRow
  <2>2. ~Publish(e)
    BY <1>1 DEF Publish, RunRow
  <2>3. ~TerminalWrite(e)
    <3>1. SUFFICES ASSUME TerminalWrite(e) PROVE FALSE
      OBVIOUS
    <3> DEFINE st == Outcome(e)[1]
               co == Outcome(e)[2]
    <3>2. st # "FINALIZING"
      BY OutcomeType
    <3>3. run' = run \/ run' = [run EXCEPT !.status = st, !.completeness = co,
                                           !.lease = FALSE, !.bytes = exec[e].bytes]
      BY <3>1 DEF TerminalWrite
    <3> HIDE DEF st, co
    <3>4. QED
      BY <1>1, <3>2, <3>3 DEF RunRow
  <2>4. MarkFinalizing(e)
    BY <1>1, <1>2, <2>1, <2>2, <2>3, RowIdle DEF RunStays
  <2>5. Fence(e)
    BY <2>4 DEF MarkFinalizing
  <2>6. QED
    BY <2>4, <2>5, FreezeIsClean
<1>3. ~(Lapse \/ CancelFlag \/ CancelDirect) /\ run' # run
  BY <1>1 DEF Lapse, CancelFlag, CancelDirect, RunRow
<1>4. QED
  BY <1>2, <1>3 DEF Next, vars

\* When markRunFinalizing freezes a run, every URL in its frontier has been observed,
\* whichever executions claimed, fetched and saved the pages.
THEOREM FreezeFindsAllObserved == Spec => FrozenWhenObserved
<1>1. IInv /\ [Next]_vars
      => (run.status = "RUNNING" /\ run'.status = "FINALIZING" => InFrontier \subseteq Observed)
  BY FreezeStep
<1>2. IInv /\ [Next]_vars
      => [run.status = "RUNNING" /\ run'.status = "FINALIZING" => InFrontier \subseteq Observed]_vars
  BY <1>1
<1>3. QED
  BY <1>2, Invariance, PTL DEF Spec, FrozenWhenObserved

LEMMA WriterIsCurrent ==
    ASSUME IInv, [Next]_vars, NEW f \in Executions,
           exec[f].pc \in Started, run.token # exec[f].token, exec'[f] # exec[f]
    PROVE  UNCHANGED db
<1>1. ASSUME NEW e \in Executions, Step(e) \/ Crash(e)
      PROVE  UNCHANGED db
  <2>1. OthersStay(e)
    <3>1. CASE Acquire(e)
      BY <3>1 DEF Acquire, OthersStay, IInv, TypeOK
    <3>2. CASE ~Acquire(e)
      BY <1>1, <3>2, StepKeeps DEF Keeps, ActsAs
    <3>3. QED
      BY <3>1, <3>2
  <2>2. e = f
    BY <2>1 DEF OthersStay
  <2>3. ~Acquire(e)
    BY <2>2 DEF Acquire, At, Started
  <2>4. ActsAs(e) /\ ~Current(e)
    BY <1>1, <2>2, <2>3, StepKeeps DEF Keeps, Current
  <2>5. QED
    BY <2>4 DEF ActsAs
<1>2. CASE Lapse \/ CancelFlag \/ CancelDirect \/ UNCHANGED vars
  BY <1>2 DEF Lapse, CancelFlag, CancelDirect, vars
<1>3. QED
  BY <1>1, <1>2 DEF Next

\* A superseded execution changes no row of the crawl with any step it still takes:
\* withRunFence around every write of executeCrawl.
THEOREM SupersededIsHarmless == Spec => SupersededWritesNothing
<1>1. IInv /\ [Next]_vars
      => \A e \in Executions :
            exec[e].pc \in Started /\ run.token # exec[e].token /\ exec'[e] # exec[e]
            => UNCHANGED db
  BY WriterIsCurrent
<1>2. QED
  BY <1>1, Invariance, PTL DEF Spec, SupersededWritesNothing

-----------------------------------------------------------------------------
(* The status diagram. *)

\* A step that changes none of the three columns is a stutter of the status diagram.
LEMMA Stutter == ASSUME RunStays, run'.cancelled = run.cancelled
                 PROVE  UNCHANGED Lifecycle!vars
  BY DEF RunStays, Lifecycle!vars

LEMMA ExecutionRefines ==
    ASSUME IInv, NEW e \in Executions, Step(e) \/ Crash(e)
    PROVE  [Lifecycle!Next]_(Lifecycle!vars)
<1> USE DEF Lifecycle!vars, Lifecycle!Next, Lifecycle!Active, Lifecycle!Terminal
<1>1. run \in RunRow /\ TypeOK
  BY DEF IInv, TypeOK
<1>2. exec[e].pc \in Started => run.status # "QUEUED"
  BY DEF IInv, TokenInv, QueuedUnheld
<1>3. run.status \in Active => run.completeness # "FULL"
  BY DEF IInv, RunInv, FullIsCompleted, Active
<1>4. CASE Acquire(e)
  BY <1>1, <1>4 DEF Acquire, Leased, Lifecycle!PickUp, RunRow, Active
<1>5. CASE MarkFinalizing(e)
  <2>1. CASE run' = run
    BY <2>1, Stutter DEF RunStays
  <2>2. CASE /\ Fence(e) /\ ~run.cancelled
             /\ run' = [run EXCEPT !.status = "FINALIZING", !.bytes = exec[e].bytes]
    <3>1. run.status \in {"RUNNING", "FINALIZING"}
      BY <1>5, <2>2, FreezeIsClean
    <3>2. QED
      BY <1>1, <2>2, <3>1 DEF Lifecycle!Freeze, RunRow
  <2>3. QED
    BY <1>5, <2>1, <2>2 DEF MarkFinalizing
<1>6. CASE TerminalWrite(e)
  <2> DEFINE st == Outcome(e)[1]
             co == Outcome(e)[2]
  <2>1. st \in {"COMPLETED", "CANCELLED", "FAILED"} /\ co # "FULL"
    BY OutcomeType
  <2>2. run.status # "QUEUED"
    BY <1>2, <1>6 DEF TerminalWrite, At, Started, Pcs
  <2>3. \/ run' = run
        \/ /\ run.status \in Active
           /\ run' = [run EXCEPT !.status = st, !.completeness = co,
                                 !.lease = FALSE, !.bytes = exec[e].bytes]
    BY <1>6 DEF TerminalWrite, Fence
  <2> HIDE DEF st, co
  <2>4. QED
    BY <1>1, <1>3, <2>1, <2>2, <2>3 DEF Lifecycle!EndUnpublished, RunRow, Active
<1>7. CASE Publish(e)
  BY <1>1, <1>7 DEF Publish, CanPublish, Lifecycle!Publish, RunRow
<1>8. CASE ~Acquire(e) /\ ~MarkFinalizing(e) /\ ~TerminalWrite(e) /\ ~Publish(e)
  BY <1>1, <1>8, RowIdle, Stutter
<1>9. QED
  BY <1>4, <1>5, <1>6, <1>7, <1>8

LEMMA WorldRefines ==
    ASSUME IInv, Lapse \/ CancelFlag \/ CancelDirect \/ UNCHANGED vars
    PROVE  [Lifecycle!Next]_(Lifecycle!vars)
<1> USE DEF Lifecycle!vars, Lifecycle!Next, Lifecycle!Active, Lifecycle!Terminal
<1>1. run \in RunRow
  BY DEF IInv, TypeOK
<1>2. run.status \in Active => run.completeness # "FULL"
  BY DEF IInv, RunInv, FullIsCompleted, Active
<1>3. CASE Lapse
  BY <1>1, <1>3 DEF Lapse, RunRow
<1>4. CASE CancelFlag
  BY <1>1, <1>4 DEF CancelFlag, Lifecycle!AcceptCancel, RunRow, Active
<1>5. CASE CancelDirect
  BY <1>1, <1>5 DEF CancelDirect, Lifecycle!EndUnpublished, RunRow, Active
<1>6. CASE UNCHANGED vars
  BY <1>6 DEF vars
<1>7. QED
  BY <1>3, <1>4, <1>5, <1>6

\* The crawl phase, with all that its executions do to each other, moves the row only
\* along the diagram of RunLifecycle: a report appears only on a frozen run that was
\* not cancelled, and a terminal run stays as it is.
THEOREM Refinement == Spec => ImplementsLifecycle
<1>1. Init => Lifecycle!Init
  BY DEF Init, Lifecycle!Init
<1>2. IInv /\ [Next]_vars => [Lifecycle!Next]_(Lifecycle!vars)
  BY ExecutionRefines, WorldRefines DEF Next
<1>3. QED
  BY <1>1, <1>2, Invariance, PTL DEF Spec, ImplementsLifecycle, Lifecycle!Spec
=============================================================================
