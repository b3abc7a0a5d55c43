--------------------------- MODULE CrawlRunProofs ---------------------------
(***************************************************************************)
(* Theorems about CrawlRun for every number of workers and users, every    *)
(* lease, claim and retry duration and every bound.                        *)
(***************************************************************************)
EXTENDS CrawlRun, TLAPS

\* A worker carries a token that was handed out, and the newest one is stored.
TokenBound == \A w \in Workers : worker[w].token <= run.token

\* Every terminal write releases the lease.
TerminalUnleased == run.status \in Terminal => run.lease = 0

\* A worker past acquireLease has moved the run out of the queue.
QueuedUnheld == run.status = "QUEUED" => \A w \in Workers : worker[w].pc \notin Holding

LEMMA LessType == ASSUME NEW n \in Nat, NEW m \in 0..n
                  PROVE  Less(m) \in 0..n
  BY DEF Less

LEMMA IdleType == IdleWorker \in WorkerState
  BY DEF IdleWorker, WorkerState, Pcs, Plans, Verdicts, NoClaim

\* Sending one worker somewhere else keeps all of them in their type.
LEMMA GotoType == ASSUME worker \in [Workers -> WorkerState],
                         NEW w \in Workers, NEW pc \in Pcs, Goto(w, pc)
                  PROVE  worker' \in [Workers -> WorkerState]
  BY DEF Goto, WorkerState

\* A row with one field replaced by a value of that field's type is a row.
LEMMA RunRowUpdate ==
    \A r \in RunRow :
        /\ \A x \in Active \cup Terminal : [r EXCEPT !.status = x] \in RunRow
        /\ \A x \in {"NONE", "PARTIAL", "FULL"} : [r EXCEPT !.completeness = x] \in RunRow
        /\ \A x \in Nat : [r EXCEPT !.token = x] \in RunRow
        /\ \A x \in 0..LeaseTTL : [r EXCEPT !.lease = x] \in RunRow
        /\ \A x \in BOOLEAN : [r EXCEPT !.cancelled = x] \in RunRow
        /\ \A x \in BOOLEAN : [r EXCEPT !.published = x] \in RunRow
  BY DEF RunRow

LEMMA EventRowUpdate ==
    \A e \in EventRow :
        /\ \A x \in BOOLEAN : [e EXCEPT !.delivered = x] \in EventRow
        /\ \A x \in Nat : [e EXCEPT !.attempts = x] \in EventRow
        /\ \A x \in Nat : [e EXCEPT !.claimToken = x] \in EventRow
        /\ \A x \in 0..ClaimTTL : [e EXCEPT !.claim = x] \in EventRow
        /\ \A x \in 0..RetryDelay : [e EXCEPT !.delay = x] \in EventRow
  BY DEF EventRow

\* Every operation of CrawlRun keeps every field of every row in its range
\* (all actions of executor.ts, outbox.ts and crawl-service.ts modelled here).
THEOREM TypeCorrect == Spec => []TypeOK
<1>1. Init => TypeOK
  <2> SUFFICES ASSUME Init PROVE TypeOK
    OBVIOUS
  <2>1. run \in RunRow
    BY CrawlRunAssumption DEF Init, RunRow, Active, Terminal
  <2>2. event \in EventRow
    BY CrawlRunAssumption, ClaimTTLAssumption DEF Init, EventRow, NewEvent, NoClaim
  <2>3. worker \in [Workers -> WorkerState]
    BY IdleType DEF Init
  <2>4. QED
    BY <2>1, <2>2, <2>3, CrawlRunAssumption DEF Init, TypeOK
<1>2. TypeOK /\ [Next]_vars => TypeOK'
  <2> SUFFICES ASSUME TypeOK, [Next]_vars
               PROVE  TypeOK'
    OBVIOUS
  <2> USE CrawlRunAssumption, ClaimTTLAssumption
  <2>1. ASSUME NEW w \in Workers, Claim(w)
        PROVE  TypeOK'
    <3>1. event' \in EventRow
      <4>1. event.attempts + 1 \in Nat /\ ClaimTTL \in 0..ClaimTTL
        BY DEF TypeOK, EventRow
      <4>2. event \in EventRow /\ event' = Claimed(event)
        BY <2>1 DEF Claim, TypeOK
      <4>3. QED
        BY <4>1, <4>2, EventRowUpdate DEF Claimed
    <3> DEFINE pc == IF event.attempts + 1 > MaxDeliveries THEN "exhaust" ELSE "read"
    <3>2. [IdleWorker EXCEPT !.pc = pc, !.claim = event.attempts + 1] \in WorkerState
      <4>1. pc \in Pcs /\ event.attempts + 1 \in Nat
        BY DEF TypeOK, EventRow, Pcs
      <4> HIDE DEF pc
      <4>2. QED
        BY <4>1, IdleType DEF WorkerState
    <3>3. worker' \in [Workers -> WorkerState]
      BY <2>1, <3>2 DEF Claim, TypeOK
    <3>4. QED
      BY <2>1, <3>1, <3>3 DEF Claim, TypeOK
  <2>2. ASSUME NEW w \in Workers, Exhaust(w)
        PROVE  TypeOK'
    <3>1. worker' \in [Workers -> WorkerState]
      BY <2>2, GotoType DEF Exhaust, TypeOK, Pcs
    <3>2. run' \in RunRow
      BY <2>2 DEF Exhaust, TypeOK, RunRow, Terminal
    <3>3. QED
      BY <2>2, <3>1, <3>2 DEF Exhaust, TypeOK
  <2>3. ASSUME NEW w \in Workers, Deliver(w)
        PROVE  TypeOK'
    <3>1. event' \in EventRow
      <4>1. event \in EventRow /\ event' = MarkDelivered(event, worker[w].claim)
        BY <2>3 DEF Deliver, TypeOK
      <4>2. 0 \in Nat /\ 0 \in 0..ClaimTTL /\ TRUE \in BOOLEAN
        OBVIOUS
      <4>3. QED
        BY <4>1, <4>2, EventRowUpdate DEF MarkDelivered, NoClaim
    <3>2. QED
      BY <2>3, <3>1, IdleType DEF Deliver, TypeOK
  <2>4. ASSUME NEW w \in Workers, RescheduleEvent(w)
        PROVE  TypeOK'
    <3>1. event' \in EventRow
      <4>1. event \in EventRow /\ event' = Reschedule(event, worker[w].claim, RetryDelay)
        BY <2>4 DEF RescheduleEvent, TypeOK
      <4>2. 0 \in Nat /\ 0 \in 0..ClaimTTL /\ RetryDelay \in 0..RetryDelay
        OBVIOUS
      <4>3. QED
        BY <4>1, <4>2, EventRowUpdate DEF Reschedule, NoClaim
    <3>2. QED
      BY <2>4, <3>1, IdleType DEF RescheduleEvent, TypeOK
  <2>5. ASSUME NEW w \in Workers, ReadRun(w)
        PROVE  TypeOK'
    <3>1. ASSUME NEW pc \in Pcs, NEW plan \in Plans
          PROVE  [worker EXCEPT ![w].pc = pc, ![w].plan = plan]
                    \in [Workers -> WorkerState]
      BY DEF TypeOK, WorkerState
    <3>2. worker' \in [Workers -> WorkerState]
      BY <2>5, <3>1 DEF ReadRun, Pcs, Plans
    <3>3. QED
      BY <2>5, <3>2 DEF ReadRun, TypeOK
  <2>6. ASSUME NEW w \in Workers, Acquire(w)
        PROVE  TypeOK'
    <3>1. run' \in RunRow
      <4> DEFINE st == IF run.status = "FINALIZING" THEN "FINALIZING" ELSE "RUNNING"
      <4>1. st \in Active \cup Terminal /\ run.token + 1 \in Nat /\ LeaseTTL \in 0..LeaseTTL
        BY DEF TypeOK, RunRow, Active
      <4>2. /\ run \in RunRow
            /\ run' = [run EXCEPT !.status = st, !.token = run.token + 1, !.lease = LeaseTTL]
        BY <2>6 DEF Acquire, Leased, TypeOK
      <4> HIDE DEF st
      <4>3. QED
        BY <4>1, <4>2, RunRowUpdate
    <3>2. ASSUME NEW t \in Nat, NEW pc \in Pcs, NEW v \in Verdicts
          PROVE  [worker EXCEPT ![w].token = t, ![w].pc = pc, ![w].verdict = v]
                    \in [Workers -> WorkerState]
      BY DEF TypeOK, WorkerState
    <3> DEFINE pcOf == CASE worker[w].plan = "publish" -> "checkPublished"
                         [] worker[w].plan = "cancel"  -> "finalize"
                         [] worker[w].plan = "crawl"   -> "crawl"
               vOf == IF worker[w].plan = "cancel" THEN "cancelled" ELSE "unset"
    <3>3. worker[w].plan \in {"publish", "cancel", "crawl"}
      BY DEF TypeOK, WorkerState, Plans
    <3>4. pcOf \in Pcs /\ vOf \in Verdicts /\ run.token + 1 \in Nat
      BY <3>3 DEF TypeOK, RunRow, Pcs, Verdicts
    <3>5. worker' = [worker EXCEPT ![w].token = run.token + 1, ![w].pc = pcOf,
                                   ![w].verdict = vOf]
      BY <2>6 DEF Acquire, Leased
    <3> HIDE DEF pcOf, vOf
    <3>6. worker' \in [Workers -> WorkerState]
      BY <3>2, <3>4, <3>5
    <3>7. QED
      BY <2>6, <3>1, <3>6 DEF Acquire, Leased, TypeOK
  <2>7. ASSUME NEW w \in Workers,
               AcquireFails(w) \/ NoticeLoss(w) \/ CheckPublished(w) \/ PublishRefused(w)
        PROVE  TypeOK'
    <3>1. \E pc \in Pcs : Goto(w, pc)
      BY <2>7 DEF AcquireFails, NoticeLoss, CheckPublished, PublishRefused, Pcs
    <3>2. QED
      BY <2>7, <3>1, GotoType
         DEF AcquireFails, NoticeLoss, CheckPublished, PublishRefused, TypeOK
  <2>8. ASSUME NEW w \in Workers, NoticeCancel(w) \/ EndCrawl(w) \/ Recheck(w)
        PROVE  TypeOK'
    <3>1. ASSUME NEW v \in Verdicts
          PROVE  [worker EXCEPT ![w].pc = "finalize", ![w].verdict = v]
                    \in [Workers -> WorkerState]
      BY DEF TypeOK, WorkerState, Pcs
    <3>2. [worker EXCEPT ![w].pc = "deliver"] \in [Workers -> WorkerState]
      BY DEF TypeOK, WorkerState, Pcs
    <3>3. worker' \in [Workers -> WorkerState]
      <4>1. CASE NoticeCancel(w)
        BY <4>1, <3>1 DEF NoticeCancel, Verdicts
      <4>2. CASE EndCrawl(w)
        <5>1. PICK v \in {"full", "partial", "none", "forced"} :
                worker' = [worker EXCEPT ![w].pc = "finalize", ![w].verdict = v]
          BY <4>2 DEF EndCrawl
        <5>2. v \in Verdicts
          BY DEF Verdicts
        <5>3. QED
          BY <5>1, <5>2, <3>1
      <4>3. CASE Recheck(w)
        BY <4>3, <3>1, <3>2 DEF Recheck, Verdicts
      <4>4. QED
        BY <2>8, <4>1, <4>2, <4>3
    <3>4. QED
      BY <2>8, <3>3 DEF NoticeCancel, EndCrawl, Recheck, TypeOK
  <2>9. ASSUME NEW w \in Workers, MarkFinalizing(w)
        PROVE  TypeOK'
    <3>1. worker' \in [Workers -> WorkerState]
      BY <2>9 DEF MarkFinalizing, Goto, TypeOK, WorkerState, Pcs, Verdicts
    <3>2. run' \in RunRow
      BY <2>9 DEF MarkFinalizing, TypeOK, RunRow, Active
    <3>3. QED
      BY <2>9, <3>1, <3>2 DEF MarkFinalizing, TypeOK
  <2>10. ASSUME NEW w \in Workers, TerminalWrite(w)
         PROVE  TypeOK'
    <3>1. worker' \in [Workers -> WorkerState]
      BY <2>10, GotoType DEF TerminalWrite, TypeOK, Pcs
    <3>2. ASSUME NEW v
          PROVE  /\ UnpublishedOutcome(v).status \in Terminal
                 /\ UnpublishedOutcome(v).completeness \in {"NONE", "PARTIAL"}
      BY DEF UnpublishedOutcome, Terminal
    <3>3. run' \in RunRow
      <4> DEFINE st == UnpublishedOutcome(worker[w].verdict).status
                 co == UnpublishedOutcome(worker[w].verdict).completeness
      <4>1. /\ st \in Active \cup Terminal
            /\ co \in {"NONE", "PARTIAL", "FULL"}
            /\ 0 \in 0..LeaseTTL
        BY <3>2
      <4>2. /\ run \in RunRow
            /\ \/ run' = run
               \/ run' = [run EXCEPT !.status = st, !.completeness = co, !.lease = 0]
        BY <2>10 DEF TerminalWrite, TypeOK
      <4> HIDE DEF st, co
      <4>3. [run EXCEPT !.status = st, !.completeness = co] \in RunRow
        BY <4>1, <4>2, RunRowUpdate
      <4>4. QED
        BY <4>1, <4>2, <4>3, RunRowUpdate
    <3>4. QED
      BY <2>10, <3>1, <3>3 DEF TerminalWrite, TypeOK
  <2>11. ASSUME NEW w \in Workers, Publish(w)
         PROVE  TypeOK'
    <3>1. worker' \in [Workers -> WorkerState]
      BY <2>11, GotoType DEF Publish, TypeOK, Pcs
    <3>2. run' \in RunRow
      <4>1. /\ "COMPLETED" \in Active \cup Terminal /\ "FULL" \in {"NONE", "PARTIAL", "FULL"}
            /\ TRUE \in BOOLEAN /\ 0 \in 0..LeaseTTL
        BY DEF Terminal
      <4>2. /\ run \in RunRow
            /\ run' = [run EXCEPT !.status = "COMPLETED", !.completeness = "FULL",
                                  !.published = TRUE, !.lease = 0]
        BY <2>11 DEF Publish, TypeOK
      <4>3. QED
        BY <4>1, <4>2, RunRowUpdate
    <3>3. QED
      BY <2>11, <3>1, <3>2 DEF Publish, TypeOK
  <2>12. ASSUME NEW w \in Workers, Renew(w)
         PROVE  TypeOK'
    <3>1. run' \in RunRow
      BY <2>12 DEF Renew, TypeOK, RunRow
    <3>2. QED
      BY <2>12, <3>1 DEF Renew, TypeOK
  <2>13. ASSUME NEW w \in Workers, Fail(w) \/ Crash(w)
         PROVE  TypeOK'
    <3>1. worker' \in [Workers -> WorkerState]
      BY <2>13, GotoType, IdleType DEF Fail, Crash, TypeOK, Pcs
    <3>2. faults' \in 0..MaxFaults
      BY <2>13 DEF Fail, Crash, TypeOK
    <3>3. QED
      BY <2>13, <3>1, <3>2 DEF Fail, Crash, TypeOK
  <2>14. ASSUME NEW u \in Users, CancelRead(u) \/ CancelDirect(u) \/ CancelFlag(u)
         PROVE  TypeOK'
    <3>1. run' \in RunRow
      <4>1. /\ "CANCELLED" \in Active \cup Terminal /\ run.token + 1 \in Nat
            /\ TRUE \in BOOLEAN /\ 0 \in 0..LeaseTTL
        BY DEF Terminal, TypeOK, RunRow
      <4>2. /\ run \in RunRow
            /\ \/ run' = run
               \/ run' = [run EXCEPT !.cancelled = TRUE]
               \/ run' = [run EXCEPT !.status = "CANCELLED", !.token = run.token + 1,
                                     !.lease = 0, !.cancelled = TRUE]
        BY <2>14 DEF CancelRead, CancelDirect, CancelFlag, TypeOK
      <4>3. QED
        BY <4>1, <4>2, RunRowUpdate
    <3>2. user' \in [Users -> {"idle", "direct", "flag"}]
      BY <2>14 DEF CancelRead, CancelDirect, CancelFlag, TypeOK
    <3>3. QED
      BY <2>14, <3>1, <3>2 DEF CancelRead, CancelDirect, CancelFlag, TypeOK
  <2>15. CASE Tick
    <3>1. run' \in RunRow
      BY <2>15, LessType DEF Tick, TypeOK, RunRow
    <3>2. event' \in EventRow
      BY <2>15, LessType DEF Tick, EventTick, TypeOK, EventRow
    <3>3. QED
      BY <2>15, <3>1, <3>2 DEF Tick, TypeOK
  <2>16. CASE UNCHANGED vars
    BY <2>16 DEF vars, TypeOK
  <2>17. QED
    BY <2>1, <2>2, <2>3, <2>4, <2>5, <2>6, <2>7, <2>8, <2>9, <2>10, <2>11,
       <2>12, <2>13, <2>14, <2>15, <2>16 DEF Next, Work
<1>3. QED
  BY <1>1, <1>2, PTL DEF Spec

-----------------------------------------------------------------------------

\* The three parts of the invariant that speak of the row alone.
RowInv == TerminalUnleased /\ ReportIsFull /\ CancelBeatsReport

\* The three parts that speak of who holds the run.
HolderInv == TokenBound /\ OneHolder /\ QueuedUnheld

\* A step after which nobody holds the run who did not hold it before.
NoNewHolder ==
    /\ run'.token >= run.token
    /\ run'.status = "QUEUED" => run.status = "QUEUED"
    /\ \A x \in Workers :
          /\ worker'[x].token \in {worker[x].token, 0}
          /\ worker'[x].pc \in Holding
             => worker[x].pc \in Holding /\ worker'[x].token = worker[x].token

LEMMA NoNewHolderKeeps ==
    ASSUME TypeOK, TypeOK', HolderInv, NoNewHolder
    PROVE  HolderInv'
<1>1. /\ run.token \in Nat /\ run'.token \in Nat
      /\ \A x \in Workers : worker[x].token \in Nat
  BY DEF TypeOK, RunRow, WorkerState
<1>2. TokenBound'
  BY <1>1 DEF HolderInv, TokenBound, NoNewHolder
<1>3. OneHolder'
  <2> SUFFICES ASSUME NEW w1 \in Workers, NEW w2 \in Workers,
                      worker'[w1].pc \in Holding, worker'[w1].token = run'.token,
                      worker'[w2].pc \in Holding, worker'[w2].token = run'.token
               PROVE  w1 = w2
    BY DEF OneHolder
  <2>1. /\ worker[w1].pc \in Holding /\ worker[w1].token = run'.token
        /\ worker[w2].pc \in Holding /\ worker[w2].token = run'.token
    BY DEF NoNewHolder
  <2>2. run'.token = run.token
    BY <1>1, <2>1 DEF HolderInv, TokenBound, NoNewHolder
  <2>3. QED
    BY <2>1, <2>2 DEF HolderInv, OneHolder
<1>4. QueuedUnheld'
  BY DEF HolderInv, QueuedUnheld, NoNewHolder
<1>5. QED
  BY <1>2, <1>3, <1>4 DEF HolderInv

LEMMA AcquireKeeps ==
    ASSUME TypeOK, TypeOK', HolderInv, NEW w \in Workers, Acquire(w)
    PROVE  HolderInv'
<1>1. /\ run.token \in Nat
      /\ \A x \in Workers : worker[x].token \in Nat
  BY DEF TypeOK, RunRow, WorkerState
<1>2. run'.token = run.token + 1 /\ run'.status # "QUEUED"
  BY DEF Acquire, Leased, TypeOK, RunRow
<1>3. worker'[w].token = run.token + 1
  BY DEF Acquire, Leased, TypeOK, WorkerState
<1>4. \A x \in Workers : x # w => worker'[x] = worker[x]
  BY DEF Acquire, Leased, TypeOK
<1>5. TokenBound'
  BY <1>1, <1>2, <1>3, <1>4 DEF HolderInv, TokenBound
<1>6. OneHolder'
  BY <1>1, <1>2, <1>3, <1>4 DEF HolderInv, TokenBound, OneHolder
<1>7. QueuedUnheld'
  BY <1>2 DEF QueuedUnheld
<1>8. QED
  BY <1>5, <1>6, <1>7 DEF HolderInv

\* Every step but Acquire makes no new holder and keeps the row sane.
LEMMA OtherStepsKeep ==
    ASSUME TypeOK, TypeOK', HolderInv, RowInv,
           \E w \in Workers : (Work(w) /\ ~Acquire(w)) \/ Renew(w) \/ Fail(w) \/ Crash(w)
    PROVE  NoNewHolder /\ RowInv'
<1> USE DEF NoNewHolder, RowInv, TerminalUnleased, ReportIsFull, CancelBeatsReport,
            TypeOK, WorkerState, RunRow, Holding, Active, Terminal, At
<1>1. ASSUME NEW w \in Workers, Claim(w)
      PROVE  NoNewHolder /\ RowInv'
  <2>1. NoNewHolder
    BY <1>1 DEF Claim, IdleWorker
  <2>2. RowInv'
    BY <1>1 DEF Claim, IdleWorker
  <2>3. QED
    BY <2>1, <2>2
<1>2. ASSUME NEW w \in Workers, Exhaust(w)
      PROVE  NoNewHolder /\ RowInv'
  <2>1. NoNewHolder
    BY <1>2 DEF Exhaust, Goto
  <2>2. RowInv'
    BY <1>2 DEF Exhaust, Goto
  <2>3. QED
    BY <2>1, <2>2
<1>3. ASSUME NEW w \in Workers, Deliver(w)
      PROVE  NoNewHolder /\ RowInv'
  <2>1. NoNewHolder
    BY <1>3 DEF Deliver, IdleWorker
  <2>2. RowInv'
    BY <1>3 DEF Deliver, IdleWorker
  <2>3. QED
    BY <2>1, <2>2
<1>4. ASSUME NEW w \in Workers, RescheduleEvent(w)
      PROVE  NoNewHolder /\ RowInv'
  <2>1. NoNewHolder
    BY <1>4 DEF RescheduleEvent, IdleWorker
  <2>2. RowInv'
    BY <1>4 DEF RescheduleEvent, IdleWorker
  <2>3. QED
    BY <2>1, <2>2
<1>5. ASSUME NEW w \in Workers, ReadRun(w)
      PROVE  NoNewHolder /\ RowInv'
  <2>1. NoNewHolder
    BY <1>5 DEF ReadRun
  <2>2. RowInv'
    BY <1>5 DEF ReadRun
  <2>3. QED
    BY <2>1, <2>2
<1>6. ASSUME NEW w \in Workers, AcquireFails(w)
      PROVE  NoNewHolder /\ RowInv'
  <2>1. NoNewHolder
    BY <1>6 DEF AcquireFails, Goto
  <2>2. RowInv'
    BY <1>6 DEF AcquireFails, Goto
  <2>3. QED
    BY <2>1, <2>2
<1>7. ASSUME NEW w \in Workers, NoticeLoss(w)
      PROVE  NoNewHolder /\ RowInv'
  <2>1. NoNewHolder
    BY <1>7 DEF NoticeLoss, Goto
  <2>2. RowInv'
    BY <1>7 DEF NoticeLoss, Goto
  <2>3. QED
    BY <2>1, <2>2
<1>8. ASSUME NEW w \in Workers, NoticeCancel(w)
      PROVE  NoNewHolder /\ RowInv'
  <2>1. NoNewHolder
    BY <1>8 DEF NoticeCancel
  <2>2. RowInv'
    BY <1>8 DEF NoticeCancel
  <2>3. QED
    BY <2>1, <2>2
<1>9. ASSUME NEW w \in Workers, EndCrawl(w)
      PROVE  NoNewHolder /\ RowInv'
  <2>1. NoNewHolder
    BY <1>9 DEF EndCrawl
  <2>2. RowInv'
    BY <1>9 DEF EndCrawl
  <2>3. QED
    BY <2>1, <2>2
<1>10. ASSUME NEW w \in Workers, MarkFinalizing(w)
      PROVE  NoNewHolder /\ RowInv'
  <2>1. NoNewHolder
    BY <1>10 DEF MarkFinalizing, Fence, Goto, At
  <2>2. RowInv'
    BY <1>10 DEF MarkFinalizing, Fence, Goto, At
  <2>3. QED
    BY <2>1, <2>2
<1>11. ASSUME NEW w \in Workers, TerminalWrite(w)
      PROVE  NoNewHolder /\ RowInv'
  <2>1. NoNewHolder
    BY <1>11 DEF TerminalWrite, UnpublishedOutcome, Fence, Goto
  <2>2. RowInv'
    BY <1>11 DEF TerminalWrite, UnpublishedOutcome, Fence, Goto
  <2>3. QED
    BY <2>1, <2>2
<1>12. ASSUME NEW w \in Workers, CheckPublished(w)
      PROVE  NoNewHolder /\ RowInv'
  <2>1. NoNewHolder
    BY <1>12 DEF CheckPublished, Goto, At
  <2>2. RowInv'
    BY <1>12 DEF CheckPublished, Goto, At
  <2>3. QED
    BY <2>1, <2>2
<1>13. ASSUME NEW w \in Workers, Publish(w)
      PROVE  NoNewHolder /\ RowInv'
  <2>1. NoNewHolder
    BY <1>13 DEF Publish, CanPublish, Fence, Goto
  <2>2. RowInv'
    BY <1>13 DEF Publish, CanPublish, Fence, Goto
  <2>3. QED
    BY <2>1, <2>2
<1>14. ASSUME NEW w \in Workers, PublishRefused(w)
      PROVE  NoNewHolder /\ RowInv'
  <2>1. NoNewHolder
    BY <1>14 DEF PublishRefused, Goto, At
  <2>2. RowInv'
    BY <1>14 DEF PublishRefused, Goto, At
  <2>3. QED
    BY <2>1, <2>2
<1>15. ASSUME NEW w \in Workers, Recheck(w)
      PROVE  NoNewHolder /\ RowInv'
  <2>1. NoNewHolder
    BY <1>15 DEF Recheck, At
  <2>2. RowInv'
    BY <1>15 DEF Recheck, At
  <2>3. QED
    BY <2>1, <2>2
<1>16. ASSUME NEW w \in Workers, Renew(w)
      PROVE  NoNewHolder /\ RowInv'
  <2>1. NoNewHolder
    BY <1>16 DEF Renew, Fence
  <2>2. RowInv'
    BY <1>16 DEF Renew, Fence
  <2>3. QED
    BY <2>1, <2>2
<1>17. ASSUME NEW w \in Workers, Fail(w)
      PROVE  NoNewHolder /\ RowInv'
  <2>1. NoNewHolder
    BY <1>17 DEF Fail, Goto
  <2>2. RowInv'
    BY <1>17 DEF Fail, Goto
  <2>3. QED
    BY <2>1, <2>2
<1>18. ASSUME NEW w \in Workers, Crash(w)
      PROVE  NoNewHolder /\ RowInv'
  <2>1. NoNewHolder
    BY <1>18 DEF Crash, IdleWorker
  <2>2. RowInv'
    BY <1>18 DEF Crash, IdleWorker
  <2>3. QED
    BY <2>1, <2>2
<1>19. QED
  BY <1>1, <1>2, <1>3, <1>4, <1>5, <1>6, <1>7, <1>8, <1>9, <1>10, <1>11, <1>12,
     <1>13, <1>14, <1>15, <1>16, <1>17, <1>18 DEF Work

\* Cancel calls and the passing of time make no new holder either.
LEMMA EnvironmentKeeps ==
    ASSUME TypeOK, TypeOK', HolderInv, RowInv,
           \/ \E u \in Users : CancelRead(u) \/ CancelDirect(u) \/ CancelFlag(u)
           \/ Tick
           \/ UNCHANGED vars
    PROVE  NoNewHolder /\ RowInv'
<1> USE DEF NoNewHolder, RowInv, TerminalUnleased, ReportIsFull, CancelBeatsReport,
            TypeOK, WorkerState, RunRow, Active, Terminal
<1>1. ASSUME NEW u \in Users, CancelRead(u)
      PROVE  NoNewHolder /\ RowInv'
  BY <1>1 DEF CancelRead
<1>2. ASSUME NEW u \in Users, CancelDirect(u)
      PROVE  NoNewHolder /\ RowInv'
  BY <1>2 DEF CancelDirect
<1>3. ASSUME NEW u \in Users, CancelFlag(u)
      PROVE  NoNewHolder /\ RowInv'
  BY <1>3 DEF CancelFlag
<1>4. CASE Tick
  BY <1>4 DEF Tick, Less
<1>5. CASE UNCHANGED vars
  BY <1>5 DEF vars
<1>6. QED
  BY <1>1, <1>2, <1>3, <1>4, <1>5

LEMMA AcquireRow ==
    ASSUME TypeOK, TypeOK', RowInv, NEW w \in Workers, Acquire(w)
    PROVE  RowInv'
  BY DEF Acquire, Leased, RowInv, TerminalUnleased, ReportIsFull, CancelBeatsReport,
         TypeOK, RunRow, Active, Terminal

\* Who holds the run, and the row itself, stay consistent in every behaviour.
THEOREM Invariance == Spec => [](HolderInv /\ RowInv)
<1>1. Init => HolderInv /\ RowInv
  BY DEF Init, IdleWorker, HolderInv, RowInv, TokenBound, OneHolder, QueuedUnheld,
         TerminalUnleased, ReportIsFull, CancelBeatsReport, Holding, Terminal
<1>2. TypeOK /\ TypeOK' /\ HolderInv /\ RowInv /\ [Next]_vars => HolderInv' /\ RowInv'
  <2> SUFFICES ASSUME TypeOK, TypeOK', HolderInv, RowInv, [Next]_vars
               PROVE  HolderInv' /\ RowInv'
    OBVIOUS
  <2>1. CASE \E w \in Workers : Acquire(w)
    BY <2>1, AcquireKeeps, AcquireRow
  <2>2. CASE \E w \in Workers : (Work(w) /\ ~Acquire(w)) \/ Renew(w) \/ Fail(w) \/ Crash(w)
    BY <2>2, OtherStepsKeep, NoNewHolderKeeps
  <2>3. CASE \/ \E u \in Users : CancelRead(u) \/ CancelDirect(u) \/ CancelFlag(u)
             \/ Tick
             \/ UNCHANGED vars
    BY <2>3, EnvironmentKeeps, NoNewHolderKeeps
  <2>4. QED
    BY <2>1, <2>2, <2>3 DEF Next
<1>3. QED
  BY <1>1, <1>2, TypeCorrect, PTL DEF Spec

\* At most one worker holds the current lease token (acquireLease): a worker
\* that was taken over and the one that took over are never both the holder.
THEOREM OneHolderAlways == Spec => []OneHolder
<1>1. HolderInv => OneHolder
  BY DEF HolderInv
<1>2. QED
  BY <1>1, Invariance, PTL

\* No report appears on a run whose cancellation was recorded, and none is
\* recorded on a run whose report is out (publishRun against cancelCrawl).
THEOREM CancelBeatsReportAlways == Spec => []CancelBeatsReport
<1>1. RowInv => CancelBeatsReport
  BY DEF RowInv
<1>2. QED
  BY <1>1, Invariance, PTL

\* A report and a COMPLETED, FULL run are the same thing (publishRun, finalize).
THEOREM ReportIsFullAlways == Spec => []ReportIsFull
<1>1. RowInv => ReportIsFull
  BY DEF RowInv
<1>2. QED
  BY <1>1, Invariance, PTL

LEMMA TerminalStays ==
    ASSUME TypeOK, RowInv, [Next]_vars, run.status \in Terminal
    PROVE  run' = run
<1>1. run.lease = 0 /\ run \in RunRow /\ run.status \notin Active
  BY DEF TypeOK, RowInv, TerminalUnleased, Terminal, Active
<1>2. ASSUME NEW w \in Workers, Work(w) \/ Renew(w) \/ Fail(w) \/ Crash(w)
      PROVE  run' = run
  BY <1>1, <1>2 DEF Work, Claim, Exhaust, Deliver, RescheduleEvent, ReadRun, Acquire,
     AcquireFails, NoticeLoss, NoticeCancel, EndCrawl, MarkFinalizing, TerminalWrite,
     CheckPublished, Publish, CanPublish, PublishRefused, Recheck, Renew, Fail, Crash,
     Fence, Active
<1>3. ASSUME NEW u \in Users, CancelRead(u) \/ CancelDirect(u) \/ CancelFlag(u)
      PROVE  run' = run
  BY <1>1, <1>3 DEF CancelRead, CancelDirect, CancelFlag
<1>4. CASE Tick
  BY <1>1, <1>4 DEF Tick, Less, RunRow
<1>5. QED
  BY <1>2, <1>3, <1>4 DEF Next, vars

\* A terminal run is never written again (withRunFence, the guarded updates).
THEOREM TerminalIsFinalAlways == Spec => TerminalIsFinal
<1>1. TypeOK /\ RowInv /\ [Next]_vars => [run.status \in Terminal => UNCHANGED run]_vars
  BY TerminalStays
<1>2. QED
  BY <1>1, TypeCorrect, Invariance, PTL DEF Spec, TerminalIsFinal

\* A worker whose token was superseded changes the run no more (withRunFence).
THEOREM SupersededIsInertAlways == Spec => SupersededIsInert
<1>1. TypeOK /\ [Next]_vars
      => [\A w \in Workers :
            /\ worker[w].pc \in Holding /\ worker[w].token # run.token
            /\ worker'[w] # worker[w]
            => UNCHANGED run]_vars
  <2> SUFFICES ASSUME TypeOK, Next, NEW w \in Workers,
                      worker[w].pc \in Holding, worker[w].token # run.token,
                      worker'[w] # worker[w]
               PROVE  run' = run
    BY DEF vars
  <2>1. ASSUME NEW x \in Workers, Work(x) \/ Renew(x) \/ Fail(x) \/ Crash(x)
        PROVE  run' = run
    <3>1. CASE x # w
      <4>1. worker'[w] = worker[w]
        BY <2>1, <3>1 DEF TypeOK, Work, Claim, Exhaust, Deliver, RescheduleEvent, ReadRun,
           Acquire, AcquireFails, NoticeLoss, NoticeCancel, EndCrawl, MarkFinalizing,
           TerminalWrite, CheckPublished, Publish, PublishRefused, Recheck, Renew, Fail,
           Crash, Goto
      <4>2. QED
        BY <4>1
    <3>2. CASE x = w
      BY <2>1, <3>2 DEF Work, Claim, Exhaust, Deliver, RescheduleEvent, ReadRun, Acquire,
         AcquireFails, NoticeLoss, NoticeCancel, EndCrawl, MarkFinalizing, TerminalWrite,
         CheckPublished, Publish, CanPublish, PublishRefused, Recheck, Renew, Fail, Crash,
         Fence, At, Holding
    <3>3. QED
      BY <3>1, <3>2
  <2>2. ASSUME NEW u \in Users, CancelRead(u) \/ CancelDirect(u) \/ CancelFlag(u)
        PROVE  run' = run
    BY <2>2 DEF CancelRead, CancelDirect, CancelFlag
  <2>3. CASE Tick
    BY <2>3 DEF Tick
  <2>4. QED
    BY <2>1, <2>2, <2>3 DEF Next
<1>2. QED
  BY <1>1, TypeCorrect, PTL DEF Spec, SupersededIsInert

-----------------------------------------------------------------------------

\* A step that leaves the row alone is a stutter of the status diagram.
LEMMA Stutter == run' = run => UNCHANGED Lifecycle!vars
  BY DEF Lifecycle!vars

\* Every step of a worker is a step of the status diagram or a stutter.
LEMMA WorkerStepRefines ==
    ASSUME TypeOK, HolderInv, RowInv, NEW w \in Workers,
           Work(w) \/ Renew(w) \/ Fail(w) \/ Crash(w)
    PROVE  [Lifecycle!Next]_(Lifecycle!vars)
<1> USE DEF Lifecycle!vars, Lifecycle!Next, Lifecycle!Active, Lifecycle!Terminal
<1>1. run \in RunRow
  BY DEF TypeOK
<1>2. worker[w].pc \in Holding => run.status # "QUEUED"
  BY DEF HolderInv, QueuedUnheld
<1>3. CASE Exhaust(w)
  BY <1>1, <1>3 DEF Exhaust, Lifecycle!EndUnpublished, RunRow
<1>4. CASE Acquire(w)
  BY <1>1, <1>4 DEF Acquire, Leased, Lifecycle!PickUp, RunRow, Active
<1>5. CASE Renew(w)
  BY <1>1, <1>5 DEF Renew, RunRow
<1>6. CASE MarkFinalizing(w)
  <2>1. CASE run' = run
    BY <2>1, Stutter
  <2>2. CASE Fence(w) /\ ~run.cancelled /\ run' = [run EXCEPT !.status = "FINALIZING"]
    <3>1. run.status \in {"RUNNING", "FINALIZING"}
      BY <1>2, <1>6, <2>2 DEF MarkFinalizing, Fence, At, Holding, Active
    <3>2. QED
      BY <1>1, <2>2, <3>1 DEF Lifecycle!Freeze, RunRow
  <2>3. QED
    BY <1>6, <2>1, <2>2 DEF MarkFinalizing
<1>7. CASE TerminalWrite(w)
  <2> DEFINE st == UnpublishedOutcome(worker[w].verdict).status
             co == UnpublishedOutcome(worker[w].verdict).completeness
  <2>1. st \in Lifecycle!Terminal
    BY DEF UnpublishedOutcome
  <2>2. run.status # "QUEUED"
    BY <1>2, <1>7 DEF TerminalWrite, At, Holding
  <2>3. \/ run' = run
        \/ /\ run.status \in Active
           /\ run' = [run EXCEPT !.status = st, !.completeness = co, !.lease = 0]
    BY <1>7 DEF TerminalWrite, Fence
  <2> HIDE DEF st, co
  <2>4. QED
    BY <1>1, <2>1, <2>2, <2>3 DEF Lifecycle!EndUnpublished, RunRow, Active
<1>8. CASE Publish(w)
  BY <1>1, <1>8 DEF Publish, CanPublish, Lifecycle!Publish, RunRow
<1>9. CASE ~Exhaust(w) /\ ~Acquire(w) /\ ~Renew(w) /\ ~MarkFinalizing(w)
           /\ ~TerminalWrite(w) /\ ~Publish(w)
  <2>1. run' = run
    BY <1>9 DEF Work, Claim, Deliver, RescheduleEvent, ReadRun, AcquireFails, NoticeLoss,
       NoticeCancel, EndCrawl, CheckPublished, PublishRefused, Recheck, Fail, Crash
  <2>2. QED
    BY <2>1, Stutter
<1>10. QED
  BY <1>3, <1>4, <1>5, <1>6, <1>7, <1>8, <1>9

\* So is every step of a cancel call and every tick.
LEMMA EnvironmentStepRefines ==
    ASSUME TypeOK,
           \/ \E u \in Users : CancelRead(u) \/ CancelDirect(u) \/ CancelFlag(u)
           \/ Tick
           \/ UNCHANGED vars
    PROVE  [Lifecycle!Next]_(Lifecycle!vars)
<1> USE DEF Lifecycle!vars, Lifecycle!Next, Lifecycle!Active, Lifecycle!Terminal
<1>1. run \in RunRow
  BY DEF TypeOK
<1>2. ASSUME NEW u \in Users, CancelRead(u)
      PROVE  [Lifecycle!Next]_(Lifecycle!vars)
  BY <1>2 DEF CancelRead
<1>3. ASSUME NEW u \in Users, CancelDirect(u)
      PROVE  [Lifecycle!Next]_(Lifecycle!vars)
  BY <1>1, <1>3 DEF CancelDirect, Lifecycle!EndUnpublished, RunRow, Active
<1>4. ASSUME NEW u \in Users, CancelFlag(u)
      PROVE  [Lifecycle!Next]_(Lifecycle!vars)
  BY <1>1, <1>4 DEF CancelFlag, Lifecycle!AcceptCancel, RunRow, Active
<1>5. CASE Tick
  BY <1>1, <1>5 DEF Tick, RunRow
<1>6. CASE UNCHANGED vars
  BY <1>6 DEF vars
<1>7. QED
  BY <1>2, <1>3, <1>4, <1>5, <1>6

\* Whatever deliveries, leases, crashes and cancel calls do to each other, the
\* run's status, report and cancellation follow the diagram of RunLifecycle.
THEOREM Refinement == Spec => ImplementsLifecycle
<1>1. Init => Lifecycle!Init
  BY DEF Init, Lifecycle!Init
<1>2. TypeOK /\ HolderInv /\ RowInv /\ [Next]_vars => [Lifecycle!Next]_(Lifecycle!vars)
  <2> SUFFICES ASSUME TypeOK, HolderInv, RowInv, [Next]_vars
               PROVE  [Lifecycle!Next]_(Lifecycle!vars)
    OBVIOUS
  <2>1. CASE \E w \in Workers : Work(w) \/ Renew(w) \/ Fail(w) \/ Crash(w)
    BY <2>1, WorkerStepRefines
  <2>2. CASE \/ \E u \in Users : CancelRead(u) \/ CancelDirect(u) \/ CancelFlag(u)
             \/ Tick
             \/ UNCHANGED vars
    BY <2>2, EnvironmentStepRefines
  <2>3. QED
    BY <2>1, <2>2 DEF Next
<1>3. QED
  BY <1>1, <1>2, TypeCorrect, Invariance, PTL DEF Spec, ImplementsLifecycle, Lifecycle!Spec

-----------------------------------------------------------------------------
(* One worker process. *)

\* The only worker that there is.
Alone == \A v, w \in Workers : v = w

Settled == run.status \in Terminal \/ event.attempts > MaxDeliveries

\* What the only worker may rely on: nobody takes its run over, so that what it did
\* to the run is still there unless the run has ended.
SoloInv(w) ==
    /\ worker[w].pc \in Holding => worker[w].token = run.token \/ run.status \in Terminal
    /\ worker[w].pc \in {"checkPublished", "publish"} /\ worker[w].verdict # "unset"
       => run.status \in {"FINALIZING"} \cup Terminal
    /\ worker[w].pc = "recheck" => run.cancelled \/ run.status \in Terminal
    /\ worker[w].pc = "exhaust" => event.attempts > MaxDeliveries
    /\ worker[w].pc = "deliver" => Settled

\* Where nothing is asked of the worker.
LEMMA SoloFree ==
    ASSUME NEW w \in Workers,
           worker'[w].pc \in {"idle", "read", "acquire", "reschedule"}
    PROVE  SoloInv(w)'
  BY DEF SoloInv, Holding

LEMMA SoloWork ==
    ASSUME TypeOK, RowInv, NEW w \in Workers, SoloInv(w), DeliveredIsSettled,
           Work(w) \/ Renew(w) \/ Fail(w) \/ Crash(w),
           run.status \in Terminal => run' = run
    PROVE  SoloInv(w)' /\ DeliveredIsSettled'
<1>1. /\ run \in RunRow /\ event \in EventRow /\ worker[w] \in WorkerState
      /\ worker \in [Workers -> WorkerState]
      /\ run.published => run.status \in Terminal
      /\ MaxDeliveries \in Nat /\ event.attempts \in Nat
  BY CrawlRunAssumption DEF TypeOK, RowInv, ReportIsFull, EventRow, Terminal
<1>2. ASSUME event' = event
      PROVE  DeliveredIsSettled' /\ (Settled => Settled')
  <2>1. Settled => Settled'
    BY <1>2 DEF Settled
  <2>2. QED
    BY <1>1, <1>2, <2>1 DEF DeliveredIsSettled, Settled
<1>3. CASE Claim(w)
  <2>1. /\ event'.attempts = event.attempts + 1 /\ ~event'.delivered
        /\ UNCHANGED run
    BY <1>1, <1>3 DEF Claim, Claimed, Claimable, EventRow
  <2>2. worker'[w].pc = IF event.attempts + 1 > MaxDeliveries THEN "exhaust" ELSE "read"
    BY <1>1, <1>3 DEF Claim, IdleWorker, WorkerState
  <2>3. QED
    BY <2>1, <2>2 DEF SoloInv, Holding, DeliveredIsSettled
<1>4. CASE Exhaust(w)
  <2>1. event' = event /\ worker'[w].pc = "deliver" /\ event.attempts > MaxDeliveries
    BY <1>1, <1>4 DEF Exhaust, Goto, At, SoloInv, WorkerState
  <2>2. Settled'
    BY <2>1 DEF Settled
  <2>3. QED
    BY <1>2, <2>1, <2>2 DEF SoloInv, Holding
<1>5. CASE Deliver(w) \/ RescheduleEvent(w)
  <2>1. worker'[w].pc = "idle" /\ run' = run /\ event'.attempts = event.attempts
    <3>1. worker'[w].pc = "idle" /\ run' = run
      BY <1>1, <1>5 DEF Deliver, RescheduleEvent, IdleWorker
    <3>2. CASE Deliver(w)
      BY <1>1, <3>1, <3>2 DEF Deliver, MarkDelivered, EventRow
    <3>3. CASE RescheduleEvent(w)
      BY <1>1, <3>1, <3>3 DEF RescheduleEvent, Reschedule, EventRow
    <3>4. QED
      BY <1>5, <3>2, <3>3
  <2>2. event'.delivered => event.delivered \/ Settled
    BY <1>1, <1>5 DEF Deliver, RescheduleEvent, MarkDelivered, Reschedule, EventRow, At, SoloInv
  <2>3. DeliveredIsSettled'
    BY <1>1, <2>1, <2>2 DEF DeliveredIsSettled, Settled
  <2>4. QED
    BY <2>1, <2>3, SoloFree
<1>6. CASE Fail(w) \/ Crash(w) \/ AcquireFails(w)
  BY <1>1, <1>2, <1>6, SoloFree
  DEF Fail, Crash, AcquireFails, Goto, IdleWorker, WorkerState
<1>7. CASE ReadRun(w)
  <2>1. /\ event' = event /\ run' = run
        /\ worker'[w].pc = IF run.status \in Terminal THEN "deliver" ELSE "acquire"
    BY <1>1, <1>7 DEF ReadRun, WorkerState
  <2>2. QED
    BY <1>2, <2>1 DEF SoloInv, Holding, Settled
<1>8. CASE Acquire(w)
  <2>1. /\ event' = event /\ run'.token = run.token + 1 /\ worker'[w].token = run.token + 1
        /\ worker'[w].pc \in {"checkPublished", "finalize", "crawl"}
        /\ worker'[w].pc = "checkPublished" => worker'[w].verdict = "unset"
    BY <1>1, <1>8 DEF Acquire, Leased, WorkerState, RunRow, Plans
  <2>2. QED
    BY <1>2, <2>1 DEF SoloInv
<1>9. CASE Renew(w)
  <2>1. /\ event' = event /\ worker' = worker /\ run'.token = run.token
        /\ run'.status = run.status /\ run'.cancelled = run.cancelled
    BY <1>1, <1>9 DEF Renew, RunRow
  <2>2. QED
    BY <1>2, <2>1 DEF SoloInv, Settled
<1>10. CASE NoticeLoss(w)
  <2>1. /\ event' = event /\ run' = run /\ worker'[w].pc \in {"deliver", "reschedule"}
        /\ worker'[w].pc = "deliver" => run.token # worker[w].token
        /\ worker[w].pc \in Holding
    BY <1>1, <1>10 DEF NoticeLoss, Goto, WorkerState, At, Holding
  <2>2. QED
    BY <1>2, <2>1, SoloFree DEF SoloInv, Holding, Settled
<1>11. CASE NoticeCancel(w) \/ EndCrawl(w)
  <2>1. /\ event' = event /\ run' = run /\ worker'[w].pc = "finalize"
        /\ worker[w].pc \in Holding /\ worker'[w].token = worker[w].token
    BY <1>1, <1>11 DEF NoticeCancel, EndCrawl, WorkerState, At, Holding
  <2>2. QED
    BY <1>2, <2>1 DEF SoloInv, Holding
<1>12. CASE MarkFinalizing(w)
  <2>1. event' = event /\ worker[w].pc \in Holding
    BY <1>12 DEF MarkFinalizing, At, Holding
  <2>2. CASE ~Fence(w) /\ Goto(w, "deliver") /\ UNCHANGED run
    <3>1. run.status \in Terminal
      BY <1>1, <2>1, <2>2 DEF Fence, SoloInv, RunRow
    <3>2. QED
      BY <1>1, <1>2, <2>1, <2>2, <3>1 DEF SoloInv, Holding, Goto, WorkerState, Settled
  <2>3. CASE worker' = [worker EXCEPT ![w].verdict = "cancelled"] /\ UNCHANGED run
    <3>1. worker'[w].pc = "finalize" /\ worker'[w].token = worker[w].token
      BY <1>1, <1>12, <2>3 DEF MarkFinalizing, At, WorkerState
    <3>2. QED
      BY <1>2, <2>1, <2>3, <3>1 DEF SoloInv, Holding
  <2>4. CASE Fence(w) /\ run' = [run EXCEPT !.status = "FINALIZING"] /\ Goto(w, "checkPublished")
    <3>1. /\ run'.status = "FINALIZING" /\ run'.token = run.token
          /\ worker'[w].pc = "checkPublished" /\ worker'[w].token = worker[w].token
      BY <1>1, <2>4 DEF RunRow, Goto, WorkerState
    <3>2. QED
      BY <1>2, <2>1, <2>4, <3>1 DEF SoloInv, Fence
  <2>5. QED
    BY <1>12, <2>2, <2>3, <2>4 DEF MarkFinalizing
<1>13. CASE TerminalWrite(w)
  <2>1. event' = event /\ worker[w].pc \in Holding /\ worker'[w].pc = "deliver"
    BY <1>1, <1>13 DEF TerminalWrite, At, Holding, Goto, WorkerState
  <2>2. run'.status \in Terminal
    <3> DEFINE st == UnpublishedOutcome(worker[w].verdict).status
               co == UnpublishedOutcome(worker[w].verdict).completeness
    <3>1. st \in Terminal
      BY DEF UnpublishedOutcome, Terminal
    <3>2. run' = IF Fence(w) THEN [run EXCEPT !.status = st, !.completeness = co, !.lease = 0] ELSE run
      BY <1>13 DEF TerminalWrite
    <3> HIDE DEF st, co
    <3>3. ~Fence(w) => run.status \in Terminal
      BY <1>1, <2>1 DEF Fence, SoloInv, RunRow
    <3>4. QED
      BY <1>1, <3>1, <3>2, <3>3 DEF RunRow
  <2>3. QED
    BY <1>2, <2>1, <2>2 DEF SoloInv, Holding, Settled
<1>14. CASE CheckPublished(w)
  <2>1. /\ event' = event /\ run' = run /\ worker[w].pc = "checkPublished"
        /\ worker'[w].pc = IF run.published THEN "deliver" ELSE "publish"
        /\ worker'[w].token = worker[w].token /\ worker'[w].verdict = worker[w].verdict
    BY <1>1, <1>14 DEF CheckPublished, At, Goto, WorkerState
  <2>2. QED
    BY <1>1, <1>2, <2>1 DEF SoloInv, Holding, Settled
<1>15. CASE Publish(w)
  <2>1. event' = event /\ worker'[w].pc = "deliver" /\ run'.status \in Terminal
    BY <1>1, <1>15 DEF Publish, Goto, WorkerState, RunRow, Terminal
  <2>2. QED
    BY <1>2, <2>1 DEF SoloInv, Holding, Settled
<1>16. CASE PublishRefused(w)
  <2>1. /\ event' = event /\ run' = run /\ worker[w].pc = "publish"
        /\ worker'[w].pc = IF worker[w].verdict = "unset" THEN "crawl" ELSE "recheck"
        /\ worker'[w].token = worker[w].token
    BY <1>1, <1>16 DEF PublishRefused, At, Goto, WorkerState
  <2>2. worker[w].token = run.token \/ run.status \in Terminal
    BY <2>1 DEF SoloInv, Holding
  <2>3. worker[w].verdict # "unset" => run.cancelled \/ run.status \in Terminal
    BY <1>1, <1>16, <2>1, <2>2 DEF PublishRefused, CanPublish, Fence, SoloInv, RunRow
  <2>4. QED
    BY <1>2, <2>1, <2>2, <2>3 DEF SoloInv
<1>17. CASE Recheck(w)
  <2>1. /\ event' = event /\ run' = run /\ worker[w].pc = "recheck"
        /\ worker'[w].pc = IF run.cancelled THEN "finalize" ELSE "deliver"
        /\ worker'[w].token = worker[w].token
    BY <1>1, <1>17 DEF Recheck, At, WorkerState
  <2>2. QED
    BY <1>2, <2>1 DEF SoloInv, Holding, Settled
<1>18. QED
  BY <1>3, <1>4, <1>5, <1>6, <1>7, <1>8, <1>9, <1>10, <1>11, <1>12, <1>13, <1>14, <1>15, <1>16,
     <1>17 DEF Work

\* Users, time and stutters move no worker.
LEMMA SoloWorld ==
    ASSUME TypeOK, NEW w \in Workers, SoloInv(w), DeliveredIsSettled,
           \/ \E u \in Users : CancelRead(u) \/ CancelDirect(u) \/ CancelFlag(u)
           \/ Tick
           \/ UNCHANGED vars
    PROVE  SoloInv(w)' /\ DeliveredIsSettled'
<1>1. run \in RunRow /\ event \in EventRow
  BY DEF TypeOK
<1>2. worker' = worker /\ event'.attempts = event.attempts /\ event'.delivered = event.delivered
  BY <1>1 DEF CancelRead, CancelDirect, CancelFlag, Tick, vars, EventTick, EventRow
<1>3. \/ /\ run'.status = run.status /\ run'.token = run.token
         /\ run.cancelled => run'.cancelled
      \/ run'.status \in Terminal
  BY <1>1 DEF CancelRead, CancelDirect, CancelFlag, Tick, vars, RunRow, Terminal
<1>4. Settled => Settled'
  BY <1>1, <1>2, <1>3 DEF Settled, CancelRead, CancelDirect, CancelFlag, Tick, vars, RunRow,
     Terminal, Active
<1>5. SoloInv(w)'
  BY <1>2, <1>3, <1>4 DEF SoloInv
<1>6. DeliveredIsSettled'
  BY <1>2, <1>3 DEF DeliveredIsSettled
<1>7. QED
  BY <1>5, <1>6

\* With one worker process, an event is acknowledged only when its run has ended or
\* MAX_CRAWL_DELIVERIES are used up: no return of executeCrawl leaves a run behind
\* that nothing will be delivered for (processCrawlJob, markDelivered).
THEOREM DeliveredIsSettledAlone ==
    ASSUME Alone
    PROVE  Spec => []DeliveredIsSettled
<1> DEFINE Inv == DeliveredIsSettled /\ \A w \in Workers : SoloInv(w)
<1>1. Init => Inv
  BY DEF Init, NewEvent, IdleWorker, SoloInv, Holding, DeliveredIsSettled
<1>2. TypeOK /\ RowInv /\ Inv /\ [Next]_vars => Inv'
  <2> SUFFICES ASSUME TypeOK, RowInv, Inv, [Next]_vars PROVE Inv'
    OBVIOUS
  <2>1. run.status \in Terminal => run' = run
    BY TerminalStays
  <2>2. ASSUME NEW w \in Workers, Work(w) \/ Renew(w) \/ Fail(w) \/ Crash(w)
        PROVE  Inv'
    <3>1. SoloInv(w)' /\ DeliveredIsSettled'
      BY <2>1, <2>2, SoloWork
    <3>2. \A v \in Workers : v = w
      BY Alone DEF Alone
    <3>3. QED
      BY <3>1, <3>2
  <2>3. CASE \/ \E u \in Users : CancelRead(u) \/ CancelDirect(u) \/ CancelFlag(u)
             \/ Tick
             \/ UNCHANGED vars
    <3>1. \A w \in Workers : SoloInv(w)' /\ DeliveredIsSettled'
      BY <2>3, SoloWorld
    <3>2. CASE Workers = {}
      BY <2>3, <3>2 DEF DeliveredIsSettled, TypeOK, EventRow, RunRow, CancelRead, CancelDirect,
         CancelFlag, Tick, vars, EventTick, Terminal
    <3>3. QED
      BY <3>1, <3>2
  <2>4. QED
    BY <2>2, <2>3 DEF Next
<1>3. Inv => DeliveredIsSettled
  OBVIOUS
<1> HIDE DEF Inv
<1>4. QED
  BY <1>1, <1>2, <1>3, TypeCorrect, Invariance, PTL DEF Spec
=============================================================================
