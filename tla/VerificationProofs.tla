-------------------------- MODULE VerificationProofs --------------------------
(***************************************************************************)
(* What Verification guarantees for every number of workers, challenges,   *)
(* attempts and faults.                                                    *)
(*                                                                         *)
(* A transaction writes only under the claim it was started for, and then  *)
(* writes the result together with the acknowledgement; a challenge that   *)
(* is no longer the latest has settled, because a new one is only made     *)
(* once the last one has.  The attempts are bounded because a claim that   *)
(* is not given back costs a fault.                                        *)
(***************************************************************************)
EXTENDS Verification, TLAPS

Statuses == {"none", "PENDING", "RUNNING"} \cup Settled

Events == [delivered : BOOLEAN, attempts : 0..MaxAttempts + MaxFaults,
           claimToken : Nat, claim : 0..ClaimTTL, delay : 0..RetryBase * MaxAttempts]

WorkerStates == [pc : {"idle", "begin", "lookup", "commit"},
                 version : 0..MaxChallenges, claim : Nat, matched : BOOLEAN]

\* The challenges that exist are those up to the latest.
Requested == \A v \in Versions : verification[v] = "none" <=> v > latest

\* A worker that is not idle works, under a claim, on a challenge that exists.
WorksOnRequested ==
    \A w \in Workers : worker[w].pc # "idle" =>
        /\ worker[w].version \in Versions /\ worker[w].version <= latest
        /\ worker[w].claim # NoClaim

\* A token that is stored is the number of the attempt it was handed out for.
TokensAreAttempts ==
    \A v \in Versions : event[v].claimToken # NoClaim => event[v].claimToken = event[v].attempts

\* Worker w holds the live claim on the event of v.
Holds(w, v) == /\ worker[w].pc # "idle"
               /\ worker[w].version = v
               /\ worker[w].claim = event[v].claimToken
               /\ event[v].claim > 0

\* An attempt beyond the last one costs a fault, counting the attempt under way.
AttemptsBounded ==
    \A v \in Versions :
        /\ event[v].attempts <= MaxAttempts + faults
        /\ event[v].delivered \/ (\E w \in Workers : Holds(w, v))
             \/ event[v].attempts < MaxAttempts + faults

IInv == /\ TypeOK /\ Requested /\ WorksOnRequested /\ AckIsAtomic /\ OneActiveCheck
        /\ TokensAreAttempts /\ AttemptsBounded

USE VerificationAssumption, ClaimTTLAssumption

-----------------------------------------------------------------------------
(* Lemmas about one row of the outbox. *)

LEMMA DelayBound ==
    ASSUME NEW n \in Nat, n <= MaxAttempts
    PROVE  RetryBase * n \in 0..RetryBase * MaxAttempts
<1>1. RetryBase * n \in Nat /\ RetryBase * MaxAttempts \in Nat
  OBVIOUS
<1>2. RetryBase * n <= RetryBase * MaxAttempts
  BY SMTT(30)
<1> QED  BY <1>1, <1>2

\* What the operators of the outbox return are rows.
LEMMA RowTypes ==
    ASSUME NEW e \in Events
    PROVE  /\ e.attempts < MaxAttempts + MaxFaults => Claimed(e) \in Events
           /\ \A token \in Nat : MarkDelivered(e, token) \in Events
           /\ \A token \in Nat, d \in 0..RetryBase * MaxAttempts : Reschedule(e, token, d) \in Events
           /\ EventTick(e) \in Events
<1> DEFINE A == 0..MaxAttempts + MaxFaults
           C == 0..ClaimTTL
           D == 0..RetryBase * MaxAttempts
           Rows == [delivered : BOOLEAN, attempts : A, claimToken : Nat, claim : C, delay : D]
<1>1. e.attempts \in Nat /\ e.claim \in Nat /\ e.delay \in Nat
  BY DEF Events
<1>2. Less(e.claim) \in C /\ Less(e.delay) \in D
  BY <1>1 DEF Less, Events
<1>3. e.attempts < MaxAttempts + MaxFaults => e.attempts + 1 \in A
  BY <1>1
<1>4. 0 \in C /\ ClaimTTL \in C /\ 0 \in Nat /\ e.attempts + 1 \in Nat
  BY <1>1
<1>5. e \in Rows
  BY DEF Events
<1>6. Events = Rows
  BY DEF Events
<1> HIDE DEF A, C, D
<1>7. e.attempts < MaxAttempts + MaxFaults => Claimed(e) \in Rows
  BY <1>3, <1>4, <1>5 DEF Claimed
<1>8. \A token \in Nat : MarkDelivered(e, token) \in Rows
  BY <1>4, <1>5 DEF MarkDelivered, NoClaim
<1>9. \A token \in Nat, d \in D : Reschedule(e, token, d) \in Rows
  BY <1>4, <1>5 DEF Reschedule, NoClaim
<1>10. EventTick(e) \in Rows
  BY <1>2, <1>5 DEF EventTick
<1> QED  BY <1>6, <1>7, <1>8, <1>9, <1>10 DEF D
-----------------------------------------------------------------------------
(* Transactions. *)

\* The three outcomes of a transaction.
LEMMA WriteCases ==
    ASSUME TypeOK, NEW w \in Workers, NEW s, NEW e, Write(w, s, e),
           worker[w].version \in Versions
    PROVE  LET v == worker[w].version
           IN  \/ ~Live(w) /\ verification' = verification /\ event' = event
               \/ /\ Live(w) /\ ~Current(w) /\ verification' = verification
                  /\ event' = [event EXCEPT ![v] = MarkDelivered(event[v], worker[w].claim)]
               \/ /\ Live(w) /\ Current(w)
                  /\ verification' = [verification EXCEPT ![v] = s]
                  /\ event' = [event EXCEPT ![v] = e]
<1>1. CASE ~Live(w)
  BY <1>1 DEF Write
<1>2. CASE Live(w) /\ ~Current(w)
  BY <1>2 DEF Write
<1>3. CASE Live(w) /\ Current(w)
  BY <1>3 DEF Write
<1> QED  BY <1>1, <1>2, <1>3

\* What a transaction may write: the status s, and with it the row e.
MayWrite(w, s, e) ==
    LET v == worker[w].version
    IN  /\ s \in Statuses \ {"none"}
        /\ e \in Events
        /\ Live(w) => /\ e.delivered <=> s \in Settled
                      /\ e.attempts = event[v].attempts
                      /\ e.claimToken \in {NoClaim, event[v].claimToken}

\* Such a transaction preserves what relates challenges and events.
LEMMA WritePreserves ==
    ASSUME IInv, NEW w \in Workers, worker[w].pc # "idle", NEW s, NEW e,
           MayWrite(w, s, e), Write(w, s, e), UNCHANGED latest
    PROVE  /\ verification' \in [Versions -> Statuses]
           /\ event' \in [Versions -> Events]
           /\ \A v \in Versions : event'[v].attempts = event[v].attempts
           /\ Requested' /\ AckIsAtomic' /\ OneActiveCheck' /\ TokensAreAttempts'
<1> DEFINE v == worker[w].version
<1>1. /\ v \in Versions /\ v <= latest /\ latest \in Nat /\ v \in Nat
      /\ event \in [Versions -> Events] /\ verification \in [Versions -> Statuses]
      /\ worker[w].claim \in Nat
  <2>1. v \in Versions /\ v <= latest
    BY DEF IInv, WorksOnRequested
  <2>2. latest \in Nat /\ v \in Nat
    BY <2>1 DEF IInv, TypeOK, Versions
  <2>3. event \in [Versions -> Events] /\ verification \in [Versions -> Statuses]
    BY DEF IInv, TypeOK, Events, Statuses
  <2>4. worker[w].claim \in Nat
    BY DEF IInv, TypeOK
  <2> QED  BY <2>1, <2>2, <2>3, <2>4
<1>a. Requested /\ AckIsAtomic /\ OneActiveCheck /\ TokensAreAttempts
  BY DEF IInv
<1>b. IInv => TypeOK
  BY DEF IInv
<1>2. CASE ~Live(w) /\ verification' = verification /\ event' = event
  BY <1>1, <1>2, <1>a DEF Requested, AckIsAtomic, OneActiveCheck, TokensAreAttempts
<1>3. CASE /\ Live(w) /\ ~Current(w) /\ verification' = verification
           /\ event' = [event EXCEPT ![v] = MarkDelivered(event[v], worker[w].claim)]
  <2>1. ~event[v].delivered
    BY <1>3 DEF Live
  <2>2. verification[v] \notin Settled /\ verification[v] # "none"
    BY <1>1, <1>a, <2>1 DEF AckIsAtomic, Requested
  <2>3. v = latest
    BY <1>1, <1>a, <2>2 DEF OneActiveCheck, Statuses
  <2> QED  BY <1>3, <2>2, <2>3 DEF Current
<1>4. CASE /\ Live(w) /\ Current(w)
           /\ verification' = [verification EXCEPT ![v] = s]
           /\ event' = [event EXCEPT ![v] = e]
  <2>1. /\ e \in Events /\ s \in Statuses /\ s # "none" /\ (e.delivered <=> s \in Settled)
        /\ e.attempts = event[v].attempts /\ e.claimToken \in {NoClaim, event[v].claimToken}
        /\ v = latest
    BY <1>4 DEF MayWrite, Current
  <2> HIDE DEF v
  <2>2. /\ verification'[v] = s /\ event'[v] = e
        /\ \A u \in Versions : u # v => verification'[u] = verification[u] /\ event'[u] = event[u]
    BY <1>1, <1>4
  <2>3. verification' \in [Versions -> Statuses] /\ event' \in [Versions -> Events]
    BY <1>1, <1>4, <2>1
  <2>4. \A u \in Versions : event'[u].attempts = event[u].attempts
    BY <2>1, <2>2
  <2>5. Requested'
    BY <1>1, <1>a, <2>1, <2>2 DEF Requested
  <2>6. AckIsAtomic'
    BY <1>a, <2>1, <2>2 DEF AckIsAtomic
  <2>7. OneActiveCheck'
    BY <1>a, <2>1, <2>2 DEF OneActiveCheck
  <2>8. TokensAreAttempts'
    BY <1>a, <2>1, <2>2 DEF TokensAreAttempts
  <2> QED  BY <2>3, <2>4, <2>5, <2>6, <2>7, <2>8
<1> QED  BY <1>1, <1>2, <1>3, <1>4, <1>b, WriteCases

\* Each of the four transactions is one of those.
LEMMA Transactions ==
    ASSUME IInv, NEW w \in Workers, worker[w].pc # "idle"
    PROVE  LET e == event[worker[w].version]
               n == worker[w].claim
           IN  /\ MayWrite(w, "RUNNING", e)
               /\ MayWrite(w, "SUCCEEDED", MarkDelivered(e, n))
               /\ MayWrite(w, "FAILED", MarkDelivered(e, n))
               /\ ~LastAttempt(n) => MayWrite(w, "PENDING", Reschedule(e, n, RetryBase * n))
<1> DEFINE e == event[worker[w].version]
           n == worker[w].claim
<1>1. e \in Events /\ n \in Nat
  BY DEF IInv, WorksOnRequested, TypeOK, Events
<1>2. Live(w) => ~e.delivered /\ e.claimToken = n
  BY DEF Live
<1>3. MarkDelivered(e, n) \in Events
  BY <1>1, RowTypes
<1>4. ~LastAttempt(n) => Reschedule(e, n, RetryBase * n) \in Events
  <2>1. ~LastAttempt(n) => RetryBase * n \in 0..RetryBase * MaxAttempts
    BY <1>1, DelayBound DEF LastAttempt
  <2> QED  BY <1>1, <2>1, RowTypes
<1> HIDE DEF e, n
<1>5. Live(w) => LET m == MarkDelivered(e, n)
                 IN  m.delivered /\ m.attempts = e.attempts /\ m.claimToken = NoClaim
  BY <1>1, <1>2 DEF MarkDelivered, Owns, Events
<1>6. \A d : Live(w) => LET m == Reschedule(e, n, d)
                        IN  ~m.delivered /\ m.attempts = e.attempts /\ m.claimToken = NoClaim
  BY <1>1, <1>2 DEF Reschedule, Owns, Events
<1>7. MayWrite(w, "RUNNING", e)
  BY <1>1, <1>2 DEF MayWrite, Statuses, Settled, e
<1>8. MayWrite(w, "SUCCEEDED", MarkDelivered(e, n)) /\ MayWrite(w, "FAILED", MarkDelivered(e, n))
  BY <1>3, <1>5 DEF MayWrite, Statuses, Settled, e
<1>9. ~LastAttempt(n) => MayWrite(w, "PENDING", Reschedule(e, n, RetryBase * n))
  BY <1>4, <1>6 DEF MayWrite, Statuses, Settled, e
<1> QED  BY <1>7, <1>8, <1>9 DEF e, n
\* A transaction lets the attempts go beyond the last one no further: it settles or
\* gives up the event, gives it back before the last attempt, or keeps the claim.
LEMMA WriteBounded ==
    ASSUME IInv, NEW w \in Workers, worker[w].pc # "idle", NEW s, NEW e,
           MayWrite(w, s, e), Write(w, s, e), UNCHANGED <<latest, faults>>,
           \A u \in Workers : u # w => worker'[u] = worker[u],
           Live(w) /\ Current(w) =>
              \/ e.delivered
              \/ e.attempts < MaxAttempts
              \/ e = event[worker[w].version] /\ worker' = [worker EXCEPT ![w].pc = "lookup"]
    PROVE  AttemptsBounded'
<1> DEFINE v == worker[w].version
<1>1. SUFFICES ASSUME NEW u \in Versions
               PROVE  /\ event'[u].attempts <= MaxAttempts + faults
                      /\ event'[u].delivered \/ (\E x \in Workers : Holds(x, u)')
                           \/ event'[u].attempts < MaxAttempts + faults
  BY DEF AttemptsBounded, IInv
<1>2. event'[u].attempts = event[u].attempts
  BY WritePreserves
<1>3. /\ event[u].attempts <= MaxAttempts + faults
      /\ event[u].delivered \/ (\E x \in Workers : Holds(x, u))
           \/ event[u].attempts < MaxAttempts + faults
  BY DEF IInv, AttemptsBounded
<1>4. v \in Versions /\ event \in [Versions -> Events] /\ faults \in Nat /\ event[u].attempts \in Nat
  <2>1. event \in [Versions -> Events]
    BY DEF IInv, TypeOK, Events
  <2>2. event[u].attempts \in Nat
    BY <2>1 DEF Events
  <2> QED  BY <2>1, <2>2 DEF IInv, WorksOnRequested, TypeOK
<1>5. ASSUME NEW x \in Workers, x # w, Holds(x, u), event'[u] = event[u] PROVE Holds(x, u)'
  BY <1>5 DEF Holds
<1>6. CASE u # v
  <2>1. event'[u] = event[u]
    BY <1>4, <1>6, WriteCases DEF IInv
  <2>2. ~Holds(w, u)
    BY <1>6 DEF Holds
  <2> QED  BY <1>3, <1>5, <2>1, <2>2
<1>7. CASE u = v /\ ~Live(w)
  <2>1. event'[u] = event[u]
    BY <1>4, <1>7, WriteCases DEF IInv
  <2>2. event[u].delivered \/ ~Holds(w, u)
    BY <1>7 DEF Holds, Live
  <2> QED  BY <1>3, <1>5, <2>1, <2>2
<1>8. CASE u = v /\ Live(w) /\ ~Current(w)
  <2>1. event'[u] = MarkDelivered(event[u], worker[w].claim)
    BY <1>4, <1>8, WriteCases DEF IInv
  <2>2. event[u].claimToken = worker[w].claim
    BY <1>8 DEF Live
  <2>3. event'[u].delivered
    BY <1>4, <2>1, <2>2 DEF MarkDelivered, Owns, Events
  <2> QED  BY <1>2, <1>3, <2>3
<1>9. CASE u = v /\ Live(w) /\ Current(w)
  <2>1. event'[u] = e
    BY <1>4, <1>9, WriteCases DEF IInv
  <2>2. CASE e.delivered
    BY <1>2, <1>3, <2>1, <2>2
  <2>3. CASE e.attempts < MaxAttempts
    <3>1. event[u].attempts < MaxAttempts + faults
      BY <1>2, <1>4, <2>1, <2>3
    <3> QED  BY <1>2, <1>3, <3>1
  <2>4. CASE e = event[v] /\ worker' = [worker EXCEPT ![w].pc = "lookup"]
    <3>1. worker'[w].pc = "lookup" /\ worker'[w].version = v /\ worker'[w].claim = worker[w].claim
      BY <2>4 DEF IInv, TypeOK
    <3>2. event[u].claimToken = worker[w].claim /\ event[u].claim > 0
      BY <1>9 DEF Live
    <3>3. Holds(w, u)'
      BY <1>9, <2>1, <2>4, <3>1, <3>2 DEF Holds
    <3> QED  BY <1>2, <1>3, <3>3
  <2> QED  BY <1>9, <2>2, <2>3, <2>4
<1> QED  BY <1>6, <1>7, <1>8, <1>9

\* What a process does next is remembered right.
LEMMA WorkerMoves ==
    ASSUME IInv, NEW w \in Workers, UNCHANGED latest,
           \/ worker' = [worker EXCEPT ![w] = IdleWorker]
           \/ worker[w].pc # "idle" /\ worker' = [worker EXCEPT ![w].pc = "lookup"]
           \/ worker[w].pc # "idle"
                /\ \E f \in BOOLEAN : worker' = [worker EXCEPT ![w].pc = "commit", ![w].matched = f]
    PROVE  /\ worker' \in [Workers -> WorkerStates]
           /\ WorksOnRequested'
<1>1. worker \in [Workers -> WorkerStates] /\ MaxChallenges \in Nat
  BY DEF IInv, TypeOK, WorkerStates
<1>2. CASE worker' = [worker EXCEPT ![w] = IdleWorker]
  <2>1. IdleWorker \in WorkerStates /\ IdleWorker.pc = "idle"
    BY <1>1 DEF IdleWorker, WorkerStates, NoClaim
  <2> QED  BY <1>1, <1>2, <2>1 DEF IInv, WorksOnRequested
<1>3. ASSUME NEW r \in WorkerStates, worker' = [worker EXCEPT ![w] = r], worker[w].pc # "idle",
             r.version = worker[w].version, r.claim = worker[w].claim
      PROVE  worker' \in [Workers -> WorkerStates] /\ WorksOnRequested'
  BY <1>1, <1>3 DEF IInv, WorksOnRequested
<1>4. CASE worker[w].pc # "idle" /\ worker' = [worker EXCEPT ![w].pc = "lookup"]
  <2>1. worker[w] \in WorkerStates
    BY <1>1
  <2>2. [worker[w] EXCEPT !.pc = "lookup"] \in WorkerStates
    BY <2>1 DEF WorkerStates
  <2>3. /\ [worker[w] EXCEPT !.pc = "lookup"].version = worker[w].version
        /\ [worker[w] EXCEPT !.pc = "lookup"].claim = worker[w].claim
    BY <2>1 DEF WorkerStates
  <2>4. worker' = [worker EXCEPT ![w] = [worker[w] EXCEPT !.pc = "lookup"]]
    BY <1>4
  <2> QED  BY <1>3, <1>4, <2>2, <2>3, <2>4
<1>5. ASSUME worker[w].pc # "idle", NEW f \in BOOLEAN,
             worker' = [worker EXCEPT ![w].pc = "commit", ![w].matched = f]
      PROVE  worker' \in [Workers -> WorkerStates] /\ WorksOnRequested'
  <2>1. worker[w] \in WorkerStates
    BY <1>1
  <2>2. [worker[w] EXCEPT !.pc = "commit", !.matched = f] \in WorkerStates
    BY <2>1 DEF WorkerStates
  <2>3. /\ [worker[w] EXCEPT !.pc = "commit", !.matched = f].version = worker[w].version
        /\ [worker[w] EXCEPT !.pc = "commit", !.matched = f].claim = worker[w].claim
    BY <2>1 DEF WorkerStates
  <2>4. worker' = [worker EXCEPT ![w] = [worker[w] EXCEPT !.pc = "commit", !.matched = f]]
    BY <1>5
  <2> QED  BY <1>3, <1>5, <2>2, <2>3, <2>4
<1> QED  BY <1>2, <1>4, <1>5

\* A whole transaction of a worker.
LEMMA TransactionInv ==
    ASSUME IInv, NEW w \in Workers, worker[w].pc # "idle", NEW s, NEW e,
           MayWrite(w, s, e), Write(w, s, e), UNCHANGED <<latest, record, faults>>,
           project' \in {"PENDING_VERIFICATION", "ACTIVE"},
           Live(w) /\ Current(w) =>
              \/ e.delivered
              \/ e.attempts < MaxAttempts
              \/ e = event[worker[w].version] /\ worker' = [worker EXCEPT ![w].pc = "lookup"],
           \/ worker' = [worker EXCEPT ![w] = IdleWorker]
           \/ worker' = [worker EXCEPT ![w].pc = "lookup"]
    PROVE  IInv'
<1>1. /\ verification' \in [Versions -> Statuses] /\ event' \in [Versions -> Events]
      /\ Requested' /\ AckIsAtomic' /\ OneActiveCheck' /\ TokensAreAttempts'
  BY WritePreserves
<1>2. worker' \in [Workers -> WorkerStates] /\ WorksOnRequested'
  BY WorkerMoves
<1>3. \A u \in Workers : u # w => worker'[u] = worker[u]
  BY DEF IInv, TypeOK
<1>4. AttemptsBounded'
  BY <1>3, WriteBounded
<1>5. TypeOK'
  BY <1>1, <1>2 DEF IInv, TypeOK, Statuses, Events, WorkerStates
<1> QED  BY <1>1, <1>2, <1>4, <1>5 DEF IInv
-----------------------------------------------------------------------------
(* The invariant is inductive. *)

LEMMA InitInv == Init => IInv
<1> SUFFICES ASSUME Init PROVE IInv
  OBVIOUS
<1>1. TypeOK
  <2>1. NewEvent \in Events
    <3>1. 0 \in 0..MaxAttempts + MaxFaults /\ 0 \in 0..ClaimTTL
      OBVIOUS
    <3>2. 0 \in 0..RetryBase * MaxAttempts
      BY DelayBound
    <3> QED  BY <3>1, <3>2 DEF NewEvent, Events, NoClaim
  <2>2. IdleWorker \in WorkerStates
    BY DEF IdleWorker, WorkerStates, NoClaim
  <2> QED  BY <2>1, <2>2 DEF Init, TypeOK, Events, WorkerStates
<1>2. Requested /\ WorksOnRequested /\ AckIsAtomic /\ OneActiveCheck
  BY DEF Init, Requested, WorksOnRequested, AckIsAtomic, OneActiveCheck, NewEvent, IdleWorker,
         Settled, Versions
<1>3. TokensAreAttempts /\ AttemptsBounded
  BY DEF Init, TokensAreAttempts, AttemptsBounded, NewEvent, NoClaim
<1> QED  BY <1>1, <1>2, <1>3 DEF IInv

LEMMA StepRequest == IInv /\ Request => IInv'
<1> SUFFICES ASSUME IInv, Request PROVE IInv'
  OBVIOUS
<1> DEFINE n == latest + 1
<1>1. n \in Versions /\ latest \in Nat /\ latest' = n /\ n \in 0..MaxChallenges
      /\ verification \in [Versions -> Statuses]
  BY DEF IInv, TypeOK, Request, MayRotate, Versions, Statuses
<1>2. verification' = [verification EXCEPT ![n] = "PENDING"]
  BY DEF Request
<1>3. \A v \in Versions : verification[v] \in {"PENDING", "RUNNING"} => FALSE
  <2>1. SUFFICES ASSUME NEW v \in Versions, verification[v] \in {"PENDING", "RUNNING"} PROVE FALSE
    OBVIOUS
  <2>2. v = latest /\ latest > 0
    BY <1>1, <2>1 DEF IInv, OneActiveCheck, Versions
  <2> QED  BY <2>1, <2>2 DEF Request, MayRotate, Settled
<1>4. verification[n] = "none" /\ ~event[n].delivered
  BY <1>1 DEF IInv, Requested, AckIsAtomic, Settled
<1> HIDE DEF n
<1>5. TypeOK'
  <2>1. verification' \in [Versions -> Statuses]
    BY <1>1, <1>2 DEF Statuses
  <2> QED  BY <1>1, <2>1 DEF IInv, TypeOK, Request, Statuses
<1>6. Requested'
  <2>1. \A v \in Versions : v > n <=> v > latest /\ v # n
    BY <1>1 DEF n, Versions
  <2> QED  BY <1>1, <1>2, <2>1 DEF IInv, Requested
<1>7. WorksOnRequested'
  BY <1>1 DEF IInv, WorksOnRequested, Request, n, Versions
<1>8. AckIsAtomic'
  BY <1>1, <1>2, <1>4 DEF IInv, AckIsAtomic, Request, Settled
<1>9. OneActiveCheck'
  BY <1>1, <1>2, <1>3 DEF OneActiveCheck
<1>10. TokensAreAttempts' /\ AttemptsBounded'
  BY DEF IInv, TokensAreAttempts, AttemptsBounded, Holds, Request
<1> QED  BY <1>5, <1>6, <1>7, <1>8, <1>9, <1>10 DEF IInv

LEMMA StepClaim == ASSUME IInv, NEW w \in Workers, Claim(w) PROVE IInv'
<1>1. PICK v \in 1..latest :
           /\ Claimable(event[v])
           /\ event' = [event EXCEPT ![v] = Claimed(event[v])]
           /\ worker' = [worker EXCEPT ![w] = [pc |-> "begin", version |-> v, matched |-> FALSE,
                                               claim |-> Claimed(event[v]).claimToken]]
  BY DEF Claim
<1>2. /\ v \in Versions /\ v \in 0..MaxChallenges /\ v <= latest
      /\ event \in [Versions -> Events] /\ event[v] \in Events
      /\ worker \in [Workers -> WorkerStates] /\ faults \in Nat /\ faults <= MaxFaults
  <2>1. v \in Versions /\ v \in 0..MaxChallenges /\ v <= latest
    BY DEF IInv, TypeOK, Versions
  <2>2. event \in [Versions -> Events] /\ worker \in [Workers -> WorkerStates]
    BY DEF IInv, TypeOK, Events, WorkerStates
  <2> QED  BY <2>1, <2>2 DEF IInv, TypeOK
<1>3. ~(\E x \in Workers : Holds(x, v)) /\ ~event[v].delivered
  BY <1>1 DEF Holds, Claimable
<1>4. event[v].attempts < MaxAttempts + faults /\ event[v].attempts \in Nat
  BY <1>2, <1>3 DEF IInv, AttemptsBounded, Events
<1>5. Claimed(event[v]) \in Events
  <2>1. event[v].attempts < MaxAttempts + MaxFaults
    BY <1>2, <1>4
  <2> QED  BY <1>2, <2>1, RowTypes
<1>6. LET e == Claimed(event[v])
      IN  /\ e.delivered = event[v].delivered /\ e.claimToken = e.attempts
          /\ e.attempts = event[v].attempts + 1 /\ e.claim > 0
  BY <1>2, <1>4 DEF Claimed, Events
<1>7. UNCHANGED <<verification, latest, project, record, faults>>
  BY DEF Claim
<1>8. event'[v] = Claimed(event[v]) /\ \A u \in Versions : u # v => event'[u] = event[u]
  BY <1>1, <1>2
<1>9. /\ worker'[w].pc = "begin" /\ worker'[w].version = v
      /\ worker'[w].claim = Claimed(event[v]).claimToken
      /\ \A x \in Workers : x # w => worker'[x] = worker[x]
  BY <1>1, <1>2
<1>10. TypeOK'
  <2>1. event' \in [Versions -> Events]
    BY <1>1, <1>2, <1>5
  <2>2. [pc |-> "begin", version |-> v, matched |-> FALSE,
         claim |-> Claimed(event[v]).claimToken] \in WorkerStates
    BY <1>2, <1>5 DEF WorkerStates, Events
  <2>3. worker' \in [Workers -> WorkerStates]
    BY <1>1, <1>2, <2>2
  <2> QED  BY <1>7, <2>1, <2>3 DEF IInv, TypeOK, Events, WorkerStates
<1>11. Requested' /\ OneActiveCheck'
  BY <1>7 DEF IInv, Requested, OneActiveCheck
<1>12. AckIsAtomic'
  BY <1>6, <1>7, <1>8 DEF IInv, AckIsAtomic
<1>13. WorksOnRequested'
  BY <1>2, <1>4, <1>6, <1>7, <1>9 DEF IInv, WorksOnRequested, NoClaim
<1>14. TokensAreAttempts'
  BY <1>6, <1>8 DEF IInv, TokensAreAttempts
<1>15. AttemptsBounded'
  <2>1. SUFFICES ASSUME NEW u \in Versions
                 PROVE  /\ event'[u].attempts <= MaxAttempts + faults'
                        /\ event'[u].delivered \/ (\E x \in Workers : Holds(x, u)')
                             \/ event'[u].attempts < MaxAttempts + faults'
    BY DEF AttemptsBounded
  <2>2. CASE u = v
    <3>1. Holds(w, u)'
      BY <1>6, <1>8, <1>9, <2>2 DEF Holds
    <3>2. event'[u].attempts <= MaxAttempts + faults
      BY <1>2, <1>4, <1>6, <1>8, <2>2
    <3> QED  BY <1>7, <3>1, <3>2
  <2>3. CASE u # v
    <3>1. event'[u] = event[u]
      BY <1>8, <2>3
    <3>2. \A x \in Workers : Holds(x, u) => Holds(x, u)'
      <4>1. worker[w].pc = "idle"
        BY DEF Claim, At
      <4> QED  BY <1>9, <3>1, <4>1 DEF Holds
    <3> QED  BY <1>7, <3>1, <3>2 DEF IInv, AttemptsBounded
  <2> QED  BY <2>2, <2>3
<1> QED  BY <1>10, <1>11, <1>12, <1>13, <1>14, <1>15 DEF IInv

LEMMA StepWork ==
    ASSUME IInv, NEW w \in Workers, Begin(w) \/ Lookup(w) \/ Succeed(w) \/ NotFound(w)
    PROVE  IInv'
<1>1. worker[w].pc # "idle"
  BY DEF Begin, Lookup, Succeed, NotFound, At
<1> DEFINE e == event[worker[w].version]
           n == worker[w].claim
<1>2. CASE Begin(w)
  <2>1. MayWrite(w, "RUNNING", e) /\ Write(w, "RUNNING", e)
    BY <1>1, <1>2, Transactions DEF Begin
  <2>2. /\ UNCHANGED <<latest, project, record, faults>>
        /\ \/ worker' = [worker EXCEPT ![w] = IdleWorker]
           \/ worker' = [worker EXCEPT ![w].pc = "lookup"]
        /\ Live(w) /\ Current(w) => worker' = [worker EXCEPT ![w].pc = "lookup"]
    BY <1>2 DEF Begin
  <2>3. project' \in {"PENDING_VERIFICATION", "ACTIVE"}
    BY <2>2 DEF IInv, TypeOK
  <2> QED  BY <1>1, <2>1, <2>2, <2>3, TransactionInv
<1>3. CASE Succeed(w)
  <2>1. MayWrite(w, "SUCCEEDED", MarkDelivered(e, n)) /\ Write(w, "SUCCEEDED", MarkDelivered(e, n))
    BY <1>1, <1>3, Transactions DEF Succeed
  <2>2. /\ UNCHANGED <<latest, record, faults>>
        /\ worker' = [worker EXCEPT ![w] = IdleWorker]
        /\ project' \in {"PENDING_VERIFICATION", "ACTIVE"}
    BY <1>3 DEF Succeed, IInv, TypeOK
  <2>3. Live(w) => MarkDelivered(e, n).delivered
    BY <2>1 DEF MayWrite, Settled
  <2> QED  BY <1>1, <2>1, <2>2, <2>3, TransactionInv
<1>4. CASE NotFound(w)
  <2>1. /\ UNCHANGED <<latest, project, record, faults>>
        /\ worker' = [worker EXCEPT ![w] = IdleWorker]
        /\ project' \in {"PENDING_VERIFICATION", "ACTIVE"}
    BY <1>4 DEF NotFound, IInv, TypeOK
  <2>2. CASE LastAttempt(n)
    <3>1. MayWrite(w, "FAILED", MarkDelivered(e, n)) /\ Write(w, "FAILED", MarkDelivered(e, n))
      BY <1>1, <1>4, <2>2, Transactions DEF NotFound
    <3>2. Live(w) => MarkDelivered(e, n).delivered
      BY <3>1 DEF MayWrite, Settled
    <3> QED  BY <1>1, <2>1, <3>1, <3>2, TransactionInv
  <2>3. CASE ~LastAttempt(n)
    <3> DEFINE r == Reschedule(e, n, RetryBase * n)
    <3>1. MayWrite(w, "PENDING", r) /\ Write(w, "PENDING", r)
      BY <1>1, <1>4, <2>3, Transactions DEF NotFound
    <3> HIDE DEF r
    <3>2. Live(w) => r.attempts < MaxAttempts
      <4>1. Live(w) => r.attempts = e.attempts /\ e.claimToken = n
        BY <3>1 DEF MayWrite, Live
      <4>2. worker[w].version \in Versions /\ n # NoClaim /\ n \in Nat
        BY <1>1 DEF IInv, WorksOnRequested, TypeOK
      <4>3. Live(w) => e.attempts = n
        BY <4>1, <4>2 DEF IInv, TokensAreAttempts
      <4> QED  BY <2>3, <4>1, <4>2, <4>3 DEF LastAttempt
    <3> QED  BY <1>1, <2>1, <3>1, <3>2, TransactionInv
  <2> QED  BY <2>2, <2>3
<1>5. CASE Lookup(w)
  <2>1. PICK f \in BOOLEAN : worker' = [worker EXCEPT ![w].pc = "commit", ![w].matched = f]
    BY <1>5 DEF Lookup
  <2>2. UNCHANGED <<verification, latest, project, event, record, faults>>
    BY <1>5 DEF Lookup
  <2>3. worker' \in [Workers -> WorkerStates] /\ WorksOnRequested'
    BY <1>1, <2>1, <2>2, WorkerMoves
  <2>4. TypeOK'
    BY <2>2, <2>3 DEF IInv, TypeOK, WorkerStates
  <2>5. \A x \in Workers, v \in Versions : Holds(x, v) => Holds(x, v)'
    <3>1. ASSUME NEW x \in Workers
          PROVE  /\ worker'[x].pc = "idle" => worker[x].pc = "idle"
                 /\ worker'[x].version = worker[x].version /\ worker'[x].claim = worker[x].claim
      <4>1. CASE x = w
        BY <1>1, <2>1, <4>1 DEF IInv, TypeOK
      <4>2. CASE x # w
        BY <2>1, <4>2 DEF IInv, TypeOK
      <4> QED  BY <4>1, <4>2
    <3> QED  BY <2>2, <3>1 DEF Holds
  <2>6. AttemptsBounded'
    BY <2>2, <2>5 DEF IInv, AttemptsBounded
  <2> QED  BY <2>2, <2>3, <2>4, <2>6
           DEF IInv, Requested, AckIsAtomic, OneActiveCheck, TokensAreAttempts
<1> QED  BY <1>2, <1>3, <1>4, <1>5
\* Attempts that stay while a fault is counted are bounded whoever holds a claim.
LEMMA FaultCounted ==
    ASSUME IInv, faults' = faults + 1, \A v \in Versions : event'[v].attempts = event[v].attempts
    PROVE  AttemptsBounded'
<1>1. SUFFICES ASSUME NEW v \in Versions PROVE event'[v].attempts < MaxAttempts + faults'
  <2>1. ASSUME NEW v \in Versions, event'[v].attempts < MaxAttempts + faults'
        PROVE  event'[v].attempts <= MaxAttempts + faults'
    <3>1. event[v].attempts \in Nat /\ faults \in Nat
      <4>1. event \in [Versions -> Events]
        BY DEF IInv, TypeOK, Events
      <4> QED  BY <4>1 DEF IInv, TypeOK, Events
    <3> QED  BY <2>1, <3>1
  <2> QED  BY <1>1, <2>1 DEF AttemptsBounded
<1>2. event[v].attempts \in Nat /\ faults \in Nat
  <2>1. event \in [Versions -> Events]
    BY DEF IInv, TypeOK, Events
  <2> QED  BY <2>1 DEF IInv, TypeOK, Events
<1> QED  BY <1>2 DEF IInv, AttemptsBounded

LEMMA StepCrash == ASSUME IInv, NEW w \in Workers, Crash(w) PROVE IInv'
<1>1. /\ UNCHANGED <<verification, latest, project, event, record>>
      /\ faults' = faults + 1 /\ faults < MaxFaults
      /\ worker' = [worker EXCEPT ![w] = IdleWorker]
  BY DEF Crash
<1>2. worker' \in [Workers -> WorkerStates] /\ WorksOnRequested'
  BY <1>1, WorkerMoves
<1>3. faults' \in 0..MaxFaults
  BY <1>1 DEF IInv, TypeOK
<1>4. TypeOK'
  BY <1>1, <1>2, <1>3 DEF IInv, TypeOK, WorkerStates
<1>5. AttemptsBounded'
  BY <1>1, FaultCounted
<1> QED  BY <1>1, <1>2, <1>4, <1>5
         DEF IInv, Requested, AckIsAtomic, OneActiveCheck, TokensAreAttempts

LEMMA StepTick == IInv /\ Tick => IInv'
<1> SUFFICES ASSUME IInv, Tick PROVE IInv'
  OBVIOUS
<1>1. /\ UNCHANGED <<verification, latest, project, record, worker>>
      /\ event' = [v \in Versions |-> EventTick(event[v])]
      /\ \/ Lapsing = {} /\ faults' = faults
         \/ faults < MaxFaults /\ faults' = faults + 1
  BY DEF Tick
<1>2. event \in [Versions -> Events] /\ worker \in [Workers -> WorkerStates] /\ faults \in Nat
  BY DEF IInv, TypeOK, Events, WorkerStates
<1>3. ASSUME NEW v \in Versions
      PROVE  /\ event'[v] \in Events
             /\ event'[v].delivered = event[v].delivered
             /\ event'[v].attempts = event[v].attempts
             /\ event'[v].claimToken = event[v].claimToken
             /\ event'[v].claim = Less(event[v].claim)
  <2>1. event[v] \in Events /\ event'[v] = EventTick(event[v])
    BY <1>1, <1>2
  <2>2. event'[v] \in Events
    BY <2>1, RowTypes
  <2> QED  BY <2>1, <2>2 DEF EventTick, Events
<1>4. TypeOK'
  <2>1. event' \in [Versions -> Events]
    BY <1>1, <1>3
  <2>2. faults' \in 0..MaxFaults
    BY <1>1, <1>2 DEF IInv, TypeOK
  <2> QED  BY <1>1, <2>1, <2>2 DEF IInv, TypeOK, Events
<1>5. Requested' /\ WorksOnRequested' /\ AckIsAtomic' /\ OneActiveCheck' /\ TokensAreAttempts'
  BY <1>1, <1>3
  DEF IInv, Requested, WorksOnRequested, AckIsAtomic, OneActiveCheck, TokensAreAttempts
<1>6. AttemptsBounded'
  <2>1. CASE faults' = faults + 1
    BY <1>3, <2>1, FaultCounted
  <2>2. CASE Lapsing = {} /\ faults' = faults
    <3>1. ASSUME NEW v \in Versions, NEW w \in Workers, Holds(w, v), ~event[v].delivered
          PROVE  Holds(w, v)'
      <4>1. Live(w) /\ worker[w].pc # "idle"
        BY <3>1 DEF Holds, Live
      <4>2. event[v].claim # 1
        BY <2>2, <3>1, <4>1 DEF Lapsing, At, Holds
      <4>3. event[v].claim \in Nat /\ event[v].claim > 0
        BY <1>2, <3>1 DEF Holds, Events
      <4>4. Less(event[v].claim) > 0
        BY <4>2, <4>3 DEF Less
      <4> QED  BY <1>1, <1>3, <3>1, <4>4 DEF Holds
    <3> QED  BY <1>3, <2>2, <3>1 DEF IInv, AttemptsBounded
  <2> QED  BY <1>1, <2>1, <2>2
<1> QED  BY <1>4, <1>5, <1>6 DEF IInv

LEMMA StepPublish == IInv /\ Publish => IInv'
<1> SUFFICES ASSUME IInv, Publish PROVE IInv'
  OBVIOUS
<1>1. UNCHANGED <<verification, latest, project, event, worker, faults>> /\ record' \in 0..MaxChallenges
  BY DEF Publish, IInv, TypeOK
<1> QED  BY <1>1 DEF IInv, TypeOK, Requested, WorksOnRequested, AckIsAtomic, OneActiveCheck,
                     TokensAreAttempts, AttemptsBounded, Holds

LEMMA Inductive == Spec => []IInv
<1>1. IInv /\ [Next]_vars => IInv'
  <2> SUFFICES ASSUME IInv, [Next]_vars PROVE IInv'
    OBVIOUS
  <2>1. CASE UNCHANGED vars
    BY <2>1 DEF vars, IInv, TypeOK, Requested, WorksOnRequested, AckIsAtomic, OneActiveCheck,
                TokensAreAttempts, AttemptsBounded, Holds
  <2> QED  BY <2>1, StepRequest, StepPublish, StepClaim, StepWork, StepCrash, StepTick DEF Next, Work
<1> QED  BY <1>1, InitInv, PTL DEF Spec

-----------------------------------------------------------------------------
(* The theorems. *)

\* The rows and the processes have their types; in particular no event is handed out
\* more often than MaxAttempts and once more for each fault (failOrRetry).
THEOREM TypeCorrect == Spec => []TypeOK
<1>1. IInv => TypeOK
  BY DEF IInv
<1> QED  BY <1>1, Inductive, PTL

\* The result of a check and the acknowledgement of its event are one commit.
THEOREM AcknowledgedIsSettled == Spec => []AckIsAtomic
<1>1. IInv => AckIsAtomic
  BY DEF IInv
<1> QED  BY <1>1, Inductive, PTL

\* Only the latest challenge is ever being checked.
THEOREM LatestIsActive == Spec => []OneActiveCheck
<1>1. IInv => OneActiveCheck
  BY DEF IInv
<1> QED  BY <1>1, Inductive, PTL

\* A process whose claim was taken over writes nothing.
THEOREM LostClaimsWriteNothing == Spec => LostClaimIsInert
<1> DEFINE Inert == \A w \in Workers :
                       /\ worker[w].pc \in {"begin", "commit"} /\ worker'[w] # worker[w]
                       /\ event[worker[w].version].claimToken # worker[w].claim
                       => UNCHANGED <<verification, project, event>>
<1>1. IInv /\ [Next]_vars => [Inert]_vars
  <2> SUFFICES ASSUME IInv, [Next]_vars, NEW w \in Workers,
                      worker[w].pc \in {"begin", "commit"}, worker'[w] # worker[w],
                      event[worker[w].version].claimToken # worker[w].claim
               PROVE  UNCHANGED <<verification, project, event>>
    OBVIOUS
  <2>1. ~Live(w)
    BY DEF Live
  <2>2. PICK u \in Workers : Work(u) \/ Crash(u)
    BY DEF Next, Request, Publish, Tick, vars
  <2>3. u = w
    BY <2>2 DEF Work, Claim, Begin, Lookup, Succeed, NotFound, Crash, IInv, TypeOK
  <2>4. CASE Crash(w)
    BY <2>4 DEF Crash
  <2>5. CASE Begin(w) \/ Succeed(w) \/ NotFound(w)
    BY <2>1, <2>5 DEF Begin, Succeed, NotFound, Write
  <2> QED  BY <2>2, <2>3, <2>4, <2>5 DEF Work, Claim, Lookup, At
<1> QED  BY <1>1, Inductive, PTL DEF Spec, LostClaimIsInert
=============================================================================
