------------------------------- MODULE Outbox -------------------------------
(***************************************************************************)
(* Operators on one row of the transactional outbox                        *)
(* (server/repositories/outbox.ts).  An event is a record                  *)
(*                                                                         *)
(*   delivered   deliveredAt is set                                        *)
(*   attempts    deliveries handed out so far                              *)
(*   claimToken  token of the current claim, NoClaim when there is none    *)
(*   claim       time units until claimUntil                               *)
(*   delay       time units until availableAt                              *)
(*                                                                         *)
(* Times are kept as the time that is left, so that the state space stays  *)
(* finite: a timestamp in the past is a timer at 0.  A claim token is a    *)
(* fresh random UUID in the code; claiming increments attempts in the same *)
(* statement, so the new attempts is a fresh value and stands for it.      *)
(***************************************************************************)
EXTENDS Naturals

CONSTANT ClaimTTL      \* duration of a claim, in time units

ASSUME ClaimTTLAssumption == ClaimTTL \in Nat \ {0}

NoClaim == 0

\* A row as emit leaves it: undelivered, unclaimed, available at once.
NewEvent == [delivered  |-> FALSE,
             attempts   |-> 0,
             claimToken |-> NoClaim,
             claim      |-> 0,
             delay      |-> 0]

\* Mutation: a claim that its holder never gave back blocks the event for good.
ClaimableIfReleased(e) == /\ ~e.delivered
                          /\ e.delay = 0
                          /\ e.claimToken = NoClaim

\* The WHERE clause of claimBatch: undelivered, due, and not under a live claim.
Claimable(e) == /\ ~e.delivered
                /\ e.delay = 0
                /\ e.claim = 0

\* The row as claimBatch leaves it; its claimToken is the one handed out.
Claimed(e) == [e EXCEPT !.attempts   = e.attempts + 1,
                        !.claimToken = e.attempts + 1,
                        !.claim      = ClaimTTL]

\* A claimant may finish the row only while its token is the one stored there.
Owns(e, token) == e.claimToken = token

\* Mutation: the claim is released but the event stays undelivered.
MarkReleased(e, token) ==
    IF Owns(e, token)
      THEN [e EXCEPT !.claimToken = NoClaim, !.claim = 0]
      ELSE e

\* markDelivered: a claimant whose token was superseded changes nothing.
MarkDelivered(e, token) ==
    IF Owns(e, token)
      THEN [e EXCEPT !.delivered = TRUE, !.claimToken = NoClaim, !.claim = 0]
      ELSE e

\* reschedule: release the claim and push availableAt delay units away.
Reschedule(e, token, delay) ==
    IF Owns(e, token)
      THEN [e EXCEPT !.delay = delay, !.claimToken = NoClaim, !.claim = 0]
      ELSE e

Less(n) == IF n = 0 THEN 0 ELSE n - 1

\* One unit of time passes for the row.
EventTick(e) == [e EXCEPT !.claim = Less(@), !.delay = Less(@)]
=============================================================================
