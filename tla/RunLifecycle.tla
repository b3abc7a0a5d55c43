---------------------------- MODULE RunLifecycle ----------------------------
(***************************************************************************)
(* What one CrawlRun row promises to everybody who looks at it, whatever   *)
(* the workers, leases and deliveries behind it do: the status diagram of  *)
(* a run, with the report it may publish and the cancellation it may have  *)
(* accepted.  CrawlRun is shown to implement this specification.           *)
(*                                                                         *)
(* The four operations are the only ways the row changes: a delivery picks *)
(* the run up, the crawl phase ends, the run is cancelled cooperatively or *)
(* it reaches a terminal status.  Only Publish produces a report, and only *)
(* while no cancellation was accepted.                                     *)
(***************************************************************************)
VARIABLES status,           \* CrawlRun.status
          reported,         \* CrawlRun.publishedAt is set
          cancelAccepted    \* CrawlRun.cancelRequestedAt is set

vars == <<status, reported, cancelAccepted>>

Active   == {"QUEUED", "RUNNING", "FINALIZING"}
Terminal == {"COMPLETED", "CANCELLED", "FAILED"}

TypeOK == /\ status \in Active \cup Terminal
          /\ reported \in BOOLEAN
          /\ cancelAccepted \in BOOLEAN

Init == /\ status = "QUEUED"
        /\ reported = FALSE
        /\ cancelAccepted = FALSE

\* A worker picks the run up; recovery keeps the phase it finds.
PickUp == /\ status = "QUEUED"
          /\ status' = "RUNNING"
          /\ UNCHANGED <<reported, cancelAccepted>>

\* The crawl phase ends with everything observed; observations are frozen.
Freeze == /\ status = "RUNNING"
          /\ ~cancelAccepted
          /\ status' = "FINALIZING"
          /\ UNCHANGED <<reported, cancelAccepted>>

\* A cancellation that must wait for the worker is recorded on an active run.
AcceptCancel == /\ status \in Active
                /\ cancelAccepted' = TRUE
                /\ UNCHANGED <<status, reported>>

\* The report appears together with the terminal status.
Publish == /\ status = "FINALIZING"
           /\ ~cancelAccepted
           /\ status' = "COMPLETED"
           /\ reported' = TRUE
           /\ UNCHANGED cancelAccepted

\* A run ends without a report.  A queued run cannot complete.
EndUnpublished == /\ status \in Active
                  /\ status' \in Terminal
                  /\ status' = "COMPLETED" => status # "QUEUED"
                  /\ UNCHANGED reported
                  /\ \/ UNCHANGED cancelAccepted
                     \/ status' = "CANCELLED" /\ cancelAccepted' = TRUE

Next == PickUp \/ Freeze \/ AcceptCancel \/ Publish \/ EndUnpublished

Spec == Init /\ [][Next]_vars
=============================================================================
