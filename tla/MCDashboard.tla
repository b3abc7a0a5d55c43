----------------------------- MODULE MCDashboard -----------------------------
(* Dashboard on a small instance. *)
EXTENDS Dashboard

CONSTANTS w1, w2, p1, p2, p3

\* The first workspace has two projects; the second may be created, with a project.
Homes == [p \in Projects |-> IF p = p3 THEN w2 ELSE w1]
=============================================================================
