-------------------------- MODULE MCSchedulerOutbox --------------------------
(* Model-checking instances of SchedulerOutbox. *)
EXTENDS SchedulerOutbox

CONSTANTS t1, t2, p1, p2, f1, r1

=============================================================================
