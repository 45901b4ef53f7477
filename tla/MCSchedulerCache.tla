-------------------------- MODULE MCSchedulerCache --------------------------
(* Model-checking instances of SchedulerCache. *)
EXTENDS SchedulerCache

CONSTANTS a1, a2, w1, w2, r1, u1

\* A bucket with nothing in it, and one whose members go in one by one or together.
MCLists == {{}, {a1, a2}}

=============================================================================
