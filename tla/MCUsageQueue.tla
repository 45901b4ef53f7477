---------------------------- MODULE MCUsageQueue ----------------------------
(* Model-checking instances of UsageQueue. *)
EXTENDS UsageQueue, TLC

AllFaults == {"crash", "error", "resend"}
NoFaults == {}

Symmetry == Permutations(Events) \cup Permutations(Workers)

=============================================================================
