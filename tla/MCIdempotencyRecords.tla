----------------------- MODULE MCIdempotencyRecords -----------------------
(* Model-checking instances of IdempotencyRecords. *)
EXTENDS IdempotencyRecords, TLC

CONSTANTS c1, c2, c3, c4, o1, o2, o3, o4, x, y

\* One call comes with a different request under the same key; no two operations
\* have the same id.
MCPrintOf == [p \in Clients |-> IF p \in Operations THEN p ELSE IF p = c4 THEN y ELSE x]

Symmetry == Permutations({c1, c2, c3}) \cup Permutations(Operations)

=============================================================================
