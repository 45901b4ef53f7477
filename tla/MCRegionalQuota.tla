--------------------------- MODULE MCRegionalQuota ---------------------------
(* Model-checking instances of RegionalQuota. *)
EXTENDS RegionalQuota, TLC

Fresh(n) == [allocated |-> n, reserved |-> 0, spent |-> 0]

\* A lease for one request, and one for two of which the control plane already
\* counts one cent as spent.
MCGrants == {Fresh(1), [allocated |-> 3, reserved |-> 0, spent |-> 1]}
MCCosts == {2}

Symmetry == Permutations(Requests)

=============================================================================
