----------------------------- MODULE QuotaLedger -----------------------------
(***************************************************************************)
(* What the regional quota promises, without Redis counters, retries or    *)
(* reports: a budget from which requests are admitted one estimate at a    *)
(* time, each admitted request ends up charged or released, and a charge   *)
(* can be repriced afterwards.  A request is admitted only when the budget *)
(* covers it on top of everything admitted before.                         *)
(*                                                                         *)
(* The ledger keeps one entry for each request and no counters: what is    *)
(* left of the budget is computed from the entries.                        *)
(***************************************************************************)
EXTENDS Integers, FiniteSets

CONSTANTS Requests, Estimate

VARIABLES
  budget,   \* the lease in force, if any
  entry,    \* each request's entry
  charge    \* what each charged request costs

ledgerVars == <<budget, entry, charge>>

Closed == [open |-> FALSE, allocated |-> 0, used |-> 0]

Held == {r \in Requests : entry[r] = "held"}
Standing == Cardinality(UNION {{r} \X (1 .. charge[r]) : r \in Requests})
Remaining == budget.allocated - budget.used - Estimate * Cardinality(Held) - Standing

Init ==
  /\ budget = Closed
  /\ entry = [r \in Requests |-> "new"]
  /\ charge = [r \in Requests |-> 0]

\* A lease arrives.  What earlier leases or other gateways used counts against a
\* budget that was not open; a budget that is open only changes its size.
Grant ==
  /\ budget' \in [open : {TRUE}, allocated : Nat, used : Nat]
  /\ budget.open => budget'.used = budget.used
  /\ UNCHANGED <<entry, charge>>

Admit(r) ==
  /\ budget.open /\ entry[r] = "new"
  /\ Remaining >= Estimate
  /\ entry' = [entry EXCEPT ![r] = "held"]
  /\ UNCHANGED <<budget, charge>>

Settle(r) ==
  /\ entry[r] = "held"
  /\ entry' = [entry EXCEPT ![r] = "charged"]
  /\ charge'[r] \in Nat
  /\ charge' = [charge EXCEPT ![r] = charge'[r]]
  /\ UNCHANGED budget

Release(r) ==
  /\ entry[r] = "held"
  /\ entry' = [entry EXCEPT ![r] = "released"]
  /\ UNCHANGED <<budget, charge>>

Reprice(r) ==
  /\ entry[r] = "charged"
  /\ charge'[r] \in Nat
  /\ charge' = [charge EXCEPT ![r] = charge'[r]]
  /\ UNCHANGED <<budget, entry>>

\* The lease is over and its entries with it; what was not "new" is closed.
Lapse ==
  /\ budget.open
  /\ budget' = Closed
  /\ entry' = [r \in Requests |-> IF entry[r] = "new" THEN "new" ELSE "closed"]
  /\ charge' = [r \in Requests |-> 0]

Next ==
  \/ Grant
  \/ Lapse
  \/ \E r \in Requests : Admit(r) \/ Settle(r) \/ Release(r) \/ Reprice(r)

Ledger == Init /\ [][Next]_ledgerVars

=============================================================================
