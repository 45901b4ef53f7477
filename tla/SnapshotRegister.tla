-------------------------- MODULE SnapshotRegister --------------------------
(***************************************************************************)
(* What the scheduler cache promises for one bucket: a register that holds *)
(* the account list of the newest snapshot.  A read either misses, and the *)
(* caller falls back to the database, or returns the whole list that was   *)
(* current when the read began; never part of one or a mixture of two.     *)
(***************************************************************************)
EXTENDS Integers

CONSTANTS Accounts, Readers

VARIABLES
  version,  \* the number of the current snapshot, 0 when there is none
  list,     \* its accounts
  reads     \* each reader: whether it is reading, the list it must return, its result

vars == <<version, list, reads>>

\* An empty list counts as a miss.
Miss == {}

View(busy, seen, result) == [busy |-> busy, seen |-> seen, result |-> result]

Init ==
  /\ version = 0
  /\ list = {}
  /\ reads = [r \in Readers |-> View(FALSE, {}, Miss)]

\* A newer snapshot replaces the older one at once.
Write ==
  /\ version' > version
  /\ list' \in SUBSET Accounts
  /\ UNCHANGED reads

Begin(r) ==
  /\ ~reads[r].busy
  /\ reads' = [reads EXCEPT ![r] = View(TRUE, list, @.result)]
  /\ UNCHANGED <<version, list>>

End(r) ==
  /\ reads[r].busy
  /\ \E result \in {Miss, reads[r].seen} :
       reads' = [reads EXCEPT ![r] = View(FALSE, {}, result)]
  /\ UNCHANGED <<version, list>>

Next ==
  \/ Write
  \/ \E r \in Readers : Begin(r) \/ End(r)

Spec == Init /\ [][Next]_vars

=============================================================================
