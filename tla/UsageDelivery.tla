---------------------------- MODULE UsageDelivery ----------------------------
(***************************************************************************)
(* What the usage queue promises about each event, without streams,        *)
(* message ids, workers or pending lists: an event waits from the moment   *)
(* it is queued until it is settled, which means reported to the control   *)
(* plane or given up after enough failed reports; or until the length      *)
(* limit drops it.  Only an event that was dropped while a report of it    *)
(* was under way can come back; one that is settled and gone stays gone.   *)
(***************************************************************************)
EXTENDS Integers

CONSTANTS Events, MaxAttempts

VARIABLES
  waiting,   \* events that will be reported, for the first time or again
  reported,  \* events the control plane has applied
  dead,      \* events that were given up
  dropped,   \* events the length limit dropped while they waited
  failures   \* each event's failed reports

deliveryVars == <<waiting, reported, dead, dropped, failures>>

Gone == reported \cup dead \cup dropped

Init ==
  /\ waiting = {}
  /\ reported = {}
  /\ dead = {}
  /\ dropped = {}
  /\ failures = [e \in Events |-> 0]

\* An event is queued once.
Queue(e) ==
  /\ e \notin waiting \cup Gone
  /\ waiting' = waiting \cup {e}
  /\ UNCHANGED <<reported, dead, dropped, failures>>

\* A batch never holds an event that has left the queue, unless it was dropped.
Reportable == SUBSET (waiting \cup dropped)

Report ==
  /\ \E batch \in Reportable : reported' = reported \cup batch
  /\ UNCHANGED <<waiting, dead, dropped, failures>>

\* The control plane may have applied some of a report that failed.
FailReport ==
  /\ \E batch \in Reportable :
       /\ \E applied \in SUBSET batch : reported' = reported \cup applied
       /\ failures' = [e \in Events |-> IF e \in batch THEN failures[e] + 1 ELSE failures[e]]
  /\ UNCHANGED <<waiting, dead, dropped>>

GiveUp(e) ==
  /\ e \in waiting \cup dropped
  /\ failures[e] >= MaxAttempts
  /\ dead' = dead \cup {e}
  /\ UNCHANGED <<waiting, reported, dropped, failures>>

\* Only what is accounted for stops waiting.
Leave ==
  /\ \E settled \in SUBSET (waiting \cap Gone) : waiting' = waiting \ settled
  /\ UNCHANGED <<reported, dead, dropped, failures>>

\* An event of which a copy is dropped may still wait as another copy.
Drop ==
  /\ \E copies \in SUBSET waiting :
       /\ dropped' = dropped \cup copies
       /\ \E last \in SUBSET copies : waiting' = waiting \ last
  /\ UNCHANGED <<reported, dead, failures>>

Return(e) ==
  /\ e \in dropped
  /\ waiting' = waiting \cup {e}
  /\ UNCHANGED <<reported, dead, dropped, failures>>

Next ==
  \/ Report \/ FailReport \/ Leave \/ Drop
  \/ \E e \in Events : Queue(e) \/ GiveUp(e) \/ Return(e)

Delivery == Init /\ [][Next]_deliveryVars

=============================================================================
