-------------------------- MODULE ConcurrencySlots --------------------------
(***************************************************************************)
(* How many requests of one user, or to one account, run at a time.  A     *)
(* request takes a slot, a member of a sorted set in Redis, by a script    *)
(* that counts and adds at once; when there is none it joins the waiting   *)
(* counter, tries again with a backoff, and leaves when it has a slot, the *)
(* time is up or the client is gone.  Releasing removes the member; a slot *)
(* nobody releases is dropped when its TTL is over, and a server that      *)
(* starts drops all slots that are not its own and every waiting counter.  *)
(*                                                                         *)
(* Every script and every count first drops the slots that have expired,   *)
(* so here a slot goes when it expires.  Slots are for one key; keys have  *)
(* nothing in common but the sweep at a server's start.                    *)
(***************************************************************************)
EXTENDS Integers, FiniteSets

CONSTANTS
  Servers,     \* gateway processes on one Redis
  Requests,    \* request handlers
  ServerOf,    \* the server that runs each
  Max,         \* maxConcurrency
  MaxWait,     \* length of the waiting queue
  MaxFaults    \* bound: failed and resent calls, crashes

ASSUME ServerOfAssumption == ServerOf \in [Requests -> Servers]
ASSUME BoundsAssumption == Max \in Nat \ {0} /\ MaxWait \in Nat \ {0} /\ MaxFaults \in Nat

VARIABLES
  slots,    \* the members of the sorted set
  wait,     \* the waiting counter, 0 when missing
  req,      \* each handler: where it is, the id of the slot it has or asks for
  server,   \* each server: down, starting, up
  faults,
  \* History: no guard reads it.
  leaked,   \* slots that no handler knows of any more
  robbed,   \* handlers whose slot was dropped before they released it
  skewed    \* what has upset the waiting counter since it was last missing

vars == <<slots, wait, req, server, faults, leaked, robbed, skewed>>

\* A request id: unique, never used twice.  Seen from the set, an id nobody has is new.
SlotIds == Requests \X (0 .. MaxFaults)
NoSlot == <<>>

Outside == [pc |-> "idle", slot |-> NoSlot]
At(r, pc) == req[r].pc = pc
Become(r, pc, slot) == req' = [req EXCEPT ![r] = [pc |-> pc, slot |-> slot]]
Up(r) == server[ServerOf[r]] = "up"

Calm == UNCHANGED faults
Fault == faults < MaxFaults /\ faults' = faults + 1

Drop(gone) == slots' = slots \ gone
Forget(gone) == leaked' = leaked \ gone

(***************************************************************************)
(* Acquire, first at once and then from the waiting loop.                  *)
(***************************************************************************)
Arrive(r) ==
  /\ At(r, "idle") /\ Up(r)
  /\ Become(r, "try", NoSlot)
  /\ Calm /\ UNCHANGED <<slots, wait, server, leaked, robbed, skewed>>

\* A call that is sent again keeps its id.
Unused(r) == {id \in SlotIds : id[1] = r /\ id \notin slots}
Attempt_NewId(r) == Unused(r)
Attempt(r) == IF req[r].slot = NoSlot THEN Unused(r) ELSE {req[r].slot}

\* acquireScript
Room_OffByOne == Cardinality(slots) <= Max
Room == Cardinality(slots) < Max
Granted(id) == id \in slots \/ Room

\* From the loop the handler leaves the queue before it runs.  A first try that finds
\* no room makes the request wait; a turn of a WebSocket is refused instead.
Got(r, id) == Become(r, IF At(r, "try") THEN "run" ELSE "leave", id)
Missed(r) ==
  IF At(r, "try") THEN \E pc \in {"queue", "idle"} : Become(r, pc, NoSlot)
  ELSE Become(r, "wait", NoSlot)

\* A reply that is lost makes the client send the call again.
AcquireSlot(r) ==
  /\ req[r].pc \in {"try", "wait"}
  /\ \E id \in Attempt(r) :
       /\ slots' = IF Granted(id) THEN slots \cup {id} ELSE slots
       /\ \/ Calm /\ (IF Granted(id) THEN Got(r, id) ELSE Missed(r))
          \/ Fault /\ Become(r, req[r].pc, id)
  /\ UNCHANGED <<wait, server, leaked, robbed, skewed>>

\* An error, or the context ends during the call: the handler keeps no id.
AfterError_NotDeferred(r) == "idle"
AfterError(r) == IF At(r, "try") THEN "idle" ELSE "leave"

AcquireFails(r) ==
  /\ req[r].pc \in {"try", "wait"}
  /\ IF req[r].slot = NoSlot THEN Fault ELSE Calm
  /\ leaked' = leaked \cup ({req[r].slot} \cap slots)
  /\ Become(r, AfterError(r), NoSlot)
  /\ UNCHANGED <<slots, wait, server, robbed, skewed>>

\* The waiting loop ends without a slot: the time is up or the client is gone.
StopWaiting(r) ==
  /\ At(r, "wait") /\ req[r].slot = NoSlot
  /\ Become(r, "leave", NoSlot)
  /\ Calm /\ UNCHANGED <<slots, wait, server, leaked, robbed, skewed>>

(***************************************************************************)
(* The waiting counter.                                                    *)
(***************************************************************************)
Skew(how) == skewed' = skewed \cup {how}

\* incrementWaitScript; an error lets the request wait all the same.
IncrementWaitCount(r) ==
  /\ At(r, "queue")
  /\ \/ /\ Calm /\ UNCHANGED skewed
        /\ IF wait < MaxWait THEN wait' = wait + 1 /\ Become(r, "wait", NoSlot)
           ELSE UNCHANGED wait /\ Become(r, "idle", NoSlot)
     \/ /\ Fault /\ wait < MaxWait /\ wait' = wait + 1
        /\ \/ Become(r, "wait", NoSlot) /\ UNCHANGED skewed
           \/ Become(r, "queue", NoSlot) /\ Skew("counted twice")
     \/ Fault /\ UNCHANGED wait /\ Become(r, "wait", NoSlot) /\ Skew("not counted")
  /\ UNCHANGED <<slots, server, leaked, robbed>>

\* decrementWaitScript, deferred: whatever made the handler leave, it runs.
Less_NotFloored == wait - 1
Less == IF wait > 0 THEN wait - 1 ELSE 0

AfterQueue(r) == Become(r, IF req[r].slot = NoSlot THEN "idle" ELSE "run", req[r].slot)

DecrementWaitCount(r) ==
  /\ At(r, "leave")
  /\ \/ Calm /\ wait' = Less /\ AfterQueue(r) /\ UNCHANGED skewed
     \/ Fault /\ UNCHANGED wait /\ AfterQueue(r) /\ Skew("not discounted")
     \/ Fault /\ wait' = Less /\ UNCHANGED req /\ Skew("discounted twice")
  /\ UNCHANGED <<slots, server, leaked, robbed>>

Queued(r) == req[r].pc \in {"wait", "leave"}
Queuing == \E r \in Requests : Queued(r) \/ At(r, "queue")

\* The counter's TTL, which every increment renews and which is longer than any wait.
CounterAtTTL_Kept == wait
CounterAtTTL == 0

WaitExpires ==
  /\ wait > 0 /\ ~Queuing
  /\ wait' = CounterAtTTL /\ skewed' = {}
  /\ Calm /\ UNCHANGED <<slots, req, server, leaked, robbed>>

(***************************************************************************)
(* The request runs.                                                       *)
(***************************************************************************)
Holds(r) == req[r].pc \in {"run", "leave"} /\ req[r].slot # NoSlot

\* ReleaseFunc, once: when the handler ends, or as soon as its client is gone, while
\* the handler may go on to read the rest of the answer.  Nobody retries it.
Release(r) ==
  /\ At(r, "run")
  /\ \/ Calm /\ Drop({req[r].slot}) /\ UNCHANGED leaked
     \/ Fault /\ leaked' = leaked \cup ({req[r].slot} \cap slots) /\ UNCHANGED slots
  /\ robbed' = robbed \ {r}
  /\ \E pc \in {"idle", "drain"} : Become(r, pc, NoSlot)
  /\ UNCHANGED <<wait, server, skewed>>

Drained(r) ==
  /\ At(r, "drain")
  /\ Become(r, "idle", NoSlot)
  /\ Calm /\ UNCHANGED <<slots, wait, server, leaked, robbed, skewed>>

\* The TTL of a slot, which nothing renews while the request runs.  No other step of
\* a handler takes that long.
Robs(gone) == robbed' = robbed \cup {r \in Requests : Holds(r) /\ req[r].slot \in gone}

AtTTL_Kept(id) == {}
AtTTL(id) == {id}

SlotExpires(id) ==
  /\ id \in slots
  /\ id \in leaked \/ \E r \in Requests : At(r, "run") /\ req[r].slot = id
  /\ Drop(AtTTL(id)) /\ Forget(AtTTL(id)) /\ Robs(AtTTL(id))
  /\ Calm /\ UNCHANGED <<wait, req, server, skewed>>

(***************************************************************************)
(* Servers.                                                                *)
(***************************************************************************)
OnServer(s) == {r \in Requests : ServerOf[r] = s}

Crash(s) ==
  /\ server[s] = "up" /\ Fault
  /\ server' = [server EXCEPT ![s] = "down"]
  /\ req' = [r \in Requests |-> IF r \in OnServer(s) THEN Outside ELSE req[r]]
  /\ leaked' = leaked \cup ({req[r].slot : r \in OnServer(s)} \cap slots)
  /\ robbed' = robbed \ OnServer(s)
  /\ IF \E r \in OnServer(s) : Queued(r) THEN Skew("crashed") ELSE UNCHANGED skewed
  /\ UNCHANGED <<slots, wait>>

\* CleanupStaleProcessSlots, before the server takes requests: the prefix is new, so
\* every slot there is is another process's, whether that process is alive or not.
SweepSlots(s) ==
  /\ server[s] = "down"
  /\ Drop(slots) /\ Forget(slots) /\ Robs(slots)
  /\ server' = [server EXCEPT ![s] = "starting"]
  /\ Calm /\ UNCHANGED <<wait, req, skewed>>

\* Handlers of other servers may be waiting.
SweepWaits(s) ==
  /\ server[s] = "starting"
  /\ wait' = 0
  /\ skewed' = IF Queuing THEN skewed \cup {"swept"} ELSE {}
  /\ server' = [server EXCEPT ![s] = "up"]
  /\ Calm /\ UNCHANGED <<slots, req, leaked, robbed>>

\* An error ends the sweep and the server starts all the same.
SweepFails(s) ==
  /\ server[s] \in {"down", "starting"} /\ Fault
  /\ server' = [server EXCEPT ![s] = "up"]
  /\ UNCHANGED <<slots, wait, req, leaked, robbed, skewed>>

Init ==
  /\ slots = {} /\ wait = 0
  /\ req = [r \in Requests |-> Outside]
  /\ server = [s \in Servers |-> "down"]
  /\ faults = 0
  /\ leaked = {} /\ robbed = {} /\ skewed = {}

Handle(r) ==
  \/ AcquireSlot(r) \/ AcquireFails(r) \/ StopWaiting(r)
  \/ IncrementWaitCount(r) \/ DecrementWaitCount(r)
  \/ Release(r) \/ Drained(r)

Next ==
  \/ \E r \in Requests : Arrive(r) \/ Handle(r)
  \/ \E id \in SlotIds : SlotExpires(id)
  \/ \E s \in Servers : Crash(s) \/ SweepSlots(s) \/ SweepWaits(s) \/ SweepFails(s)
  \/ WaitExpires

Spec == Init /\ [][Next]_vars

\* Calls return or time out, waiting ends after thirty seconds at most, and Redis
\* drops a key or the next script a slot whose time has come.  Nothing says that a
\* request ends.
FairSpec ==
  /\ Spec
  /\ \A r \in Requests :
       /\ WF_vars(AcquireSlot(r) \/ AcquireFails(r))
       /\ WF_vars(StopWaiting(r))
       /\ WF_vars(IncrementWaitCount(r) \/ DecrementWaitCount(r))
  /\ \A id \in SlotIds : WF_vars(SlotExpires(id))
  /\ WF_vars(WaitExpires)

(***************************************************************************)
(* Properties.                                                             *)
(***************************************************************************)
ReqType == [pc : {"idle", "try", "queue", "wait", "leave", "run", "drain"},
            slot : SlotIds \cup {NoSlot}]

Upsets == {"counted twice", "not counted", "not discounted", "discounted twice", "crashed", "swept"}

\* Shapes, and the two limits.
TypeOK ==
  /\ slots \subseteq SlotIds /\ Cardinality(slots) <= Max
  /\ wait \in 0 .. MaxWait
  /\ req \in [Requests -> ReqType]
  /\ server \in [Servers -> {"down", "starting", "up"}]
  /\ faults \in 0 .. MaxFaults
  /\ leaked \subseteq slots
  /\ robbed \subseteq Requests
  /\ skewed \subseteq Upsets

\* No more than maxConcurrency requests run, however calls are resent and servers
\* crash, but for those whose slot was dropped under them by its TTL or by a server
\* that started, and those that read on after their client was gone.
RunningWithinLimit == Cardinality({r \in Requests : At(r, "run")} \ robbed) <= Max

\* Every slot in use belongs to a request that will release it, unless a failed call
\* or a crash has lost it: no way a request can end or give up leaks its slot.
SlotsAccountedFor ==
  \A id \in slots \ leaked :
    /\ req[id[1]].slot = id
    /\ req[id[1]].pc \in {"try", "wait", "leave", "run"}

\* As long as no failed or resent call, crash or start has upset it, the counter is
\* the number of requests in the waiting loop.
WaitersCounted == skewed = {} => wait = Cardinality({r \in Requests : Queued(r)})

\* No slot is in use for ever, whoever forgot it, crashed with it or still runs.
SlotsComeBack == \A id \in SlotIds : id \in slots ~> id \notin slots

\* A counter that was upset is right again after a time in which nobody waits.
QuietRepairsCounter == <>[]~Queuing => <>[](wait = 0)

=============================================================================
