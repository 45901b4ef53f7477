------------------------- MODULE IdempotencyRecords -------------------------
(***************************************************************************)
(* One row of idempotency_records and those who use it.  Calls of one      *)
(* idempotency key go through the coordinator: the one that inserts or     *)
(* reclaims the row executes, the others replay its response or are        *)
(* refused.  System operations use one row of their own as a lock with a   *)
(* lease, which its holder renews.  A row serves one or the other.         *)
(*                                                                         *)
(* Each caller reads the clock once, when it begins, and compares the row  *)
(* with that.  A tick is the interval of the lease's renewals.             *)
(***************************************************************************)
EXTENDS Integers

CONSTANTS
  Calls,        \* calls of IdempotencyCoordinator.Execute
  Operations,   \* calls of SystemOperationLockService.Acquire
  PrintOf,      \* the request fingerprint, or the operation id, of each
  Lease,        \* ProcessingTimeout
  TTL,          \* time to live of a row
  Backoff,      \* FailedRetryBackoff
  MaxTime,      \* bound: ticks
  MaxFaults     \* bound: failed and slow calls, crashes

Clients == Calls \cup Operations
Prints == {PrintOf[p] : p \in Clients}

Nobody == "nobody"
Nothing == "nothing"

ASSUME ClientsAssumption ==
  Calls \cap Operations = {} /\ Nobody \notin Clients /\ PrintOf \in [Clients -> Prints]
ASSUME TimesAssumption ==
  /\ Lease \in Nat /\ Lease > 0 /\ TTL \in Nat /\ TTL > 0 /\ Backoff \in Nat /\ Backoff > 0
  /\ MaxTime \in Nat /\ MaxFaults \in Nat

VARIABLES
  users,    \* those whose key this row has: Calls or Operations
  time,
  rows,     \* the row, if there is one
  ids,      \* ids handed out
  proc,     \* each client: where it is, when it began, the row it read or owns, and
            \* the response it replays
  renewed,  \* holders of the lock whose renewal is not due
  faults,
  \* History: no guard reads it.
  ran,      \* each client: whether it has executed, and how that ended
  owner,    \* who inserted or reclaimed the row last
  lapses    \* "raced": someone reclaimed the row from another than it had read it of;
            \* "outran": someone marked the row when his own period was over, or his lock lost;
            \* "slow": a tick passed between a client's start and its claim;
            \* "unrenewed": a renewal failed or was late

vars == <<users, time, rows, ids, proc, renewed, faults, ran, owner, lapses>>

Null == 0
Unread == ""
Out == [pc |-> "idle", now |-> 0, id |-> 0, from |-> Unread, late |-> FALSE, ended |-> FALSE,
        saw |-> Nobody, replay |-> Nothing]
At(p, pc) == proc[p].pc = pc
Become(p, state) == proc' = [proc EXCEPT ![p] = state]
Leave(p) == Become(p, [proc[p] EXCEPT !.pc = "over"])
Now(p) == proc[p].now

Calm == UNCHANGED faults
Fault == faults < MaxFaults /\ faults' = faults + 1
history == <<ran, owner, lapses>>
Lapse(way, happens) == lapses' = IF happens THEN lapses \cup {way} ELSE lapses

Begin(p) ==
  /\ p \in users /\ At(p, "idle")
  /\ Become(p, [Out EXCEPT !.pc = "create", !.now = time])
  /\ Calm /\ UNCHANGED <<users, time, rows, ids, renewed, history>>

(***************************************************************************)
(* The statements of idempotency_repo.go.                                  *)
(***************************************************************************)
Claimed(p, id, print, body) ==
  [id |-> id, status |-> "processing", print |-> print, body |-> body,
   locked |-> Now(p) + Lease, expires |-> Now(p) + TTL]

\* The client owns the row: the coordinator executes, the lock is held.
Own(p, id) ==
  /\ Become(p, [proc[p] EXCEPT !.pc = "act", !.id = id])
  /\ renewed' = IF p \in Operations THEN renewed \cup {p} ELSE renewed
  /\ ran' = [ran EXCEPT ![p] = "open"]

\* INSERT ... ON CONFLICT (scope, idempotency_key_hash) DO NOTHING
Conflicts_SamePrint(p) == \E row \in rows : row.print = PrintOf[p]
Conflicts(p) == rows # {}

CreateProcessing(p) ==
  /\ At(p, "create")
  /\ IF ~Conflicts(p)
     THEN /\ ids' = ids + 1
          /\ rows' = rows \cup {Claimed(p, ids + 1, PrintOf[p], Nobody)}
          /\ owner' = p
          /\ \/ Calm /\ Own(p, ids + 1)
             \/ Fault /\ Leave(p) /\ UNCHANGED <<renewed, ran>>
     ELSE /\ Calm /\ Become(p, [proc[p] EXCEPT !.pc = "get"])
          /\ UNCHANGED <<rows, ids, renewed, owner, ran>>
  /\ UNCHANGED <<users, time, lapses>>

Reclaimable_AnyLock(p, row) == row.id = proc[p].id /\ row.status = proc[p].from
Reclaimable(p, row) ==
  row.id = proc[p].id /\ row.status = proc[p].from /\ row.locked <= Now(p)

\* The fingerprint stays.  Who is refused reads the row again if it had expired.
TryReclaim(p) ==
  /\ At(p, "reclaim")
  /\ \/ \E row \in rows :
          /\ Reclaimable(p, row)
          /\ rows' = {Claimed(p, row.id, row.print, row.body)}
          /\ owner' = p
          /\ Lapse("raced", owner # proc[p].saw)
          /\ \/ Calm /\ Own(p, row.id)
             \/ Fault /\ Leave(p) /\ UNCHANGED <<renewed, ran>>
     \/ /\ \A row \in rows : ~Reclaimable(p, row)
        /\ IF proc[p].late THEN Become(p, [proc[p] EXCEPT !.pc = "latest"]) ELSE Leave(p)
        /\ Calm /\ UNCHANGED <<rows, renewed, owner, ran, lapses>>
  /\ UNCHANGED <<users, time, ids>>

\* MarkSucceeded and MarkFailedRetryable: an UPDATE by id, whoever owns the row now.
\* The coordinator goes on from the expiry it chose when it began.
Expiry(p) == TTL + IF p \in Calls THEN Now(p) ELSE time

Succeeded_OldBody(p, row) ==
  [row EXCEPT !.status = "succeeded", !.locked = Null, !.expires = Expiry(p)]
Succeeded(p, row) ==
  [row EXCEPT !.status = "succeeded", !.locked = Null, !.expires = Expiry(p), !.body = p]

\* The period of a call is over, or another operation has the lock.
Outrun(p) == IF p \in Calls THEN Now(p) + TTL <= time ELSE owner # p

FailedRetryable(p, row) ==
  [row EXCEPT !.status = "failed", !.expires = Expiry(p),
              !.locked = time + IF p \in Calls THEN Backoff ELSE 0]

\* A statement that fails may have been executed.
Mark(p, outcome) ==
  /\ At(p, "act")
  /\ LET mine == {row \in rows : row.id = proc[p].id}
         marked == {IF outcome = "done" THEN Succeeded(p, row) ELSE FailedRetryable(p, row)
                    : row \in mine} IN
       /\ \/ Calm /\ rows' = IF mine = {} THEN rows ELSE marked
          \/ Fault /\ mine # {} /\ rows' \in {rows, marked}
       /\ Lapse("outran", mine # {} /\ Outrun(p))
  /\ Leave(p)
  /\ renewed' = renewed \ {p}
  /\ ran' = [ran EXCEPT ![p] = outcome]
  /\ UNCHANGED <<users, time, ids, owner>>

DeleteExpired ==
  /\ \E row \in rows : row.expires <= time
  /\ rows' = {}
  /\ Calm /\ UNCHANGED <<users, time, ids, proc, renewed, history>>

(***************************************************************************)
(* What a client does with the row it reads.                               *)
(***************************************************************************)
Reclaim(p, row, late) ==
  Become(p, [proc[p] EXCEPT !.pc = "reclaim", !.id = row.id, !.from = row.status,
                            !.late = late, !.saw = owner])

\* The switch on the status in Execute.  A stored response that was cut cannot be
\* decoded.
ByStatus(p, row) ==
  \/ row.status = "succeeded" /\ Become(p, [proc[p] EXCEPT !.pc = "over", !.replay = row.body])
  \/ row.status \in {"succeeded", "processing"} /\ Leave(p)
  \/ row.status = "failed" /\ row.locked > Now(p) /\ Leave(p)
  \/ row.status = "failed" /\ row.locked <= Now(p) /\ Reclaim(p, row, FALSE)

Expired_ByLock(p, row) == row.locked <= Now(p)
Expired(p, row) == row.expires <= Now(p)

Busy(p, row) == row.status = "processing" /\ row.locked > Now(p)

GetForCall(p) ==
  /\ p \in Calls /\ proc[p].pc \in {"get", "latest"}
  /\ \/ rows = {} /\ Leave(p)
     \/ \E row \in rows :
          \/ row.print # PrintOf[p] /\ Leave(p)
          \/ /\ row.print = PrintOf[p]
             /\ IF At(p, "get") /\ Expired(p, row) THEN Reclaim(p, row, TRUE) ELSE ByStatus(p, row)
  /\ Calm /\ UNCHANGED <<users, time, rows, ids, renewed, history>>

GetForLock(p) ==
  /\ p \in Operations /\ At(p, "get")
  /\ \/ rows = {} /\ Leave(p)
     \/ \E row \in rows : IF Busy(p, row) THEN Leave(p) ELSE Reclaim(p, row, FALSE)
  /\ Calm /\ UNCHANGED <<users, time, rows, ids, renewed, history>>

(***************************************************************************)
(* renewLoop: the row is mine while it has my operation id.                *)
(***************************************************************************)
Renewing(p) == At(p, "act") /\ p \in Operations /\ ~proc[p].ended
Mine(p, row) == row.id = proc[p].id /\ row.status = "processing" /\ row.print = PrintOf[p]

\* ExtendProcessingLock
ExtendProcessingLock(p) ==
  /\ Renewing(p) /\ p \notin renewed
  /\ renewed' = renewed \cup {p}
  /\ \/ /\ Calm
        /\ \/ \E row \in rows :
                /\ Mine(p, row)
                /\ rows' = {[row EXCEPT !.locked = time + Lease, !.expires = time + TTL]}
                /\ UNCHANGED proc
           \/ /\ \A row \in rows : ~Mine(p, row)
              /\ Become(p, [proc[p] EXCEPT !.ended = TRUE])
              /\ UNCHANGED rows
        /\ UNCHANGED lapses
     \/ Fault /\ UNCHANGED <<rows, proc>> /\ Lapse("unrenewed", TRUE)
  /\ UNCHANGED <<users, time, ids, ran, owner>>

(***************************************************************************)
(* Time and faults.                                                        *)
(***************************************************************************)
Claiming(p) == proc[p].pc \in {"create", "get", "latest", "reclaim"}
RenewalDue(p) == Renewing(p) /\ p \notin renewed

\* A claim or a renewal that takes as long as a tick is a fault.
Tick ==
  /\ time < MaxTime /\ time' = time + 1
  /\ renewed' = {}
  /\ IF \E p \in Clients : Claiming(p) \/ RenewalDue(p) THEN Fault ELSE Calm
  /\ lapses' = lapses \cup (IF \E p \in Clients : Claiming(p) THEN {"slow"} ELSE {})
                     \cup (IF \E p \in Clients : RenewalDue(p) THEN {"unrenewed"} ELSE {})
  /\ UNCHANGED <<users, rows, ids, proc, ran, owner>>

\* A call that fails without effect, or the process stops.
Crash(p) ==
  /\ proc[p].pc \notin {"idle", "over"} /\ Fault
  /\ Leave(p) /\ renewed' = renewed \ {p}
  /\ UNCHANGED <<users, time, rows, ids, history>>

Init ==
  /\ users \in {Calls, Operations}
  /\ time = 0 /\ rows = {} /\ ids = 0 /\ faults = 0
  /\ proc = [p \in Clients |-> Out]
  /\ renewed = {}
  /\ ran = [p \in Clients |-> "no"]
  /\ owner = Nobody /\ lapses = {}

Next ==
  \/ \E p \in Clients :
       \/ Begin(p) \/ CreateProcessing(p) \/ GetForCall(p) \/ GetForLock(p) \/ TryReclaim(p)
       \/ ExtendProcessingLock(p) \/ Crash(p)
       \/ \E outcome \in {"done", "failed"} : Mark(p, outcome)
  \/ DeleteExpired
  \/ Tick

Spec == Init /\ [][Next]_vars

(***************************************************************************)
(* Properties.                                                             *)
(***************************************************************************)
Status == {"processing", "succeeded", "failed"}
Stages == {"idle", "create", "get", "latest", "reclaim", "act", "over"}
Outcomes == {"no", "open", "done", "failed"}
Ways == {"raced", "outran", "slow", "unrenewed"}
Far == MaxTime + Lease + TTL + Backoff
Row == [id : Nat, status : Status, print : Prints, body : Clients \cup {Nobody},
        locked : 0 .. Far, expires : 0 .. Far]
Proc == [pc : Stages, now : 0 .. MaxTime, id : Nat, from : Status \cup {Unread},
         late : BOOLEAN, ended : BOOLEAN, saw : Clients \cup {Nobody},
         replay : Clients \cup {Nobody, Nothing}]

\* Shapes; there is at most one row, and nobody's clock is ahead.
TypeOK ==
  /\ users \in {Calls, Operations}
  /\ time \in 0 .. MaxTime /\ faults \in 0 .. MaxFaults
  /\ rows \subseteq Row /\ \A row, other \in rows : row = other
  /\ ids \in Nat
  /\ proc \in [Clients -> Proc] /\ \A p \in Clients : proc[p].now <= time
  /\ renewed \subseteq Operations
  /\ ran \in [Clients -> Outcomes]
  /\ owner \in Clients \cup {Nobody}
  /\ lapses \subseteq Ways

Executed(p) == ran[p] \in {"open", "done"}

\* A call that has executed, even if it has crashed or its mark was lost, is the only
\* one for as long as a row lives, counted from when the calls began; unless a call
\* reclaims a row that another has reclaimed since it was read, executes for longer than
\* that, or is slow to claim.
OncePerPeriod ==
  lapses = {} =>
    \A p, q \in Calls :
      p # q /\ Executed(p) /\ Executed(q) => Now(p) + TTL <= Now(q) \/ Now(q) + TTL <= Now(p)

\* What is replayed is the response of a call that has executed, with the same
\* request and in the same period.
ReplayIsCurrent ==
  lapses = {} =>
    \A p \in Calls : proc[p].replay # Nothing =>
      \E q \in Calls : /\ proc[p].replay = q
                      /\ ran[q] = "done" /\ PrintOf[q] = PrintOf[p] /\ Now(p) < Now(q) + TTL

Held(p) == p \in Operations /\ At(p, "act")

\* Nobody else gets the lock from a holder that still renews it, although holders
\* crash and releases fail, as long as no renewal fails, no claim is slow and nobody
\* releases a lock that he has lost.  It takes a lease and a row that outlive the
\* interval between renewals.
LockExclusive ==
  lapses \cap {"slow", "unrenewed", "outran"} = {} =>
    \A p, q \in Operations : p # q /\ Held(p) /\ Held(q) => ~Renewing(p) \/ ~Renewing(q)

\* TestSystemOperationLockService_RenewLease: locked_until is renewed while the lock
\* is held.
RenewedWhileHeld ==
  faults = 0 => \A p \in Operations : Held(p) => \E row \in rows : row.locked > time

=============================================================================
