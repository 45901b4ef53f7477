--------------------------- MODULE SchedulerOutbox ---------------------------
(***************************************************************************)
(* How a change of the accounts in the database reaches the snapshot of a  *)
(* scheduler bucket.  Transactions write rows to an outbox table.  Each    *)
(* server polls the rows above a watermark kept in Redis, rebuilds the     *)
(* buckets they name, moves the watermark, and removes what is consumed.   *)
(* A worker rebuilds everything from time to time, and a request that      *)
(* finds no snapshot loads the accounts and stores one itself.             *)
(*                                                                         *)
(* All changes here concern one bucket, so one rebuild covers a batch      *)
(* (that is what batchSeenKey is for).  A SetSnapshot is one step; see     *)
(* SchedulerCache for why.  Row ids are handed out before the transaction  *)
(* commits, so rows do not become visible in the order of their ids.       *)
(***************************************************************************)
EXTENDS Integers, Sequences, FiniteSets

CONSTANTS
  Transactions,  \* sessions that change accounts
  Pollers,       \* runOutboxWorker goroutines, one for each server
  Rebuilders,    \* runInitialRebuild and runFullRebuildWorker goroutines
  Requests,      \* requests that miss the snapshot
  Limit,         \* rows in one batch
  MaxChanges,    \* bound: changes started
  MaxFaults      \* bound: failed calls, crashes, locks that expire under their holder

Workers == Pollers \cup Rebuilders
Free == "free"

ASSUME ProcsAssumption ==
  /\ Pollers \cap Rebuilders = {} /\ Workers \cap Requests = {}
  /\ Free \notin Workers
ASSUME BoundsAssumption == Limit \in Nat \ {0} /\ MaxChanges \in Nat /\ MaxFaults \in Nat

VARIABLES
  db,         \* how many changes are committed
  tx,         \* each transaction: where it is, the row it inserted, whose row it relies on
  rows,       \* scheduler_outbox: a row's id is its place
  snapshot,   \* the state of the database the bucket's snapshot was loaded from
  lock,       \* sched:lock of the bucket: who set it
  watermark,  \* sched:outbox:watermark, 0 when missing
  proc,       \* each worker and request: where it is, what it has loaded, its batch's last id
  changes, faults,
  \* History: no guard reads it.
  listed,     \* rows some poll has returned
  lost        \* the ways in which a change escaped the outbox so far

vars == <<db, tx, rows, snapshot, lock, watermark, proc, changes, faults, listed, lost>>

Ids == 1 .. Len(rows)
Live == {id \in Ids : rows[id].state = "live"}
Open == {id \in Ids : rows[id].state = "open"}
Holding == {id \in Ids : rows[id].dedup}

Calm == UNCHANGED faults
Fault == faults < MaxFaults /\ faults' = faults + 1
Lose(way) == lost' = lost \cup {way}

(***************************************************************************)
(* Transactions.  Most repositories commit a change and then insert its    *)
(* row, in a transaction of its own; the billing repository inserts the    *)
(* row inside the transaction that makes the change.                       *)
(***************************************************************************)
NoTx == [pc |-> "idle", row |-> 0]
TxAt(t, pc) == tx[t].pc = pc
TxGo(t, pc, row) == tx' = [tx EXCEPT ![t] = [pc |-> pc, row |-> row]]
outboxSide == <<snapshot, lock, watermark, proc, listed>>

Change(t) ==
  /\ TxAt(t, "idle") /\ changes < MaxChanges /\ changes' = changes + 1
  /\ \/ db' = db + 1 /\ TxGo(t, "changed", 0)
     \/ UNCHANGED db /\ TxGo(t, "changing", 0)
  /\ Calm /\ UNCHANGED <<rows, lost, outboxSide>>

Commits(t) == IF TxAt(t, "changed") THEN "announced" ELSE "uncommitted"

\* enqueueSchedulerOutbox.  With a dedup key the insert waits for a transaction that
\* has inserted the same key, and does nothing when a row already holds it.
Insert(t, dedup) ==
  /\ tx[t].pc \in {"changed", "changing"}
  /\ dedup => Holding \cap Open = {}
  /\ \/ /\ dedup => Holding = {}
        /\ rows' = Append(rows, [state |-> "open", dedup |-> dedup])
        /\ TxGo(t, Commits(t), Len(rows) + 1)
     \/ /\ dedup /\ Holding # {}
        /\ \E id \in Holding : TxGo(t, Commits(t), id)
        /\ UNCHANGED rows
  /\ Calm /\ UNCHANGED <<db, changes, lost, outboxSide>>

\* An insert or a commit fails, or the server stops.  A change that was committed
\* before stays committed; the error is only logged.  Only when its row goes with the
\* transaction does the change escape.
Unannounced(t) == TxAt(t, "changed") \/ (TxAt(t, "announced") /\ tx[t].row \in Open)

Rollback(t) ==
  /\ ~TxAt(t, "idle") /\ Fault
  /\ rows' = IF tx[t].row \in Open
             THEN [rows EXCEPT ![tx[t].row] = [state |-> "void", dedup |-> FALSE]] ELSE rows
  /\ IF Unannounced(t) THEN Lose("unannounced") ELSE UNCHANGED lost
  /\ TxGo(t, "idle", 0)
  /\ UNCHANGED <<db, changes, outboxSide>>

\* The transaction relied on a row of another, whose key has been released meanwhile.
Swallowed(t) == TxAt(t, "uncommitted") /\ tx[t].row \notin Open \cup Holding

Commit(t) ==
  /\ tx[t].pc \in {"announced", "uncommitted"}
  /\ db' = IF TxAt(t, "uncommitted") THEN db + 1 ELSE db
  /\ rows' = IF tx[t].row \in Open THEN [rows EXCEPT ![tx[t].row].state = "live"] ELSE rows
  /\ IF Swallowed(t) THEN Lose("swallowed") ELSE UNCHANGED lost
  /\ TxGo(t, "idle", 0)
  /\ Calm /\ UNCHANGED <<changes, outboxSide>>

(***************************************************************************)
(* A rebuild: rebuildBucket, or the fallback of a request.                 *)
(***************************************************************************)
Resting == [pc |-> "idle", got |-> 0, since |-> 0, last |-> 0]
At(p, pc) == proc[p].pc = pc
Go(p, pc) == proc' = [proc EXCEPT ![p].pc = pc]
Rest(p) == proc' = [proc EXCEPT ![p] = Resting]
txSide == <<db, tx, rows, changes>>

StartRebuild(p) ==
  /\ p \in Rebuilders /\ At(p, "idle")
  /\ Go(p, "lock")
  /\ Calm /\ UNCHANGED <<txSide, snapshot, lock, watermark, listed, lost>>

\* After a rebuild a poller that has a batch moves the watermark.
Continue(p) == IF p \in Pollers /\ proc[p].last > 0 THEN Go(p, "mark") ELSE Rest(p)

\* Somebody else holds the lock, or so it looks when the reply is lost and the SETNX
\* sent again: the bucket counts as rebuilt.
LockedOut(p) ==
  Continue(p) /\ IF proc[p].last > 0 THEN Lose("locked out") ELSE UNCHANGED lost

TryLockBucket(p) ==
  /\ At(p, "lock")
  /\ \/ lock = Free /\ lock' = p /\ Go(p, "load") /\ Calm /\ UNCHANGED lost
     \/ lock = Free /\ lock' = p /\ LockedOut(p) /\ Fault
     \/ lock # Free /\ UNCHANGED lock /\ LockedOut(p) /\ Calm
  /\ UNCHANGED <<txSide, snapshot, watermark, listed>>

LoadAccountsFromDB(p) ==
  /\ \/ At(p, "load")
     \/ p \in Requests /\ At(p, "idle")
  /\ proc' = [proc EXCEPT ![p].pc = "write", ![p].got = db]
  /\ Calm /\ UNCHANGED <<txSide, snapshot, lock, watermark, listed, lost>>

Written(p) ==
  /\ At(p, "write") /\ snapshot' = proc[p].got
  /\ IF proc[p].got < snapshot THEN Lose("overwritten") ELSE UNCHANGED lost

SetSnapshot(p) ==
  /\ Written(p)
  /\ IF p \in Requests THEN Rest(p)
     ELSE proc' = [proc EXCEPT ![p].pc = "unlock", ![p].got = 0]
  /\ Calm /\ UNCHANGED <<txSide, lock, watermark, listed>>

\* A DEL, whoever holds the lock by now; its error is ignored.
UnlockBucket(p) ==
  /\ At(p, "unlock")
  /\ (lock' = Free /\ Calm) \/ (UNCHANGED lock /\ Fault)
  /\ Continue(p)
  /\ UNCHANGED <<txSide, snapshot, watermark, listed, lost>>

\* A call fails, perhaps after it was executed, or the process dies.  The poll ends
\* with the watermark where it was; the deferred UnlockBucket runs if the lock had been
\* taken and the process lives.
LockAfterFailure(p) ==
  IF p \in Requests THEN {lock}
  ELSE IF At(p, "lock") THEN {lock, IF lock = Free THEN p ELSE lock} ELSE {lock, Free}

RebuildFails_MarksAnyway(p) ==
  /\ proc[p].pc \in {"lock", "load", "write"} /\ Fault
  /\ lock' \in LockAfterFailure(p)
  /\ Written(p) \/ UNCHANGED <<snapshot, lost>>
  /\ Continue(p)
  /\ UNCHANGED <<txSide, watermark, listed>>

RebuildFails(p) ==
  /\ proc[p].pc \in {"lock", "load", "write"} /\ Fault
  /\ lock' \in LockAfterFailure(p)
  /\ Written(p) \/ UNCHANGED <<snapshot, lost>>
  /\ Rest(p)
  /\ UNCHANGED <<txSide, watermark, listed>>

\* The lock's thirty seconds are over: nobody works under it any more, or its holder
\* was slow.
Working(p) == proc[p].pc \in {"load", "write", "unlock"}
LockAfterTTL_Kept == lock
LockAfterTTL == Free

LockExpires ==
  /\ lock # Free
  /\ lock' = LockAfterTTL
  /\ IF Working(lock) THEN Fault ELSE Calm
  /\ UNCHANGED <<txSide, snapshot, watermark, proc, listed, lost>>

(***************************************************************************)
(* pollOutbox                                                              *)
(***************************************************************************)
GetOutboxWatermark(p) ==
  /\ p \in Pollers /\ At(p, "idle")
  /\ proc' = [proc EXCEPT ![p].pc = "list", ![p].since = watermark]
  /\ Calm /\ UNCHANGED <<txSide, snapshot, lock, watermark, listed, lost>>

\* The first rows above an id, of those that are visible.
Batch(since) ==
  {id \in Live : id > since /\ Cardinality({i \in Live : since < i /\ i < id}) < Limit}

Released_NotYet(batch) == rows
Released(batch) ==
  [id \in Ids |-> IF id \in batch THEN [rows[id] EXCEPT !.dedup = FALSE] ELSE rows[id]]

LastOf_Next(batch) == (CHOOSE id \in batch : \A i \in batch : i <= id) + 1
LastOf(batch) == CHOOSE id \in batch : \A i \in batch : i <= id

\* One statement; when it fails the keys may be released all the same.
ListAfterAndReleaseDedup(p) ==
  /\ At(p, "list")
  /\ LET batch == Batch(proc[p].since) IN
       \/ /\ batch = {} /\ Calm
          /\ Rest(p) /\ UNCHANGED <<rows, listed, lost>>
       \/ /\ batch # {} /\ Calm
          /\ rows' = Released(batch)
          /\ proc' = [proc EXCEPT ![p] = [Resting EXCEPT !.pc = "lock", !.last = LastOf(batch)]]
          /\ listed' = listed \cup batch
          /\ IF \E id \in Open : id < LastOf(batch) THEN Lose("passed over")
             ELSE UNCHANGED lost
       \/ /\ Fault
          /\ rows' \in {rows, Released(batch)}
          /\ Rest(p) /\ UNCHANGED <<listed, lost>>
  /\ UNCHANGED <<db, tx, changes, snapshot, lock, watermark>>

\* A plain SET; after three failures, any of which may have been executed, the poll
\* goes on without it.
SetOutboxWatermark(p) ==
  /\ At(p, "mark")
  /\ \/ Calm /\ watermark' = proc[p].last /\ Go(p, "clean")
     \/ Fault /\ watermark' \in {watermark, proc[p].last} /\ Go(p, "lag")
  /\ UNCHANGED <<txSide, snapshot, lock, listed, lost>>

\* cleanupConsumedOutbox: rows up to the watermark that are old enough, or none when
\* another server is cleaning.
Consumed_All(p) == Live
Consumed(p) == {id \in Live : id <= proc[p].last}

CleanupConsumedOutbox(p) ==
  /\ At(p, "clean")
  /\ \E old \in SUBSET Consumed(p) :
       rows' = [id \in Ids |-> IF id \in old THEN [state |-> "gone", dedup |-> FALSE] ELSE rows[id]]
  /\ Go(p, "lag")
  /\ Calm /\ UNCHANGED <<db, tx, changes, snapshot, lock, watermark, listed, lost>>

\* A poll that lags behind rebuilds everything before it ends.
CheckOutboxLag(p) ==
  /\ At(p, "lag")
  /\ \/ Rest(p)
     \/ proc' = [proc EXCEPT ![p] = [Resting EXCEPT !.pc = "lock"]]
  /\ Calm /\ UNCHANGED <<txSide, snapshot, lock, watermark, listed, lost>>

Init ==
  /\ db = 0 /\ changes = 0 /\ faults = 0
  /\ tx = [t \in Transactions |-> NoTx]
  /\ rows = <<>>
  /\ snapshot = 0 /\ lock = Free /\ watermark = 0
  /\ proc = [p \in Workers \cup Requests |-> Resting]
  /\ listed = {} /\ lost = {}

TxStep(t) == Commit(t) \/ \E dedup \in BOOLEAN : Insert(t, dedup)
Rebuild(p) == TryLockBucket(p) \/ LoadAccountsFromDB(p) \/ SetSnapshot(p) \/ UnlockBucket(p)
Poll(p) ==
  \/ GetOutboxWatermark(p) \/ ListAfterAndReleaseDedup(p)
  \/ SetOutboxWatermark(p) \/ CleanupConsumedOutbox(p) \/ CheckOutboxLag(p)

Next ==
  \/ \E t \in Transactions : Change(t) \/ TxStep(t) \/ Rollback(t)
  \/ \E p \in Workers \cup Requests : Rebuild(p) \/ RebuildFails(p)
  \/ \E p \in Workers : StartRebuild(p) \/ Poll(p)
  \/ LockExpires

Spec == Init /\ [][Next]_vars

\* Transactions end, polls follow polls, calls return or time out, locks expire.  No
\* full rebuild need ever start: its interval may be zero.
FairSpec ==
  /\ Spec
  /\ \A t \in Transactions : WF_vars(TxStep(t))
  /\ \A p \in Workers : WF_vars(Rebuild(p) \/ Poll(p))
  /\ \A p \in Requests : WF_vars(SetSnapshot(p))
  /\ WF_vars(LockExpires)

(***************************************************************************)
(* Properties.                                                             *)
(***************************************************************************)
TxStages == {"idle", "changed", "changing", "announced", "uncommitted"}
TxType == [pc : TxStages, row : 0 .. MaxChanges]
Ways == {"unannounced", "swallowed", "locked out", "overwritten", "passed over"}
RowType == [state : {"open", "live", "void", "gone"}, dedup : BOOLEAN]
Stages == {"idle", "list", "lock", "load", "write", "unlock", "mark", "clean", "lag"}
ProcType == [pc : Stages, got : 0 .. MaxChanges, since : 0 .. MaxChanges, last : 0 .. MaxChanges]

\* Shapes; at most one row holds the dedup key, nobody has loaded a change that is not
\* committed, and the watermark is at a row that was listed.
TypeOK ==
  /\ db \in 0 .. changes /\ changes \in 0 .. MaxChanges /\ faults \in 0 .. MaxFaults
  /\ tx \in [Transactions -> TxType]
  /\ rows \in Seq(RowType) /\ Len(rows) <= changes
  /\ \A i, j \in Holding : i = j
  /\ snapshot \in 0 .. db
  /\ lock \in Workers \cup {Free}
  /\ watermark \in {0} \cup listed
  /\ proc \in [Workers \cup Requests -> ProcType]
  /\ \A p \in Workers \cup Requests : proc[p].got <= db
  /\ listed \subseteq Ids
  /\ lost \subseteq Ways

\* No row is removed, and the watermark passes no row, that no poll has returned,
\* unless a transaction committed it late, below rows that were listed before it.
OnlyConsumedRowsGo ==
  "passed over" \notin lost =>
    /\ \A id \in Ids : rows[id].state = "gone" => id \in listed
    /\ \A id \in Live : id <= watermark => id \in listed

\* What the outbox still has to deliver, to pollers who start at a mark: a committed
\* change whose row is not visible yet, or a visible row above the mark.
Outstanding(mark) ==
  \/ \E t \in Transactions : Unannounced(t)
  \/ \E id \in Live : id > mark

Current == snapshot = db

\* A snapshot that lags behind the database is never taken for settled: unless a change
\* escaped in one of the ways that lost names, something above the watermark will make
\* a poller rebuild the bucket.  So a poller that failed, was overtaken, listed the same
\* rows as another or moved the watermark back has not consumed a row whose change it,
\* or whoever did consume it, has not stored.
NothingForgotten == lost = {} => Current \/ Outstanding(watermark)

\* Every change reaches the snapshot through the outbox alone, although polls fail,
\* servers die, calls are sent again and rows are merged, as long as no change escapes
\* in one of the ways that lost names.
OutboxDelivers == [](lost = {}) => <>[]Current

\* With a full rebuild from time to time the snapshot ends up current whatever escaped.
FullRebuildRepairs == (\A p \in Rebuilders : WF_vars(StartRebuild(p))) => <>[]Current

=============================================================================
