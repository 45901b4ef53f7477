------------------------ MODULE SchedulerOutboxProofs ------------------------
(***************************************************************************)
(* What a poll returned is everything that was visible up to its last row  *)
(* (Swept), as long as no transaction commits a row late: the rows of a    *)
(* batch are the first above the watermark, and everything up to the       *)
(* watermark was returned before.  So whoever moves the watermark to the   *)
(* end of his batch, or removes what is below it, leaves no row unread.    *)
(* The bounds on changes and rows hold because a change that is not yet    *)
(* committed, or has no row yet, is under way in one session (Counts).     *)
(***************************************************************************)
EXTENDS SchedulerOutbox, FiniteSetTheorems, SequenceTheorems, WellFoundedInduction, TLAPS

Procs == Workers \cup Requests

\* Sessions with a change that is not committed, or with one that has no row yet.
UncommittedStages == {"changing", "uncommitted"}
UnwrittenStages == {"changed", "changing"}
Uncommitted == {t \in Transactions : tx[t].pc \in UncommittedStages}
Unwritten == {t \in Transactions : tx[t].pc \in UnwrittenStages}

\* No more changes and rows than were begun.
Counts ==
  /\ IsFiniteSet(Uncommitted) /\ IsFiniteSet(Unwritten)
  /\ db + Cardinality(Uncommitted) <= changes
  /\ Len(rows) + Cardinality(Unwritten) <= changes

\* A request loads and writes, and never takes the lock.
RequestStages == {"idle", "write"}
Unlocked == \A p \in Requests : proc[p].pc \in RequestStages

\* A poller's batch starts after a listed row and ends with one.
Marks == \A p \in Procs : proc[p].last \in {0} \cup listed /\ proc[p].since \in {0} \cup listed

InOrder == "passed over" \notin lost
Void == {id \in Ids : rows[id].state = "void"}
Gone == {id \in Ids : rows[id].state = "gone"}

\* Below a row that was listed no row is open, and all were listed that ever count.
Swept ==
  InOrder => \A l \in listed, id \in Ids :
               id <= l => id \notin Open /\ (id \in Void \/ id \in listed)

GoneListed == InOrder => Gone \subseteq listed

IInv == TypeOK /\ Counts /\ Unlocked /\ Marks /\ Swept /\ GoneListed

\* What the shapes say of the table.
LEMMA RowsType ==
  ASSUME TypeOK
  PROVE  /\ rows \in Seq(RowType) /\ Len(rows) \in Nat /\ Ids = 1 .. Len(rows)
         /\ Live \subseteq Ids /\ Open \subseteq Ids /\ Holding \subseteq Ids
         /\ listed \subseteq Ids
<1>1. rows \in Seq(RowType) /\ listed \subseteq Ids
  BY DEF TypeOK
<1>2. Len(rows) \in Nat
  BY <1>1
<1> QED BY <1>1, <1>2 DEF Ids, Live, Open, Holding

LEMMA LiveIsNotVoid == Live \cap Void = {}
  BY DEF Live, Void

LEMMA InvImplies == IInv => TypeOK /\ OnlyConsumedRowsGo
  <1> SUFFICES ASSUME IInv, InOrder
               PROVE  Gone \subseteq listed /\ \A id \in Live : id <= watermark => id \in listed
    BY DEF IInv, OnlyConsumedRowsGo, Gone, InOrder
  <1>1. /\ watermark \in {0} \cup listed /\ listed \subseteq 1 .. Len(rows) /\ Len(rows) \in Nat
        /\ Ids = 1 .. Len(rows) /\ Live \subseteq Ids
    BY RowsType DEF IInv, TypeOK
  <1>2. ASSUME NEW id \in Live, id <= watermark PROVE id \in listed
    <2>1. watermark \in listed
      BY <1>1, <1>2
    <2> QED BY <2>1, <1>1, <1>2, LiveIsNotVoid DEF IInv, Swept
  <1> QED BY <1>2 DEF IInv, GoneListed

LEMMA InitInv == Init => IInv
  <1> SUFFICES ASSUME Init PROVE IInv
    OBVIOUS
  <1> USE DEF Init
  <1>1. Len(rows) = 0 /\ rows \in Seq(RowType) /\ Ids = {}
    BY DEF Ids
  <1>2. tx \in [Transactions -> TxType] /\ proc \in [Procs -> ProcType]
    BY BoundsAssumption DEF NoTx, TxType, TxStages, Resting, ProcType, Stages, Procs
  <1>3. TypeOK
    BY <1>1, <1>2, BoundsAssumption DEF TypeOK, Holding, Procs, Resting
  <1>4. Counts
    <2>1. Uncommitted = {} /\ Unwritten = {}
      BY DEF Uncommitted, Unwritten, UncommittedStages, UnwrittenStages, NoTx
    <2>2. db = 0 /\ changes = 0
      OBVIOUS
    <2> HIDE DEF Init
    <2> QED BY <1>1, <2>1, <2>2, FS_EmptySet DEF Counts
  <1>5. Unlocked
    BY DEF Unlocked, RequestStages, Resting
  <1>6. Marks /\ Swept /\ GoneListed
    BY <1>1 DEF Marks, Swept, GoneListed, Gone, Resting, Procs
  <1> QED BY <1>3, <1>4, <1>5, <1>6 DEF IInv

(***************************************************************************)
(* Numbers and sequences.                                                  *)
(***************************************************************************)
\* A set of ids that is not empty has a last one.
LEMMA LastIsLast ==
  ASSUME NEW n \in Nat, NEW batch \in SUBSET (1 .. n), batch # {}
  PROVE  LastOf(batch) \in batch /\ \A i \in batch : i <= LastOf(batch)
<1> DEFINE Fromend == {n - i : i \in batch}
<1>1. \A i \in batch : i \in Nat /\ i <= n
  OBVIOUS
<1>2. \A i \in batch : n - i \in Nat
  BY <1>1
<1>3. Fromend \subseteq Nat /\ Fromend # {}
  BY <1>2
<1>4. PICK m \in Fromend : \A y \in Fromend : ~ (y < m)
  <2>1. PICK m \in Fromend : \A y \in Fromend : <<y, m>> \notin OpToRel(<, Nat)
    BY <1>3, NatLessThanWellFounded, WFMin
  <2> QED BY <2>1, <1>3 DEF OpToRel
<1>5. PICK id \in batch : m = n - id
  OBVIOUS
<1>6. ASSUME NEW i \in batch PROVE i <= id
  <2>1. n - i \in Fromend
    OBVIOUS
  <2>2. ~ (n - i < m)
    BY <2>1, <1>4
  <2> QED BY <2>2, <1>1, <1>5
<1> QED BY <1>6 DEF LastOf

LEMMA FunctionIsSequence ==
  ASSUME NEW S, NEW n \in Nat, NEW f \in [1 .. n -> S]
  PROVE  f \in Seq(S) /\ Len(f) = n
  BY SeqDef

LEMMA FiniteStep ==
  ASSUME NEW S, IsFiniteSet(S), NEW t
  PROVE  /\ Cardinality(S) \in Nat
         /\ IsFiniteSet(S \cup {t}) /\ IsFiniteSet(S \ {t})
         /\ Cardinality(S \cup {t}) = IF t \in S THEN Cardinality(S) ELSE Cardinality(S) + 1
         /\ Cardinality(S \ {t}) = IF t \in S THEN Cardinality(S) - 1 ELSE Cardinality(S)
  BY FS_CardinalityType, FS_AddElement, FS_RemoveElement

\* A batch leaves nothing out below one of its rows.
LEMMA BatchIsPrefix ==
  ASSUME TypeOK, NEW since \in Nat, NEW l \in Batch(since), NEW id \in Live, since < id, id <= l
  PROVE  id \in Batch(since)
<1> DEFINE Before(x) == {i \in Live : since < i /\ i < x}
<1>1. Len(rows) \in Nat /\ Live \subseteq 1 .. Len(rows)
  BY RowsType
<1>2. IsFiniteSet(Before(l))
  <2>1. IsFiniteSet(1 .. Len(rows))
    BY <1>1, FS_Interval
  <2> QED BY <1>1, <2>1, FS_Subset
<1>3. Before(id) \in SUBSET Before(l)
  <2>1. l \in Live
    BY DEF Batch
  <2>2. ASSUME NEW i \in Live, i < id PROVE i < l
    BY <1>1, <2>1, <2>2
  <2> QED BY <2>2
<1>4. Cardinality(Before(id)) <= Cardinality(Before(l)) /\ IsFiniteSet(Before(id))
  BY <1>2, <1>3, FS_Subset
<1>5. Cardinality(Before(id)) \in Nat /\ Cardinality(Before(l)) \in Nat
  BY <1>2, <1>4, FS_CardinalityType
<1>6. Cardinality(Before(l)) < Limit
  BY DEF Batch
<1> QED BY <1>4, <1>5, <1>6, BoundsAssumption DEF Batch

(***************************************************************************)
(* Steps of workers and requests that leave the table alone.               *)
(***************************************************************************)
Fits(p, st) ==
  /\ st \in ProcType /\ st.got <= db
  /\ st.last \in {0} \cup listed /\ st.since \in {0} \cup listed
  /\ p \in Requests => st.pc \in RequestStages

LEMMA EveryoneFits ==
  ASSUME IInv, NEW p \in Procs
  PROVE  Fits(p, proc[p])
  BY DEF IInv, TypeOK, Marks, Unlocked, Fits, Procs

LEMMA StateFits ==
  ASSUME IInv, NEW p \in Procs, NEW st, Fits(p, st), proc' = [proc EXCEPT ![p] = st],
         UNCHANGED listed, db <= db', db \in Nat, db' \in Nat
  PROVE  /\ proc' \in [Procs -> ProcType]
         /\ \A q \in Procs : proc'[q].got <= db'
         /\ Marks' /\ Unlocked'
<1>1. proc \in [Procs -> ProcType]
  BY DEF IInv, TypeOK, Procs
<1>2. \A q \in Procs : Fits(q, proc'[q])
  BY <1>1, EveryoneFits
<1>3. \A q \in Procs : proc'[q].got \in Nat
  BY <1>2, BoundsAssumption DEF Fits, ProcType
<1>4. proc' \in [Procs -> ProcType]
  BY <1>1 DEF Fits
<1>5. \A q \in Procs : proc'[q].got <= db'
  BY <1>2, <1>3 DEF Fits
<1>6. Marks' /\ Unlocked'
  BY <1>2 DEF Fits, Marks, Unlocked, Procs
<1> QED BY <1>4, <1>5, <1>6

\* The history only grows.
LEMMA OrderStays ==
  ASSUME lost \subseteq lost', InOrder'
  PROVE  InOrder
  BY DEF InOrder

LEMMA SameTable ==
  ASSUME IInv, UNCHANGED <<db, tx, rows, changes, listed>>, lost \subseteq lost'
  PROVE  Counts' /\ Swept' /\ GoneListed' /\ Ids' = Ids /\ Holding' = Holding
<1>1. Counts'
  BY DEF IInv, Counts, Uncommitted, Unwritten
<1>2. Ids' = Ids /\ Open' = Open /\ Void' = Void /\ Gone' = Gone /\ Holding' = Holding
  BY DEF Ids, Open, Void, Gone, Holding
<1>3. Swept' /\ GoneListed'
  BY <1>2, OrderStays DEF IInv, Swept, GoneListed
<1> QED BY <1>1, <1>2, <1>3

Moves(p) == \E st : Fits(p, st) /\ proc' = [proc EXCEPT ![p] = st]
LosesMore == lost \subseteq lost' /\ lost' \subseteq Ways

LEMMA WorkerStep ==
  ASSUME IInv, NEW p \in Procs, Moves(p), UNCHANGED <<db, tx, rows, changes, listed>>,
         faults' \in 0 .. MaxFaults, snapshot' \in 0 .. db, lock' \in Workers \cup {Free},
         watermark' \in {0} \cup listed, LosesMore
  PROVE  IInv'
<1> PICK st : Fits(p, st) /\ proc' = [proc EXCEPT ![p] = st]
  BY DEF Moves
<1> USE DEF LosesMore
<1>1. db \in 0 .. changes /\ changes \in 0 .. MaxChanges /\ db \in Nat
  BY BoundsAssumption DEF IInv, TypeOK
<1>2. /\ proc' \in [Procs -> ProcType] /\ \A q \in Procs : proc'[q].got <= db'
      /\ Marks' /\ Unlocked'
  <2>1. db' \in Nat /\ db <= db' /\ UNCHANGED listed
    BY <1>1
  <2> QED BY <1>1, <2>1, StateFits
<1>3. Counts' /\ Swept' /\ GoneListed' /\ Ids' = Ids /\ Holding' = Holding
  BY SameTable
<1>4. /\ tx' \in [Transactions -> TxType]
      /\ rows' \in Seq(RowType) /\ Len(rows') <= changes'
      /\ \A i, j \in Holding' : i = j
      /\ listed' \subseteq Ids'
  <2>1. TypeOK
    BY DEF IInv
  <2> QED BY <1>3, <2>1 DEF TypeOK
<1>5. TypeOK'
  <2>1. db' \in 0 .. changes' /\ changes' \in 0 .. MaxChanges /\ snapshot' \in 0 .. db'
    BY <1>1
  <2>2. watermark' \in {0} \cup listed' /\ proc' \in [Workers \cup Requests -> ProcType]
        /\ \A q \in Workers \cup Requests : proc'[q].got <= db'
    BY <1>2 DEF Procs
  <2> QED BY <1>4, <2>1, <2>2 DEF TypeOK
<1> QED BY <1>2, <1>3, <1>5 DEF IInv

\* What the actions have in common.
LEMMA FaultsBounded ==
  ASSUME IInv, Calm \/ Fault
  PROVE  faults' \in 0 .. MaxFaults
<1>1. faults \in 0 .. MaxFaults
  BY DEF IInv, TypeOK
<1> QED BY <1>1, BoundsAssumption DEF Calm, Fault

LEMMA LostGrows ==
  ASSUME IInv, UNCHANGED lost \/ \E way \in Ways : Lose(way)
  PROVE  LosesMore
<1>1. lost \subseteq Ways
  BY DEF IInv, TypeOK
<1> QED BY <1>1 DEF LosesMore, Lose

LEMMA RestMoves ==
  ASSUME IInv, NEW p \in Procs, Rest(p)
  PROVE  Moves(p)
<1>1. db \in Nat /\ MaxChanges \in Nat
  BY BoundsAssumption DEF IInv, TypeOK
<1>2. Fits(p, Resting)
  BY <1>1 DEF Fits, Resting, ProcType, Stages, RequestStages
<1> QED BY <1>2 DEF Rest, Moves

LEMMA WorkersAreNoRequests == \A p \in Workers : p \in Procs /\ p \notin Requests
  BY ProcsAssumption DEF Procs

LEMMA LoadedFits ==
  ASSUME NEW p \in Procs, NEW st, Fits(p, st), NEW pc \in Stages,
         p \in Requests => pc \in RequestStages,
         NEW got \in 0 .. MaxChanges, got <= db
  PROVE  Fits(p, [st EXCEPT !.pc = pc, !.got = got])
  BY DEF Fits, ProcType

LEMMA Loadable ==
  ASSUME IInv
  PROVE  db \in 0 .. MaxChanges /\ db <= db /\ 0 \in 0 .. MaxChanges /\ 0 <= db
<1>1. db \in 0 .. changes /\ changes \in 0 .. MaxChanges
  BY DEF IInv, TypeOK
<1> QED BY <1>1, BoundsAssumption

LEMMA GoMoves ==
  ASSUME IInv, NEW p \in Procs, NEW pc \in Stages, p \in Requests => pc \in RequestStages, Go(p, pc)
  PROVE  Moves(p)
<1>1. Fits(p, proc[p])
  BY EveryoneFits
<1>2. Fits(p, [proc[p] EXCEPT !.pc = pc])
  BY <1>1 DEF Fits, ProcType
<1>3. proc' = [proc EXCEPT ![p] = [proc[p] EXCEPT !.pc = pc]]
  BY DEF Go
<1> QED BY <1>2, <1>3 DEF Moves

LEMMA ContinueMoves ==
  ASSUME IInv, NEW p \in Procs, Continue(p)
  PROVE  Moves(p)
<1>1. "mark" \in Stages
  BY DEF Stages
<1>2. p \in Pollers => p \notin Requests
  BY WorkersAreNoRequests DEF Workers
<1> QED BY <1>1, <1>2, GoMoves, RestMoves DEF Continue

LEMMA LockedOutMoves ==
  ASSUME IInv, NEW p \in Procs, LockedOut(p)
  PROVE  Moves(p) /\ LosesMore
<1>1. "locked out" \in Ways
  BY DEF Ways
<1>2. UNCHANGED lost \/ Lose("locked out")
  BY DEF LockedOut
<1> QED BY <1>1, <1>2, LostGrows, ContinueMoves DEF LockedOut

LEMMA WrittenKeeps ==
  ASSUME IInv, NEW p \in Procs, Written(p)
  PROVE  snapshot' \in 0 .. db /\ LosesMore
<1>1. "overwritten" \in Ways
  BY DEF Ways
<1>2. UNCHANGED lost \/ Lose("overwritten")
  BY DEF Written
<1>3. Fits(p, proc[p])
  BY EveryoneFits
<1>4. proc[p].got \in 0 .. MaxChanges /\ proc[p].got <= db
  BY <1>3 DEF Fits, ProcType
<1>5. db \in Nat
  BY BoundsAssumption DEF IInv, TypeOK
<1>6. snapshot' \in 0 .. db
  BY <1>4, <1>5, BoundsAssumption DEF Written
<1> QED BY <1>1, <1>2, <1>6, LostGrows

LEMMA Unmoved ==
  ASSUME IInv
  PROVE  snapshot \in 0 .. db /\ lock \in Workers \cup {Free} /\ watermark \in {0} \cup listed
  BY DEF IInv, TypeOK

(***************************************************************************)
(* The rebuild.                                                            *)
(***************************************************************************)
LEMMA StartRebuildKeeps ==
  ASSUME IInv, NEW p \in Workers, StartRebuild(p)
  PROVE  IInv'
<1> USE DEF StartRebuild, txSide
<1>1. "lock" \in Stages /\ p \in Procs /\ p \notin Requests
  BY WorkersAreNoRequests DEF Stages
<1>2. Moves(p)
  BY <1>1, GoMoves
<1> QED BY <1>1, <1>2, WorkerStep, FaultsBounded, LostGrows, Unmoved

LEMMA LockIsForWorkers ==
  ASSUME IInv, NEW p \in Procs, proc[p].pc \notin RequestStages
  PROVE  p \in Workers /\ p \notin Requests
  BY EveryoneFits DEF Fits, Procs

LEMMA TryLockBucketKeeps ==
  ASSUME IInv, NEW p \in Procs, TryLockBucket(p)
  PROVE  IInv'
<1> USE DEF TryLockBucket, txSide
<1>1. "load" \in Stages /\ p \in Workers /\ p \notin Requests
  BY LockIsForWorkers DEF Stages, RequestStages, At
<1>2. Moves(p) /\ LosesMore
  BY <1>1, GoMoves, LockedOutMoves, LostGrows
<1>3. lock' \in Workers \cup {Free}
  BY <1>1, Unmoved
<1> QED BY <1>1, <1>2, <1>3, WorkerStep, FaultsBounded, Unmoved

LEMMA LoadAccountsFromDBKeeps ==
  ASSUME IInv, NEW p \in Procs, LoadAccountsFromDB(p)
  PROVE  IInv'
<1> DEFINE st == [proc[p] EXCEPT !.pc = "write", !.got = db]
<1>1. "write" \in Stages /\ "write" \in RequestStages
  BY DEF Stages, RequestStages
<1>2. Fits(p, st)
  BY <1>1, EveryoneFits, LoadedFits, Loadable
<1>3. proc' = [proc EXCEPT ![p] = st]
  BY DEF LoadAccountsFromDB
<1>4. Moves(p)
  BY <1>2, <1>3 DEF Moves
<1> QED BY <1>4, WorkerStep, FaultsBounded, LostGrows, Unmoved DEF LoadAccountsFromDB, txSide

LEMMA SetSnapshotKeeps ==
  ASSUME IInv, NEW p \in Procs, SetSnapshot(p)
  PROVE  IInv'
<1>1. Moves(p)
  <2>1. CASE p \in Requests
    BY <2>1, RestMoves DEF SetSnapshot
  <2>2. CASE p \notin Requests
    <3> DEFINE st == [proc[p] EXCEPT !.pc = "unlock", !.got = 0]
    <3>1. "unlock" \in Stages
      BY DEF Stages
    <3>2. Fits(p, st)
      BY <2>2, <3>1, EveryoneFits, LoadedFits, Loadable
    <3>3. proc' = [proc EXCEPT ![p] = st]
      BY <2>2 DEF SetSnapshot
    <3> QED BY <3>2, <3>3 DEF Moves
  <2> QED BY <2>1, <2>2
<1>2. snapshot' \in 0 .. db /\ LosesMore
  BY WrittenKeeps DEF SetSnapshot
<1> QED BY <1>1, <1>2, WorkerStep, FaultsBounded, Unmoved DEF SetSnapshot, txSide

LEMMA UnlockBucketKeeps ==
  ASSUME IInv, NEW p \in Procs, UnlockBucket(p)
  PROVE  IInv'
<1> USE DEF UnlockBucket, txSide
<1>1. Moves(p)
  BY ContinueMoves
<1>2. lock' \in Workers \cup {Free}
  BY Unmoved
<1> QED BY <1>1, <1>2, WorkerStep, FaultsBounded, LostGrows, Unmoved

LEMMA RebuildFailsKeeps ==
  ASSUME IInv, NEW p \in Procs, RebuildFails(p)
  PROVE  IInv'
<1> USE DEF RebuildFails, txSide
<1>1. Moves(p)
  BY RestMoves
<1>2. lock' \in Workers \cup {Free}
  BY Unmoved DEF LockAfterFailure, Procs
<1>3. snapshot' \in 0 .. db /\ LosesMore
  BY WrittenKeeps, LostGrows, Unmoved
<1> QED BY <1>1, <1>2, <1>3, WorkerStep, FaultsBounded, Unmoved

LEMMA LockExpiresKeeps ==
  ASSUME IInv, LockExpires
  PROVE  IInv'
<1> USE DEF LockExpires, txSide
<1>1. lock \in Procs
  BY Unmoved DEF Procs
<1>2. proc \in [Procs -> ProcType]
  BY DEF IInv, TypeOK, Procs
<1>3. Moves(lock)
  BY <1>1, <1>2, EveryoneFits DEF Moves
<1>4. lock' \in Workers \cup {Free}
  BY DEF LockAfterTTL
<1> QED BY <1>1, <1>3, <1>4, WorkerStep, FaultsBounded, LostGrows, Unmoved

(***************************************************************************)
(* The poll.                                                               *)
(***************************************************************************)
LEMMA GetOutboxWatermarkKeeps ==
  ASSUME IInv, NEW p \in Workers, GetOutboxWatermark(p)
  PROVE  IInv'
<1> USE DEF GetOutboxWatermark, txSide
<1> DEFINE st == [proc[p] EXCEPT !.pc = "list", !.since = watermark]
<1>1. p \in Procs /\ p \notin Requests /\ Fits(p, proc[p])
  BY EveryoneFits, WorkersAreNoRequests
<1>2. watermark \in 0 .. MaxChanges
  <2>1. TypeOK
    BY DEF IInv
  <2>2. Len(rows) \in Nat /\ Ids = 1 .. Len(rows) /\ listed \subseteq Ids
    BY <2>1, RowsType
  <2>3. Len(rows) <= changes /\ changes \in 0 .. MaxChanges
    BY <2>1 DEF TypeOK
  <2> QED BY <2>2, <2>3, Unmoved, BoundsAssumption
<1>3. Fits(p, st)
  BY <1>1, <1>2, Unmoved DEF Fits, ProcType, Stages
<1>4. proc' = [proc EXCEPT ![p] = st]
  OBVIOUS
<1>5. Moves(p)
  BY <1>3, <1>4 DEF Moves
<1> QED BY <1>1, <1>5, WorkerStep, FaultsBounded, LostGrows, Unmoved

LEMMA SetOutboxWatermarkKeeps ==
  ASSUME IInv, NEW p \in Workers, SetOutboxWatermark(p)
  PROVE  IInv'
<1> USE DEF SetOutboxWatermark, txSide
<1>1. p \in Procs /\ p \notin Requests /\ "clean" \in Stages /\ "lag" \in Stages
  BY WorkersAreNoRequests DEF Stages
<1>2. Moves(p)
  BY <1>1, GoMoves
<1>3. watermark' \in {0} \cup listed
  BY <1>1, EveryoneFits, Unmoved DEF Fits
<1> QED BY <1>1, <1>2, <1>3, WorkerStep, FaultsBounded, LostGrows, Unmoved

LEMMA CheckOutboxLagKeeps ==
  ASSUME IInv, NEW p \in Workers, CheckOutboxLag(p)
  PROVE  IInv'
<1> USE DEF CheckOutboxLag, txSide
<1>1. p \in Procs /\ p \notin Requests
  BY WorkersAreNoRequests
<1>2. Moves(p)
  <2>1. CASE Rest(p)
    BY <1>1, <2>1, RestMoves
  <2>2. CASE proc' = [proc EXCEPT ![p] = [Resting EXCEPT !.pc = "lock"]]
    <3>1. db \in Nat /\ MaxChanges \in Nat
      BY BoundsAssumption DEF IInv, TypeOK
    <3>2. Fits(p, [Resting EXCEPT !.pc = "lock"])
      BY <1>1, <3>1 DEF Fits, Resting, ProcType, Stages
    <3> QED BY <2>2, <3>2 DEF Moves
  <2> QED BY <2>1, <2>2
<1> QED BY <1>1, <1>2, WorkerStep, FaultsBounded, LostGrows, Unmoved

\* Rows that only lose their dedup key.
SameStates ==
  /\ rows' \in Seq(RowType) /\ Len(rows') = Len(rows)
  /\ \A id \in Ids : rows'[id].state = rows[id].state /\ (rows'[id].dedup => rows[id].dedup)

LEMMA ReleasedRows ==
  ASSUME IInv, NEW batch \in SUBSET Ids, rows' \in {rows, Released(batch)}
  PROVE  SameStates
<1>1. rows \in Seq(RowType) /\ Len(rows) \in Nat /\ Ids = 1 .. Len(rows)
  BY RowsType DEF IInv
<1>2. CASE rows' = rows
  BY <1>1, <1>2 DEF SameStates
<1>3. CASE rows' = Released(batch)
  <2>1. \A id \in Ids : rows[id] \in RowType
    BY <1>1
  <2>2. \A id \in Ids : [rows[id] EXCEPT !.dedup = FALSE] \in RowType
    BY <2>1 DEF RowType
  <2>3. rows' \in [1 .. Len(rows) -> RowType]
    BY <1>1, <1>3, <2>1, <2>2 DEF Released
  <2>4. rows' \in Seq(RowType) /\ Len(rows') = Len(rows)
    BY <1>1, <2>3, FunctionIsSequence
  <2>5. ASSUME NEW id \in Ids
        PROVE  rows'[id].state = rows[id].state /\ (rows'[id].dedup => rows[id].dedup)
    BY <1>3, <2>1 DEF Released, RowType
  <2> QED BY <2>4, <2>5 DEF SameStates
<1> QED BY <1>2, <1>3

LEMMA SameStatesKeep ==
  ASSUME IInv, SameStates, UNCHANGED <<db, tx, changes>>
  PROVE  /\ Counts' /\ Ids' = Ids /\ Open' = Open /\ Live' = Live /\ Void' = Void /\ Gone' = Gone
         /\ Holding' \subseteq Holding
         /\ rows' \in Seq(RowType) /\ Len(rows') <= changes'
<1> USE DEF SameStates
<1>1. Ids' = Ids
  BY DEF Ids
<1>2. Open' = Open /\ Live' = Live /\ Void' = Void /\ Gone' = Gone /\ Holding' \subseteq Holding
  BY <1>1 DEF Open, Live, Void, Gone, Holding
<1>3. Counts'
  BY DEF IInv, Counts, Uncommitted, Unwritten
<1>4. Len(rows') <= changes'
  BY DEF IInv, TypeOK
<1> QED BY <1>1, <1>2, <1>3, <1>4

LEMMA BatchRows == TypeOK => \A since : Batch(since) \subseteq Live /\ Batch(since) \subseteq Ids
  BY RowsType DEF Batch

LEMMA StatesOfRows ==
  ASSUME TypeOK, NEW id \in Ids
  PROVE  id \in Open \/ id \in Live \/ id \in Void \/ id \in Gone
<1>1. rows[id] \in RowType
  BY RowsType
<1>2. rows[id].state \in {"open", "live", "void", "gone"}
  BY <1>1 DEF RowType
<1> QED BY <1>2 DEF Open, Live, Void, Gone

NoneOpenBelow(last) == \A id \in Open : ~ (id < last)

\* The batch is returned: its rows are listed, and if no row below is open nothing else
\* up to its end is missing.
LEMMA ListedIsSwept ==
  ASSUME IInv, NEW since \in Nat, since \in {0} \cup listed, Batch(since) # {}, InOrder,
         NoneOpenBelow(LastOf(Batch(since))),
         NEW l \in listed \cup Batch(since), NEW id \in 1 .. Len(rows), id <= l
  PROVE  id \notin Open /\ (id \in Void \/ id \in Gone \/ id \in listed \cup Batch(since))
<1>1. /\ Ids = 1 .. Len(rows) /\ Len(rows) \in Nat /\ listed \subseteq Ids /\ Live \subseteq Ids
      /\ Open \subseteq Ids /\ rows \in Seq(RowType)
  BY RowsType DEF IInv
<1>2. CASE l \in listed
  BY <1>1, <1>2 DEF IInv, Swept
<1>3. CASE l \in Batch(since)
  <2>1. Batch(since) \in SUBSET (1 .. Len(rows)) /\ l \in Live
    BY <1>1, <1>3 DEF Batch
  <2>2. l <= LastOf(Batch(since)) /\ LastOf(Batch(since)) \in 1 .. Len(rows)
    BY <1>1, <1>3, <2>1, LastIsLast
  <2>3. id \notin Open
    <3>1. CASE id = l
      BY <2>1, <3>1 DEF Live, Open
    <3>2. CASE id # l
      BY <1>1, <2>1, <2>2, <3>2 DEF NoneOpenBelow
    <3> QED BY <3>1, <3>2
  <2>4. id \in Live \/ id \in Void \/ id \in Gone
    BY <1>1, <2>3, StatesOfRows DEF IInv
  <2>5. CASE id \in Live /\ since < id
    <3>1. TypeOK
      BY DEF IInv
    <3>2. since < id /\ id <= l /\ id \in Live
      BY <2>5
    <3>3. id \in Batch(since)
      BY <1>3, <3>1, <3>2, BatchIsPrefix
    <3> QED BY <2>3, <3>3
  <2>6. CASE id \in Live /\ ~ (since < id)
    <3>1. id <= since
      BY <1>1, <2>6
    <3>2. since # 0
      BY <1>1, <3>1
    <3>3. since \in listed
      BY <3>2
    <3> QED BY <1>1, <3>1, <3>3 DEF IInv, Swept
  <2> QED BY <2>3, <2>4, <2>5, <2>6
<1> QED BY <1>2, <1>3

LEMMA RestFits ==
  ASSUME IInv, NEW p \in Procs
  PROVE  Fits(p, Resting)
<1>1. 0 \in 0 .. MaxChanges /\ 0 <= db
  BY Loadable
<1> QED BY <1>1 DEF Fits, Resting, ProcType, Stages, RequestStages

\* A row that a poll returned extends what is listed.
LEMMA ListingKeepsFits ==
  ASSUME IInv, NEW p \in Workers, NEW last \in 0 .. MaxChanges, last \in listed',
         listed \subseteq listed', UNCHANGED db,
         proc' = [proc EXCEPT ![p] = [Resting EXCEPT !.pc = "lock", !.last = last]]
  PROVE  /\ proc' \in [Procs -> ProcType]
         /\ \A q \in Procs : proc'[q].got <= db'
         /\ Marks' /\ Unlocked'
<1> DEFINE st == [Resting EXCEPT !.pc = "lock", !.last = last]
<1>1. proc \in [Procs -> ProcType] /\ p \in Procs /\ p \notin Requests
  BY WorkersAreNoRequests DEF IInv, TypeOK, Procs
<1>2. st \in ProcType /\ st.got = 0 /\ st.last = last /\ st.since = 0
  BY Loadable DEF Resting, ProcType, Stages
<1>a. proc' = [proc EXCEPT ![p] = st]
  OBVIOUS
<1> HIDE DEF st
<1>3. proc' \in [Procs -> ProcType]
  BY <1>1, <1>2, <1>a
<1>4. \A q \in Procs : q # p => proc'[q] = proc[q] /\ Fits(q, proc[q])
  BY <1>1, <1>a, EveryoneFits
<1>5. proc'[p] = st
  BY <1>1, <1>a
<1>6. \A q \in Procs : proc'[q].got <= db'
  BY <1>2, <1>4, <1>5, Loadable DEF Fits
<1>7. Marks'
  BY <1>2, <1>4, <1>5 DEF Fits, Marks
<1>8. Unlocked'
  BY <1>1, <1>4 DEF Fits, Unlocked, Procs
<1> QED BY <1>3, <1>6, <1>7, <1>8

\* A poll returns the first rows above the watermark it read.
LEMMA ListKeeps ==
  ASSUME IInv, NEW p \in Workers, ListAfterAndReleaseDedup(p)
  PROVE  IInv'
<1> DEFINE since == proc[p].since
           batch == Batch(since)
<1>1. p \in Procs /\ Fits(p, proc[p]) /\ TypeOK
  BY WorkersAreNoRequests, EveryoneFits DEF IInv
<1>2. since \in Nat /\ since \in {0} \cup listed
  BY <1>1, BoundsAssumption DEF Fits, ProcType
<1>3. /\ batch \subseteq Ids /\ Ids = 1 .. Len(rows) /\ Len(rows) \in Nat /\ listed \subseteq Ids
      /\ rows \in Seq(RowType)
  BY <1>1, BatchRows, RowsType
<1>4. UNCHANGED <<db, tx, changes, snapshot, lock, watermark>>
  BY DEF ListAfterAndReleaseDedup
<1>5. CASE batch = {} /\ Calm /\ Rest(p) /\ UNCHANGED <<rows, listed, lost>>
  BY <1>1, <1>4, <1>5, RestMoves, WorkerStep, FaultsBounded, LostGrows, Unmoved
<1>6. CASE Fault /\ rows' \in {rows, Released(batch)} /\ Rest(p) /\ UNCHANGED <<listed, lost>>
  <2>1. SameStates
    BY <1>3, <1>6, ReleasedRows
  <2>2. /\ Counts' /\ Ids' = Ids /\ Open' = Open /\ Void' = Void /\ Gone' = Gone
        /\ Holding' \subseteq Holding /\ rows' \in Seq(RowType) /\ Len(rows') <= changes'
    BY <1>4, <2>1, SameStatesKeep
  <2>3. db \in Nat /\ db' \in Nat /\ db <= db'
    BY <1>1, <1>4, BoundsAssumption DEF TypeOK
  <2>4. /\ proc' \in [Procs -> ProcType] /\ \A q \in Procs : proc'[q].got <= db'
        /\ Marks' /\ Unlocked'
    BY <1>1, <1>6, <2>3, RestFits, StateFits DEF Rest
  <2>5. Swept' /\ GoneListed'
    BY <1>6, <2>2 DEF IInv, Swept, GoneListed, InOrder
  <2>6. faults' \in 0 .. MaxFaults
    BY <1>6, FaultsBounded
  <2>7. TypeOK'
    BY <1>1, <1>4, <1>6, <2>2, <2>4, <2>6 DEF TypeOK, Procs
  <2> QED BY <2>2, <2>4, <2>5, <2>7 DEF IInv
<1>7. CASE /\ batch # {} /\ Calm /\ rows' = Released(batch)
           /\ proc' = [proc EXCEPT ![p] = [Resting EXCEPT !.pc = "lock", !.last = LastOf(batch)]]
           /\ listed' = listed \cup batch
           /\ IF \E id \in Open : id < LastOf(batch) THEN Lose("passed over") ELSE UNCHANGED lost
  <2>1. SameStates
    BY <1>3, <1>7, ReleasedRows
  <2>2. /\ Counts' /\ Ids' = Ids /\ Open' = Open /\ Void' = Void /\ Gone' = Gone
        /\ Holding' \subseteq Holding /\ rows' \in Seq(RowType) /\ Len(rows') <= changes'
    BY <1>4, <2>1, SameStatesKeep
  <2>3. LastOf(batch) \in batch
    BY <1>3, <1>7, LastIsLast
  <2>4. LastOf(batch) \in 0 .. MaxChanges
    <3>1. Len(rows) <= changes /\ changes \in 0 .. MaxChanges
      BY <1>1 DEF TypeOK
    <3> QED BY <1>3, <2>3, <3>1, BoundsAssumption
  <2>5. /\ proc' \in [Procs -> ProcType] /\ \A q \in Procs : proc'[q].got <= db'
        /\ Marks' /\ Unlocked'
    BY <1>4, <1>7, <2>3, <2>4, ListingKeepsFits
  <2>6. LosesMore
    BY <1>7, LostGrows DEF Ways
  <2>7. ASSUME InOrder' PROVE InOrder /\ NoneOpenBelow(LastOf(batch))
    <3>1. InOrder
      BY <2>6, <2>7, OrderStays DEF LosesMore
    <3>2. ~ Lose("passed over")
      BY <2>7 DEF InOrder, Lose
    <3> QED BY <1>7, <3>1, <3>2 DEF NoneOpenBelow
  <2>8. Swept' /\ GoneListed'
    <3>1. SUFFICES ASSUME InOrder' PROVE Swept' /\ GoneListed'
      BY DEF Swept, GoneListed
    <3>2. InOrder /\ NoneOpenBelow(LastOf(batch))
      BY <3>1, <2>7
    <3>3. Gone \subseteq listed
      BY <3>2 DEF IInv, GoneListed
    <3>4. ASSUME NEW l \in listed \cup batch, NEW id \in 1 .. Len(rows), id <= l
          PROVE  id \notin Open /\ (id \in Void \/ id \in listed \cup batch)
      BY <1>2, <1>7, <3>2, <3>3, <3>4, ListedIsSwept
    <3>5. Swept'
      BY <1>3, <1>7, <2>2, <3>4 DEF Swept
    <3> QED BY <1>7, <2>2, <3>3, <3>5 DEF GoneListed
  <2>9. faults' \in 0 .. MaxFaults
    BY <1>7, FaultsBounded
  <2>10. TypeOK'
    <3>1. listed' \subseteq Ids' /\ watermark' \in {0} \cup listed'
      BY <1>1, <1>3, <1>4, <1>7, <2>2 DEF TypeOK
    <3>2. /\ proc' \in [Workers \cup Requests -> ProcType]
          /\ \A q \in Workers \cup Requests : proc'[q].got <= db'
      BY <2>5 DEF Procs
    <3>3. lost' \subseteq Ways /\ \A i, j \in Holding' : i = j
      BY <1>1, <2>2, <2>6 DEF TypeOK, LosesMore
    <3> QED BY <1>1, <1>4, <2>2, <2>9, <3>1, <3>2, <3>3 DEF TypeOK
  <2> QED BY <2>2, <2>5, <2>8, <2>10 DEF IInv
<1> QED BY <1>5, <1>6, <1>7 DEF ListAfterAndReleaseDedup

\* What lies below a listed row and counts is listed.
LEMMA BelowListed ==
  ASSUME IInv, InOrder, NEW last \in {0} \cup listed, NEW id \in Live, id <= last
  PROVE  id \in listed
<1>1. Ids = 1 .. Len(rows) /\ Len(rows) \in Nat /\ listed \subseteq Ids /\ Live \subseteq Ids
  BY RowsType DEF IInv
<1>2. last \in Nat
  BY <1>1
<1>3. last # 0
  BY <1>1, <1>2
<1> QED BY <1>1, <1>3, LiveIsNotVoid DEF IInv, Swept

\* A cleanup removes rows that the poll before it returned.
LEMMA CleanupKeeps ==
  ASSUME IInv, NEW p \in Workers, CleanupConsumedOutbox(p)
  PROVE  IInv'
<1> DEFINE gone == [state |-> "gone", dedup |-> FALSE]
<1>1. PICK old \in SUBSET Consumed(p) :
        rows' = [id \in Ids |-> IF id \in old THEN gone ELSE rows[id]]
  BY DEF CleanupConsumedOutbox
<1>2. /\ Go(p, "lag") /\ Calm
      /\ UNCHANGED <<db, tx, changes, snapshot, lock, watermark, listed, lost>>
  BY DEF CleanupConsumedOutbox
<1>3. /\ rows \in Seq(RowType) /\ Len(rows) \in Nat /\ Ids = 1 .. Len(rows) /\ TypeOK
      /\ Live \subseteq Ids
  BY RowsType DEF IInv
<1>4. old \subseteq Live
  BY DEF Consumed
<1>5. gone \in RowType /\ gone.state = "gone" /\ gone.dedup = FALSE
  BY DEF RowType
<1> HIDE DEF gone
<1>6. \A id \in Ids : rows[id] \in RowType
  BY <1>3
<1>7. rows' \in [1 .. Len(rows) -> RowType]
  BY <1>1, <1>3, <1>5, <1>6
<1>8. rows' \in Seq(RowType) /\ Len(rows') = Len(rows)
  BY <1>3, <1>7, FunctionIsSequence
<1>9. Ids' = Ids /\ \A id \in Ids : rows'[id] = IF id \in old THEN gone ELSE rows[id]
  BY <1>1, <1>8 DEF Ids
<1>10. /\ Open' \subseteq Open /\ Void \subseteq Void'
       /\ Gone' \subseteq Gone \cup old /\ Holding' \subseteq Holding
  <2>1. Open' \subseteq Open
    BY <1>5, <1>9 DEF Open
  <2>2. Void \subseteq Void'
    BY <1>4, <1>9 DEF Void, Live
  <2>3. Gone' \subseteq Gone \cup old
    BY <1>9 DEF Gone
  <2>4. Holding' \subseteq Holding
    BY <1>5, <1>9 DEF Holding
  <2> QED BY <2>1, <2>2, <2>3, <2>4
<1>11. Counts'
  BY <1>2, <1>8 DEF IInv, Counts, Uncommitted, Unwritten
<1>12. Moves(p) /\ p \in Procs
  <2>1. "lag" \in Stages /\ p \in Procs /\ p \notin Requests
    BY WorkersAreNoRequests DEF Stages
  <2> QED BY <1>2, <2>1, GoMoves
<1>13. /\ proc' \in [Procs -> ProcType] /\ \A q \in Procs : proc'[q].got <= db'
       /\ Marks' /\ Unlocked'
  <2>1. PICK st : Fits(p, st) /\ proc' = [proc EXCEPT ![p] = st]
    BY <1>12 DEF Moves
  <2>2. db \in Nat /\ db' \in Nat /\ db <= db' /\ UNCHANGED listed
    BY <1>2, <1>3, BoundsAssumption DEF TypeOK
  <2> QED BY <1>12, <2>1, <2>2, StateFits
<1>14. Swept'
  <2>1. SUFFICES ASSUME InOrder', NEW l \in listed, NEW id \in Ids, id <= l
                 PROVE  id \notin Open' /\ (id \in Void' \/ id \in listed)
    BY <1>2, <1>9 DEF Swept
  <2>2. InOrder
    BY <1>2, <2>1 DEF InOrder
  <2> QED BY <1>10, <2>1, <2>2 DEF IInv, Swept
<1>15. GoneListed'
  <2>1. SUFFICES ASSUME InOrder' PROVE Gone' \subseteq listed
    BY <1>2 DEF GoneListed
  <2>2. InOrder
    BY <1>2, <2>1 DEF InOrder
  <2>3. proc[p].last \in {0} \cup listed
    BY <1>12, EveryoneFits DEF Fits
  <2>4. old \subseteq listed
    BY <2>2, <2>3, BelowListed DEF Consumed
  <2>5. Gone \subseteq listed
    BY <2>2 DEF IInv, GoneListed
  <2> QED BY <1>10, <2>4, <2>5
<1>16. TypeOK'
  <2>1. faults' \in 0 .. MaxFaults
    BY <1>2, FaultsBounded
  <2>2. \A i, j \in Holding' : i = j
    BY <1>3, <1>10 DEF TypeOK
  <2>3. Len(rows') <= changes'
    BY <1>2, <1>3, <1>8 DEF TypeOK
  <2>4. /\ proc' \in [Workers \cup Requests -> ProcType]
        /\ \A q \in Workers \cup Requests : proc'[q].got <= db'
    BY <1>13 DEF Procs
  <2> QED BY <1>2, <1>3, <1>8, <1>9, <2>1, <2>2, <2>3, <2>4 DEF TypeOK
<1> QED BY <1>11, <1>13, <1>14, <1>15, <1>16 DEF IInv

(***************************************************************************)
(* Transactions.                                                           *)
(***************************************************************************)
In(pc, S) == IF pc \in S THEN 1 ELSE 0

\* Where the stages of a transaction count.
LEMMA Membership ==
  /\ In("idle", UncommittedStages) = 0 /\ In("idle", UnwrittenStages) = 0
  /\ In("changed", UncommittedStages) = 0 /\ In("changed", UnwrittenStages) = 1
  /\ In("changing", UncommittedStages) = 1 /\ In("changing", UnwrittenStages) = 1
  /\ In("announced", UncommittedStages) = 0 /\ In("announced", UnwrittenStages) = 0
  /\ In("uncommitted", UncommittedStages) = 1 /\ In("uncommitted", UnwrittenStages) = 0
  BY DEF In, UncommittedStages, UnwrittenStages

\* One session changes its place: the number of those in S changes accordingly.
OneMoves(T, S, f, g, t, old, new) ==
  /\ t \in T /\ IsFiniteSet(old)
  /\ \A u : u \in old <=> u \in T /\ f[u] \in S
  /\ \A u : u \in new <=> u \in T /\ g[u] \in S
  /\ \A u \in T : u # t => g[u] = f[u]

LEMMA CountOne ==
  ASSUME NEW T, NEW S, NEW f, NEW g, NEW t, NEW old, NEW new, OneMoves(T, S, f, g, t, old, new)
  PROVE  /\ IsFiniteSet(new) /\ Cardinality(new) \in Nat /\ Cardinality(old) \in Nat
         /\ Cardinality(new) = Cardinality(old) + In(g[t], S) - In(f[t], S)
<1> USE DEF OneMoves
<1>1. Cardinality(old) \in Nat
  BY FS_CardinalityType
<1>2. CASE g[t] \in S
  <2>1. new = old \cup {t}
    BY <1>2
  <2>2. /\ IsFiniteSet(new)
        /\ Cardinality(new) = IF t \in old THEN Cardinality(old) ELSE Cardinality(old) + 1
    BY <2>1, FiniteStep
  <2>3. In(g[t], S) = 1 /\ In(f[t], S) = IF t \in old THEN 1 ELSE 0
    BY <1>2 DEF In
  <2> QED BY <1>1, <2>2, <2>3
<1>3. CASE g[t] \notin S
  <2>1. new = old \ {t}
    BY <1>3
  <2>2. /\ IsFiniteSet(new)
        /\ Cardinality(new) = IF t \in old THEN Cardinality(old) - 1 ELSE Cardinality(old)
    BY <2>1, FiniteStep
  <2>3. In(g[t], S) = 0 /\ In(f[t], S) = IF t \in old THEN 1 ELSE 0
    BY <1>3 DEF In
  <2>4. Cardinality(new) \in Nat
    BY <2>2, FS_CardinalityType
  <2> QED BY <1>1, <2>2, <2>3, <2>4
<1> QED BY <1>2, <1>3

\* How a step of one session changes what is under way.
LEMMA TxCounted ==
  ASSUME IInv, NEW t \in Transactions, NEW pc \in TxStages, NEW row \in 0 .. MaxChanges,
         TxGo(t, pc, row)
  PROVE  /\ tx' \in [Transactions -> TxType]
         /\ IsFiniteSet(Uncommitted') /\ IsFiniteSet(Unwritten')
         /\ Cardinality(Uncommitted) \in Nat /\ Cardinality(Uncommitted') \in Nat
         /\ Cardinality(Unwritten) \in Nat /\ Cardinality(Unwritten') \in Nat
         /\ Cardinality(Uncommitted') =
              Cardinality(Uncommitted) + In(pc, UncommittedStages) - In(tx[t].pc, UncommittedStages)
         /\ Cardinality(Unwritten') =
              Cardinality(Unwritten) + In(pc, UnwrittenStages) - In(tx[t].pc, UnwrittenStages)
<1> DEFINE f == [u \in Transactions |-> tx[u].pc]
           g == [u \in Transactions |-> tx'[u].pc]
<1>1. tx \in [Transactions -> TxType] /\ IsFiniteSet(Uncommitted) /\ IsFiniteSet(Unwritten)
  BY DEF IInv, TypeOK, Counts
<1>2. /\ tx' \in [Transactions -> TxType] /\ tx'[t].pc = pc
      /\ \A u \in Transactions : u # t => tx'[u] = tx[u]
  BY <1>1 DEF TxGo, TxType
<1>3. /\ \A u : u \in Uncommitted <=> u \in Transactions /\ f[u] \in UncommittedStages
      /\ \A u : u \in Uncommitted' <=> u \in Transactions /\ g[u] \in UncommittedStages
      /\ \A u : u \in Unwritten <=> u \in Transactions /\ f[u] \in UnwrittenStages
      /\ \A u : u \in Unwritten' <=> u \in Transactions /\ g[u] \in UnwrittenStages
  BY DEF Uncommitted, Unwritten
<1>4. f[t] = tx[t].pc /\ g[t] = pc /\ \A u \in Transactions : u # t => g[u] = f[u]
  BY <1>2
<1> HIDE DEF f, g
<1>5. /\ IsFiniteSet(Uncommitted')
      /\ Cardinality(Uncommitted') \in Nat /\ Cardinality(Uncommitted) \in Nat
      /\ Cardinality(Uncommitted') =
           Cardinality(Uncommitted) + In(g[t], UncommittedStages) - In(f[t], UncommittedStages)
  <2>1. OneMoves(Transactions, UncommittedStages, f, g, t, Uncommitted, Uncommitted')
    BY <1>1, <1>3, <1>4 DEF OneMoves
  <2> QED BY <2>1, CountOne
<1>6. /\ IsFiniteSet(Unwritten') /\ Cardinality(Unwritten') \in Nat /\ Cardinality(Unwritten) \in Nat
      /\ Cardinality(Unwritten') =
           Cardinality(Unwritten) + In(g[t], UnwrittenStages) - In(f[t], UnwrittenStages)
  <2>1. OneMoves(Transactions, UnwrittenStages, f, g, t, Unwritten, Unwritten')
    BY <1>1, <1>3, <1>4 DEF OneMoves
  <2> QED BY <2>1, CountOne
<1> QED BY <1>2, <1>4, <1>5, <1>6

\* What a transaction may do to the rows: add open ones, close open ones, but not remove any.
RowsEvolve ==
  /\ rows' \in Seq(RowType) /\ Len(rows) <= Len(rows')
  /\ Open' \cap Ids \subseteq Open /\ Void \subseteq Void' /\ Gone' \subseteq Gone

\* Any step of a transaction that evolves the rows and keeps the counters keeps the rest.
LEMMA TableStep ==
  ASSUME IInv, UNCHANGED outboxSide, RowsEvolve, \A i, j \in Holding' : i = j,
         db <= db', db' \in 0 .. changes', changes' \in 0 .. MaxChanges, Len(rows') <= changes',
         tx' \in [Transactions -> TxType], Counts', faults' \in 0 .. MaxFaults, LosesMore
  PROVE  IInv'
<1> USE DEF outboxSide
<1>1. /\ TypeOK /\ Len(rows) \in Nat /\ Len(rows') \in Nat /\ Ids = 1 .. Len(rows)
      /\ Ids' = 1 .. Len(rows') /\ listed \subseteq Ids
  BY RowsType DEF IInv, RowsEvolve, Ids
<1>2. Ids \subseteq Ids'
  BY <1>1 DEF RowsEvolve
<1>3. \A l \in listed, id \in Ids' : id <= l => id \in Ids
  BY <1>1
<1>4. Swept'
  <2>1. SUFFICES ASSUME InOrder', NEW l \in listed, NEW id \in Ids', id <= l
                 PROVE  id \notin Open' /\ (id \in Void' \/ id \in listed)
    BY DEF Swept
  <2>2. InOrder /\ id \in Ids
    BY <1>3, <2>1, OrderStays DEF LosesMore
  <2> QED BY <2>1, <2>2 DEF IInv, Swept, RowsEvolve
<1>5. GoneListed'
  BY OrderStays DEF IInv, GoneListed, RowsEvolve, LosesMore
<1>6. Marks' /\ Unlocked'
  BY DEF IInv, Marks, Unlocked
<1>7. db \in Nat /\ db' \in Nat
  BY <1>1, BoundsAssumption DEF TypeOK
<1>8. snapshot' \in 0 .. db' /\ \A q \in Workers \cup Requests : proc'[q].got <= db'
  <2>1. snapshot \in 0 .. db
    BY <1>1 DEF TypeOK
  <2>2. \A q \in Procs : proc[q].got \in Nat /\ proc[q].got <= db
    BY EveryoneFits, BoundsAssumption DEF Fits, ProcType
  <2> QED BY <1>7, <2>1, <2>2 DEF Procs
<1>9. TypeOK'
  <2>1. /\ rows' \in Seq(RowType) /\ listed' \subseteq Ids' /\ lost' \subseteq Ways
        /\ lock' \in Workers \cup {Free} /\ watermark' \in {0} \cup listed'
        /\ proc' \in [Workers \cup Requests -> ProcType]
    BY <1>1, <1>2 DEF TypeOK, RowsEvolve, LosesMore
  <2> QED BY <1>8, <2>1 DEF TypeOK
<1> QED BY <1>4, <1>5, <1>6, <1>9 DEF IInv

\* The table stays as it is.
LEMMA SameRows ==
  ASSUME IInv, UNCHANGED rows
  PROVE  RowsEvolve /\ Len(rows') = Len(rows) /\ \A i, j \in Holding' : i = j
<1>1. TypeOK /\ Len(rows) \in Nat
  BY RowsType DEF IInv
<1>2. Ids' = Ids /\ Open' = Open /\ Void' = Void /\ Gone' = Gone /\ Holding' = Holding
  BY DEF Ids, Open, Void, Gone, Holding
<1> QED BY <1>1, <1>2 DEF TypeOK, RowsEvolve

\* An insert adds one open row at the end.
LEMMA RowAdded ==
  ASSUME IInv, NEW row \in RowType, row.state = "open", row.dedup => Holding = {},
         rows' = Append(rows, row)
  PROVE  RowsEvolve /\ Len(rows') = Len(rows) + 1 /\ \A i, j \in Holding' : i = j
<1>1. /\ rows \in Seq(RowType) /\ Len(rows) \in Nat /\ Ids = 1 .. Len(rows)
      /\ \A i, j \in Holding : i = j
  BY RowsType DEF IInv, TypeOK
<1> DEFINE new == Len(rows) + 1
<1>2. /\ rows' \in Seq(RowType) /\ Len(rows') = new /\ rows'[new] = row
      /\ \A id \in Ids : rows'[id] = rows[id]
  BY <1>1, AppendProperties
<1>3. Ids' = Ids \cup {new} /\ new \notin Ids
  BY <1>1, <1>2 DEF Ids
<1>4. Len(rows) <= new
  BY <1>1
<1> HIDE DEF new
<1>5. Open' \cap Ids \subseteq Open /\ Void \subseteq Void' /\ Gone' \subseteq Gone
  <2>1. Open' \cap Ids \subseteq Open
    BY <1>2 DEF Open
  <2>2. Void \subseteq Void'
    BY <1>2, <1>3 DEF Void
  <2>3. Gone' \subseteq Gone
    BY <1>2, <1>3 DEF Gone
  <2> QED BY <2>1, <2>2, <2>3
<1>6. \A i, j \in Holding' : i = j
  <2>1. Holding' = IF row.dedup THEN {new} ELSE Holding
    <3>1. Holding' = Holding \cup {id \in {new} : row.dedup}
      BY <1>2, <1>3 DEF Holding
    <3> QED BY <3>1
  <2> QED BY <1>1, <2>1
<1> QED BY <1>2, <1>4, <1>5, <1>6 DEF RowsEvolve, new

\* A commit or a rollback makes a row visible or takes it back.
LEMMA RowClosed ==
  ASSUME IInv, NEW id \in Open, NEW row \in RowType, row.state \in {"live", "void"},
         row.dedup => rows[id].dedup, rows' = [rows EXCEPT ![id] = row]
  PROVE  RowsEvolve /\ Len(rows') = Len(rows) /\ \A i, j \in Holding' : i = j
<1>1. /\ rows \in Seq(RowType) /\ Len(rows) \in Nat /\ Ids = 1 .. Len(rows) /\ Open \subseteq Ids
      /\ \A i, j \in Holding : i = j
  BY RowsType DEF IInv, TypeOK
<1>2. /\ rows' \in Seq(RowType) /\ Len(rows') = Len(rows)
      /\ \A i \in Ids : rows'[i] = IF i = id THEN row ELSE rows[i]
  BY <1>1, ExceptSeq
<1>3. Ids' = Ids /\ id \in Ids
  BY <1>1, <1>2 DEF Ids
<1>4. Open' \subseteq Open
  BY <1>2, <1>3 DEF Open
<1>5. Void \subseteq Void'
  BY <1>2, <1>3 DEF Void, Open
<1>6. Gone' \subseteq Gone
  BY <1>2, <1>3 DEF Gone
<1>7. Holding' \subseteq Holding
  BY <1>2, <1>3 DEF Holding
<1> QED BY <1>1, <1>2, <1>4, <1>5, <1>6, <1>7 DEF RowsEvolve

\* The counters as numbers.
LEMMA Bounded ==
  ASSUME IInv
  PROVE  /\ db \in Nat /\ changes \in Nat /\ MaxChanges \in Nat /\ Len(rows) \in Nat
         /\ db <= changes /\ changes <= MaxChanges /\ Len(rows) <= changes
         /\ db + Cardinality(Uncommitted) <= changes
         /\ Len(rows) + Cardinality(Unwritten) <= changes
<1>1. TypeOK /\ Counts /\ Len(rows) \in Nat
  BY RowsType DEF IInv
<1> QED BY <1>1, BoundsAssumption DEF TypeOK, Counts

\* A change begins, or is made: its row is still to be written.
LEMMA ChangeKeeps ==
  ASSUME IInv, NEW t \in Transactions, Change(t)
  PROVE  IInv'
<1>1. /\ changes < MaxChanges /\ changes' = changes + 1 /\ Calm
      /\ UNCHANGED rows /\ UNCHANGED lost /\ UNCHANGED outboxSide
  BY DEF Change
<1>2. tx[t].pc = "idle"
  BY DEF Change, TxAt
<1>3. PICK pc \in TxStages :
        /\ TxGo(t, pc, 0) /\ db' = db + 1 - In(pc, UncommittedStages) /\ In(pc, UnwrittenStages) = 1
        /\ In(pc, UncommittedStages) \in {0, 1}
  <2>1. "changed" \in TxStages /\ "changing" \in TxStages
    BY DEF TxStages
  <2>2. db \in Nat
    BY Bounded
  <2>3. CASE db' = db + 1 /\ TxGo(t, "changed", 0)
    BY <2>1, <2>2, <2>3, Membership
  <2>4. CASE UNCHANGED db /\ TxGo(t, "changing", 0)
    BY <2>1, <2>2, <2>4, Membership
  <2> QED BY <2>3, <2>4 DEF Change
<1>4. 0 \in 0 .. MaxChanges
  BY BoundsAssumption
<1>5. /\ tx' \in [Transactions -> TxType]
      /\ IsFiniteSet(Uncommitted') /\ IsFiniteSet(Unwritten')
      /\ Cardinality(Uncommitted) \in Nat /\ Cardinality(Unwritten) \in Nat
      /\ Cardinality(Uncommitted') = Cardinality(Uncommitted) + In(pc, UncommittedStages)
      /\ Cardinality(Unwritten') = Cardinality(Unwritten) + 1
  <2>1. In(tx[t].pc, UncommittedStages) = 0 /\ In(tx[t].pc, UnwrittenStages) = 0
    BY <1>2, Membership
  <2>2. In(pc, UncommittedStages) \in Int /\ In(pc, UnwrittenStages) = 1
    BY <1>3
  <2> QED BY <1>3, <1>4, <2>1, <2>2, TxCounted
<1>6. RowsEvolve /\ Len(rows') = Len(rows) /\ \A i, j \in Holding' : i = j
  BY <1>1, SameRows
<1>7. /\ db <= db' /\ db' \in 0 .. changes' /\ changes' \in 0 .. MaxChanges /\ Len(rows') <= changes'
      /\ db' + Cardinality(Uncommitted') <= changes'
      /\ Len(rows') + Cardinality(Unwritten') <= changes'
  <2>1. changes < MaxChanges /\ changes' = changes + 1
    BY <1>1
  <2>2. db' = db + 1 - In(pc, UncommittedStages) /\ In(pc, UncommittedStages) \in {0, 1}
    BY <1>3
  <2> QED BY <1>5, <1>6, <2>1, <2>2, Bounded
<1>8. Counts'
  BY <1>5, <1>7 DEF Counts
<1>9. faults' \in 0 .. MaxFaults /\ LosesMore
  BY <1>1, FaultsBounded, LostGrows
<1> QED BY <1>1, <1>5, <1>6, <1>7, <1>8, <1>9, TableStep

\* A row is inserted, or merged into the one that holds the dedup key.
LEMMA InsertKeeps ==
  ASSUME IInv, NEW t \in Transactions, NEW dedup \in BOOLEAN, Insert(t, dedup)
  PROVE  IInv'
<1>1. /\ UNCHANGED <<db, changes>> /\ Calm /\ UNCHANGED lost /\ UNCHANGED outboxSide
  BY DEF Insert
<1> DEFINE pc == Commits(t)
<1>2. /\ pc \in TxStages
      /\ In(pc, UncommittedStages) = In(tx[t].pc, UncommittedStages)
      /\ In(tx[t].pc, UncommittedStages) \in Int
      /\ In(pc, UnwrittenStages) = 0 /\ In(tx[t].pc, UnwrittenStages) = 1
  <2>1. "announced" \in TxStages /\ "uncommitted" \in TxStages
    BY DEF TxStages
  <2>2. CASE tx[t].pc = "changed"
    BY <2>1, <2>2, Membership DEF Commits, TxAt
  <2>3. CASE tx[t].pc = "changing"
    BY <2>1, <2>3, Membership DEF Commits, TxAt
  <2> QED BY <2>2, <2>3 DEF Insert
<1> HIDE DEF pc
<1>3. ASSUME NEW row \in 0 .. MaxChanges, TxGo(t, pc, row), RowsEvolve, Len(rows') \in Nat,
             Len(rows') <= Len(rows) + 1, \A i, j \in Holding' : i = j
      PROVE  IInv'
  <2>1. /\ tx' \in [Transactions -> TxType]
        /\ IsFiniteSet(Uncommitted') /\ IsFiniteSet(Unwritten')
        /\ Cardinality(Uncommitted) \in Nat /\ Cardinality(Unwritten) \in Nat
        /\ Cardinality(Uncommitted') = Cardinality(Uncommitted)
        /\ Cardinality(Unwritten') = Cardinality(Unwritten) - 1 /\ Cardinality(Unwritten') \in Nat
    BY <1>2, <1>3, TxCounted
  <2>2. /\ db <= db' /\ db' \in 0 .. changes' /\ changes' \in 0 .. MaxChanges /\ Len(rows') <= changes'
        /\ db' + Cardinality(Uncommitted') <= changes'
        /\ Len(rows') + Cardinality(Unwritten') <= changes'
    BY <1>1, <1>3, <2>1, Bounded
  <2>3. Counts'
    BY <2>1, <2>2 DEF Counts
  <2>4. faults' \in 0 .. MaxFaults /\ LosesMore
    BY <1>1, FaultsBounded, LostGrows
  <2> QED BY <1>1, <1>3, <2>1, <2>2, <2>3, <2>4, TableStep
<1>4. CASE /\ dedup => Holding = {}
           /\ rows' = Append(rows, [state |-> "open", dedup |-> dedup])
           /\ TxGo(t, pc, Len(rows) + 1)
  <2> DEFINE new == [state |-> "open", dedup |-> dedup]
  <2>1. new \in RowType /\ new.state = "open" /\ new.dedup = dedup /\ rows' = Append(rows, new)
    BY <1>4 DEF RowType
  <2> HIDE DEF new
  <2>2. RowsEvolve /\ Len(rows') = Len(rows) + 1 /\ \A i, j \in Holding' : i = j
    BY <1>4, <2>1, RowAdded
  <2>3. Len(rows) + 1 \in 0 .. MaxChanges
    <3>1. tx \in [Transactions -> TxType] /\ IsFiniteSet(Unwritten)
      BY DEF IInv, TypeOK, Counts
    <3>2. t \in Unwritten
      BY DEF Insert, Unwritten, UnwrittenStages
    <3>3. Cardinality(Unwritten) \in Nat /\ Cardinality(Unwritten) # 0
      BY <3>1, <3>2, FS_CardinalityType, FS_EmptySet
    <3> QED BY <3>3, Bounded
  <2>4. Len(rows') \in Nat /\ Len(rows') <= Len(rows) + 1
    BY <2>2, Bounded
  <2> QED BY <1>3, <1>4, <2>2, <2>3, <2>4
<1>5. CASE UNCHANGED rows /\ \E id \in Holding : TxGo(t, pc, id)
  <2>1. PICK id \in Holding : TxGo(t, pc, id)
    BY <1>5
  <2>2. RowsEvolve /\ Len(rows') = Len(rows) /\ \A i, j \in Holding' : i = j
    BY <1>5, SameRows
  <2>3. id \in 1 .. Len(rows)
    <3>1. Holding \subseteq Ids /\ Ids = 1 .. Len(rows)
      BY RowsType DEF IInv
    <3> QED BY <3>1
  <2>4. id \in 0 .. MaxChanges /\ Len(rows') \in Nat /\ Len(rows') <= Len(rows) + 1
    BY <2>2, <2>3, Bounded
  <2> QED BY <1>3, <2>1, <2>2, <2>4
<1> QED BY <1>4, <1>5 DEF Insert, pc

\* The end of a transaction: its change counts at most once, and it never writes again.
LEMMA EndKeeps ==
  ASSUME IInv, NEW t \in Transactions, TxGo(t, "idle", 0), RowsEvolve, Len(rows') = Len(rows),
         \A i, j \in Holding' : i = j, UNCHANGED changes, UNCHANGED outboxSide,
         db' = db \/ (db' = db + 1 /\ In(tx[t].pc, UncommittedStages) = 1),
         faults' \in 0 .. MaxFaults, LosesMore
  PROVE  IInv'
<1>1. "idle" \in TxStages /\ In("idle", UncommittedStages) = 0 /\ In("idle", UnwrittenStages) = 0
  BY Membership DEF TxStages
<1>2. In(tx[t].pc, UncommittedStages) \in {0, 1} /\ In(tx[t].pc, UnwrittenStages) \in {0, 1}
  BY DEF In
<1>3. 0 \in 0 .. MaxChanges
  BY BoundsAssumption
<1>4. /\ tx' \in [Transactions -> TxType]
      /\ IsFiniteSet(Uncommitted') /\ IsFiniteSet(Unwritten')
      /\ Cardinality(Uncommitted) \in Nat /\ Cardinality(Unwritten) \in Nat
      /\ Cardinality(Uncommitted') \in Nat /\ Cardinality(Unwritten') \in Nat
      /\ Cardinality(Uncommitted') = Cardinality(Uncommitted) - In(tx[t].pc, UncommittedStages)
      /\ Cardinality(Unwritten') = Cardinality(Unwritten) - In(tx[t].pc, UnwrittenStages)
  <2> DEFINE pc == "idle"
  <2>1. /\ pc \in TxStages /\ TxGo(t, pc, 0)
        /\ In(pc, UncommittedStages) = 0 /\ In(pc, UnwrittenStages) = 0
    BY <1>1
  <2> HIDE DEF pc
  <2> QED BY <1>2, <1>3, <2>1, TxCounted
<1>5. /\ db <= db' /\ db' \in 0 .. changes' /\ changes' \in 0 .. MaxChanges /\ Len(rows') <= changes'
      /\ db' + Cardinality(Uncommitted') <= changes'
      /\ Len(rows') + Cardinality(Unwritten') <= changes'
  BY <1>2, <1>4, Bounded
<1>6. Counts'
  BY <1>4, <1>5 DEF Counts
<1> QED BY <1>4, <1>5, <1>6, TableStep

\* A rollback voids the row of the transaction, if it has one.
LEMMA RollbackKeeps ==
  ASSUME IInv, NEW t \in Transactions, Rollback(t)
  PROVE  IInv'
<1>1. Fault /\ TxGo(t, "idle", 0) /\ UNCHANGED db /\ UNCHANGED changes /\ UNCHANGED outboxSide
  BY DEF Rollback
<1>2. RowsEvolve /\ Len(rows') = Len(rows) /\ \A i, j \in Holding' : i = j
  <2>1. CASE tx[t].row \in Open
    <3> DEFINE void == [state |-> "void", dedup |-> FALSE]
    <3>1. /\ void \in RowType /\ void.state \in {"live", "void"} /\ ~void.dedup
          /\ rows' = [rows EXCEPT ![tx[t].row] = void]
      BY <2>1 DEF RowType, Rollback
    <3> HIDE DEF void
    <3> QED BY <2>1, <3>1, RowClosed
  <2>2. CASE tx[t].row \notin Open
    BY <2>2, SameRows DEF Rollback
  <2> QED BY <2>1, <2>2
<1>3. faults' \in 0 .. MaxFaults
  BY <1>1, FaultsBounded
<1>4. LosesMore
  <2>1. "unannounced" \in Ways
    BY DEF Ways
  <2> QED BY <2>1, LostGrows DEF Rollback
<1> QED BY <1>1, <1>2, <1>3, <1>4, EndKeeps

\* A commit makes the row visible.
LEMMA CommitKeeps ==
  ASSUME IInv, NEW t \in Transactions, Commit(t)
  PROVE  IInv'
<1>1. Calm /\ TxGo(t, "idle", 0) /\ UNCHANGED changes /\ UNCHANGED outboxSide
  BY DEF Commit
<1>2. RowsEvolve /\ Len(rows') = Len(rows) /\ \A i, j \in Holding' : i = j
  <2>1. CASE tx[t].row \in Open
    <3> DEFINE row == [rows[tx[t].row] EXCEPT !.state = "live"]
    <3>1. rows[tx[t].row] \in RowType
      <4>1. rows \in Seq(RowType) /\ Len(rows) \in Nat /\ Open \subseteq 1 .. Len(rows)
        BY RowsType DEF IInv
      <4>2. \A id \in Open : rows[id] \in RowType
        BY <4>1
      <4> QED BY <2>1, <4>2
    <3>2. /\ row \in RowType /\ row.state \in {"live", "void"} /\ row.dedup = rows[tx[t].row].dedup
          /\ rows' = [rows EXCEPT ![tx[t].row] = row]
      BY <2>1, <3>1 DEF RowType, Commit
    <3> HIDE DEF row
    <3> QED BY <2>1, <3>2, RowClosed
  <2>2. CASE tx[t].row \notin Open
    BY <2>2, SameRows DEF Commit
  <2> QED BY <2>1, <2>2
<1>3. db' = db \/ (db' = db + 1 /\ In(tx[t].pc, UncommittedStages) = 1)
  <2>1. CASE tx[t].pc = "uncommitted"
    BY <2>1, Membership DEF Commit, TxAt
  <2>2. CASE tx[t].pc # "uncommitted"
    BY <2>2 DEF Commit, TxAt
  <2> QED BY <2>1, <2>2
<1>4. faults' \in 0 .. MaxFaults
  BY <1>1, FaultsBounded
<1>5. LosesMore
  <2>1. "swallowed" \in Ways
    BY DEF Ways
  <2> QED BY <2>1, LostGrows DEF Commit
<1> QED BY <1>1, <1>2, <1>3, <1>4, <1>5, EndKeeps

(***************************************************************************)
(* The theorems.                                                           *)
(***************************************************************************)
LEMMA StutterKeeps == IInv /\ UNCHANGED vars => IInv'
<1> SUFFICES ASSUME IInv, UNCHANGED vars PROVE IInv'
  OBVIOUS
<1>1. Ids' = Ids /\ Open' = Open /\ Void' = Void /\ Gone' = Gone /\ Holding' = Holding
  BY DEF vars, Ids, Open, Void, Gone, Holding
<1>2. TypeOK'
  BY <1>1 DEF vars, IInv, TypeOK
<1>3. Counts' /\ Unlocked' /\ Marks'
  BY DEF vars, IInv, Counts, Uncommitted, Unwritten, Unlocked, Marks
<1>4. Swept' /\ GoneListed'
  BY <1>1 DEF vars, IInv, Swept, GoneListed, InOrder
<1> QED BY <1>2, <1>3, <1>4 DEF IInv

LEMMA NextInv == IInv /\ [Next]_vars => IInv'
<1> SUFFICES ASSUME IInv, [Next]_vars PROVE IInv'
  OBVIOUS
<1>1. ASSUME NEW t \in Transactions, Change(t) PROVE IInv'
  BY <1>1, ChangeKeeps
<1>2. ASSUME NEW t \in Transactions, TxStep(t) PROVE IInv'
  <2>1. CASE Commit(t)
    BY <2>1, CommitKeeps
  <2>2. ASSUME NEW dedup \in BOOLEAN, Insert(t, dedup) PROVE IInv'
    BY <2>2, InsertKeeps
  <2> QED BY <1>2, <2>1, <2>2 DEF TxStep
<1>3. ASSUME NEW t \in Transactions, Rollback(t) PROVE IInv'
  BY <1>3, RollbackKeeps
<1>4. ASSUME NEW p \in Procs, Rebuild(p) PROVE IInv'
  <2>1. CASE TryLockBucket(p)
    BY <2>1, TryLockBucketKeeps
  <2>2. CASE LoadAccountsFromDB(p)
    BY <2>2, LoadAccountsFromDBKeeps
  <2>3. CASE SetSnapshot(p)
    BY <2>3, SetSnapshotKeeps
  <2>4. CASE UnlockBucket(p)
    BY <2>4, UnlockBucketKeeps
  <2> QED BY <1>4, <2>1, <2>2, <2>3, <2>4 DEF Rebuild
<1>5. ASSUME NEW p \in Procs, RebuildFails(p) PROVE IInv'
  BY <1>5, RebuildFailsKeeps
<1>6. ASSUME NEW p \in Workers, StartRebuild(p) PROVE IInv'
  BY <1>6, StartRebuildKeeps
<1>7. ASSUME NEW p \in Workers, Poll(p) PROVE IInv'
  <2>1. CASE GetOutboxWatermark(p)
    BY <2>1, GetOutboxWatermarkKeeps
  <2>2. CASE ListAfterAndReleaseDedup(p)
    BY <2>2, ListKeeps
  <2>3. CASE SetOutboxWatermark(p)
    BY <2>3, SetOutboxWatermarkKeeps
  <2>4. CASE CleanupConsumedOutbox(p)
    BY <2>4, CleanupKeeps
  <2>5. CASE CheckOutboxLag(p)
    BY <2>5, CheckOutboxLagKeeps
  <2> QED BY <1>7, <2>1, <2>2, <2>3, <2>4, <2>5 DEF Poll
<1>8. CASE LockExpires
  BY <1>8, LockExpiresKeeps
<1>9. CASE UNCHANGED vars
  BY <1>9, StutterKeeps
<1> QED BY <1>1, <1>2, <1>3, <1>4, <1>5, <1>6, <1>7, <1>8, <1>9 DEF Next, Procs

\* The inductive invariant: as long as no row was committed late, a row that a poll returned
\* has no open row below it and none that was not returned too.
THEOREM Invariance == Spec => []IInv
  BY InitInv, NextInv, PTL DEF Spec

\* The variables keep their shapes: one row at most holds the dedup key, nobody has loaded or
\* stored a change that is not committed, and the watermark is the id of a row that was returned.
THEOREM TypeCorrect == Spec => []TypeOK
  BY Invariance, InvImplies, PTL

\* However polls, cleanups and watermarks of several servers interleave and fail, no row is
\* removed or passed by the watermark that no poll returned, unless it was committed late.
THEOREM ConsumedRowsGo == Spec => []OnlyConsumedRowsGo
  BY Invariance, InvImplies, PTL

(***************************************************************************)
(* Nothing is forgotten.  A poller that loaded the accounts after it had   *)
(* listed its rows has what they announce.  When the load is not current   *)
(* any more as it is stored, the later change has a row above the batch,   *)
(* or no row yet; or somebody has already stored a later load.  The poller *)
(* can rely on that until it has moved the watermark and removed its rows  *)
(* (Knows).  A row that a late insert relies on still has its dedup key,   *)
(* so no poll has returned it, and it is above every mark (HoldersWait).   *)
(***************************************************************************)
\* A row that holds the dedup key is visible or will be, and no poll has returned it.
HoldersWait == \A id \in Holding : id \in Live \cup Open /\ id \notin listed

\* A row that is not visible yet belongs to one session.
OwnRow ==
  /\ \A t \in Transactions : tx[t].row \in {0} \cup Ids
  /\ \A t, u \in Transactions : t # u /\ tx[t].row \in Open => tx[u].row # tx[t].row

Settled(mark) == Current \/ Outstanding(mark)

Knows(st) ==
  /\ st.pc \in {"mark", "clean"} => st.last > 0
  /\ st.last > 0 =>
       /\ st.pc = "write" /\ snapshot <= st.got => st.got = db \/ Outstanding(st.last)
       /\ st.pc \in {"unlock", "mark", "clean"} => Settled(st.last)

Forget == lost = {} => Settled(watermark) /\ \A p \in Procs : Knows(proc[p])

FInv == IInv /\ HoldersWait /\ OwnRow /\ Forget

LEMMA InitForgets == Init => FInv
<1> SUFFICES ASSUME Init PROVE FInv
  OBVIOUS
<1>1. IInv
  BY InitInv
<1>2. Ids = {}
  BY DEF Init, Ids
<1>3. HoldersWait /\ OwnRow
  BY <1>2 DEF HoldersWait, OwnRow, Holding, Open, Init, NoTx
<1>4. Forget
  BY DEF Init, Forget, Settled, Current, Knows, Resting, Procs
<1> QED BY <1>1, <1>3, <1>4 DEF FInv

\* Nothing has been lost before if nothing has been lost now, and then the rows are in order.
LEMMA NothingLost ==
  ASSUME lost \subseteq lost', lost' = {}
  PROVE  lost = {} /\ InOrder
<1>1. lost = {}
  OBVIOUS
<1> QED BY <1>1, Zenon DEF InOrder

\* A row that no poll returned is above whatever polls returned.
LEMMA UnlistedIsAbove ==
  ASSUME IInv, InOrder, NEW mark \in {0} \cup listed, NEW id,
         id \in Open \/ (id \in Live /\ id \notin listed)
  PROVE  id > mark
<1>1. /\ Ids = 1 .. Len(rows) /\ Len(rows) \in Nat /\ listed \subseteq Ids
      /\ Live \subseteq Ids /\ Open \subseteq Ids
  BY RowsType DEF IInv
<1>2. id \in Nat /\ id > 0 /\ id \in Ids /\ mark \in Nat
  <2>1. id \in Ids
    BY <1>1
  <2>2. mark = 0 \/ mark \in Ids
    BY <1>1
  <2> QED BY <1>1, <2>1, <2>2
<1>3. CASE mark \in listed
  <2>1. ASSUME id <= mark PROVE FALSE
    BY <1>2, <1>3, <2>1, LiveIsNotVoid DEF IInv, Swept
  <2> QED BY <1>2, <2>1
<1> QED BY <1>2, <1>3

\* A session moves, and only it.
LEMMA TxMoved ==
  ASSUME IInv, NEW t \in Transactions, NEW pc, NEW row, TxGo(t, pc, row)
  PROVE  /\ tx'[t].pc = pc /\ tx'[t].row = row
         /\ \A u \in Transactions : u # t => tx'[u] = tx[u]
<1>1. tx \in [Transactions -> TxType]
  BY DEF IInv, TypeOK
<1> QED BY <1>1 DEF TxGo

\* What is outstanding, as a list; it depends on the sessions and the visible rows alone.
LEMMA OutstandingIs ==
  \A mark : Outstanding(mark) <=>
    \/ \E t \in Transactions : tx[t].pc = "changed" \/ (tx[t].pc = "announced" /\ tx[t].row \in Open)
    \/ \E id \in Live : id > mark
  BY DEF Outstanding, Unannounced, TxAt

(***************************************************************************)
(* Transactions: what was outstanding stays so, and a change that is made  *)
(* is outstanding, at whatever mark.                                       *)
(***************************************************************************)
StillOutstanding ==
  \A mark \in {0} \cup listed : Outstanding(mark) \/ db' # db => Outstanding(mark)'

LEMMA TxStepForgets ==
  ASSUME FInv, UNCHANGED outboxSide, lost \subseteq lost', lost' = {} => StillOutstanding
  PROVE  Forget'
<1> USE DEF outboxSide
<1>1. SUFFICES ASSUME lost' = {} PROVE Settled(watermark)' /\ \A p \in Procs : Knows(proc[p])'
  BY DEF Forget
<1>2. /\ IInv /\ Settled(watermark) /\ (\A p \in Procs : Knows(proc[p])) /\ StillOutstanding
  BY <1>1, NothingLost DEF FInv, Forget
<1>3. ASSUME NEW mark \in {0} \cup listed, Settled(mark) PROVE Settled(mark)'
  BY <1>2, <1>3 DEF Settled, Current, StillOutstanding
<1>4. Settled(watermark)'
  <2>1. watermark \in {0} \cup listed
    BY <1>2, Unmoved
  <2>2. Settled(watermark)'
    BY <1>2, <1>3, <2>1 DEF Settled, Current, StillOutstanding
  <2> QED BY <2>2
<1>5. ASSUME NEW p \in Procs PROVE Knows(proc[p])'
  <2>1. proc[p].last \in {0} \cup listed /\ Knows(proc[p]) /\ proc'[p] = proc[p]
    BY <1>2, EveryoneFits DEF Fits
  <2>2. CASE Outstanding(proc[p].last)'
    BY <2>1, <2>2 DEF Knows, Settled
  <2>3. CASE ~Outstanding(proc[p].last)' 
    <3>1. ~Outstanding(proc[p].last) /\ db' = db
      BY <1>2, <2>1, <2>3 DEF StillOutstanding
    <3> QED BY <2>1, <3>1 DEF Knows, Settled, Current
  <2> QED BY <2>2, <2>3
<1> QED BY <1>4, <1>5

\* Where all stay as they are and the change is none of theirs.
LEMMA NothingMore ==
  ASSUME UNCHANGED db, Live \subseteq Live',
         \A t \in Transactions : Unannounced(t) => Unannounced(t)'
  PROVE  StillOutstanding
  BY DEF StillOutstanding, Outstanding

LEMMA OneIsUnannounced ==
  ASSUME NEW t \in Transactions, Unannounced(t)'
  PROVE  StillOutstanding
  BY DEF StillOutstanding, Outstanding

LEMMA OneIsVisible ==
  ASSUME NEW id \in Live', \A mark \in {0} \cup listed : id > mark
  PROVE  StillOutstanding
  BY DEF StillOutstanding, Outstanding

LEMMA ChangeForgets ==
  ASSUME FInv, NEW t \in Transactions, Change(t)
  PROVE  FInv'
<1>1. IInv /\ UNCHANGED rows /\ UNCHANGED lost /\ UNCHANGED outboxSide /\ TxAt(t, "idle")
  BY DEF FInv, Change
<1>2. IInv'
  BY <1>1, ChangeKeeps
<1>3. Ids' = Ids /\ Open' = Open /\ Live' = Live /\ Holding' = Holding /\ listed' = listed
  BY <1>1 DEF Ids, Open, Live, Holding, outboxSide
<1>4. HoldersWait'
  BY <1>3 DEF FInv, HoldersWait
<1>5. ASSUME NEW pc, TxGo(t, pc, 0)
      PROVE  /\ tx'[t].pc = pc /\ tx'[t].row = 0
             /\ \A u \in Transactions : u # t => tx'[u] = tx[u]
  BY <1>1, <1>5, TxMoved
<1>6. OwnRow'
  <2>1. tx'[t].row = 0 /\ \A u \in Transactions : u # t => tx'[u] = tx[u]
    BY <1>5 DEF Change
  <2>2. 0 \notin Open
    <3>1. Open \subseteq 1 .. Len(rows) /\ Len(rows) \in Nat
      BY <1>1, RowsType DEF IInv
    <3> QED BY <3>1
  <2> QED BY <1>3, <2>1, <2>2 DEF FInv, OwnRow
<1>7. StillOutstanding
  <2>1. CASE TxGo(t, "changed", 0)
    <3>1. Unannounced(t)'
      BY <1>5, <2>1 DEF Unannounced, TxAt
    <3> QED BY <3>1, OneIsUnannounced
  <2>2. CASE UNCHANGED db /\ TxGo(t, "changing", 0)
    <3>1. ASSUME NEW u \in Transactions, Unannounced(u) PROVE Unannounced(u)'
      <4>1. u # t
        BY <1>1, <3>1 DEF Unannounced, TxAt
      <4> QED BY <1>3, <1>5, <2>2, <3>1, <4>1 DEF Unannounced, TxAt
    <3> QED BY <1>3, <2>2, <3>1, NothingMore
  <2> QED BY <2>1, <2>2 DEF Change
<1>8. Forget'
  BY <1>1, <1>7, TxStepForgets
<1> QED BY <1>2, <1>4, <1>6, <1>8 DEF FInv

\* The sets of rows after an insert.
LEMMA AddedSets ==
  ASSUME IInv, NEW row \in RowType, row.state = "open", rows' = Append(rows, row)
  PROVE  LET new == Len(rows) + 1 IN
         /\ new \notin Ids /\ new # 0 /\ Ids' = Ids \cup {new} /\ Live' = Live
         /\ Open' = Open \cup {new}
         /\ Holding' = IF row.dedup THEN Holding \cup {new} ELSE Holding
<1>1. /\ rows \in Seq(RowType) /\ Len(rows) \in Nat /\ Ids = 1 .. Len(rows)
      /\ Live \subseteq Ids /\ Open \subseteq Ids /\ Holding \subseteq Ids
  BY RowsType DEF IInv
<1> DEFINE new == Len(rows) + 1
<1>2. Len(rows') = new /\ rows'[new] = row /\ \A id \in Ids : rows'[id] = rows[id]
  BY <1>1, AppendProperties
<1>3. Ids' = Ids \cup {new} /\ new \notin Ids /\ new # 0
  BY <1>1, <1>2 DEF Ids
<1> HIDE DEF new
<1>4. Live' = Live
  BY <1>2, <1>3 DEF Live
<1>5. Open' = Open \cup {new}
  BY <1>2, <1>3 DEF Open
<1>6. Holding' = IF row.dedup THEN Holding \cup {new} ELSE Holding
  <2>1. Holding' = Holding \cup {id \in {new} : row.dedup}
    BY <1>2, <1>3 DEF Holding
  <2> QED BY <2>1
<1> QED BY <1>3, <1>4, <1>5, <1>6 DEF new

\* The change of the session has a row, its own or the visible one that holds its key.
LEMMA InsertForgets ==
  ASSUME FInv, NEW t \in Transactions, NEW dedup \in BOOLEAN, Insert(t, dedup)
  PROVE  FInv'
<1>1. /\ IInv /\ HoldersWait /\ OwnRow /\ UNCHANGED db /\ UNCHANGED lost /\ UNCHANGED outboxSide
      /\ listed' = listed /\ listed \subseteq Ids
  BY RowsType DEF FInv, IInv, Insert, outboxSide
<1>2. IInv'
  BY <1>1, InsertKeeps
<1>3. Live \subseteq Ids /\ Open \subseteq Ids /\ Holding \subseteq Ids /\ 0 \notin Ids
  BY <1>1, RowsType DEF IInv
<1>4. tx[t].pc = "changed" => Commits(t) = "announced"
  BY DEF Commits, TxAt
<1>5. tx[t].pc \in {"changed", "changing"}
  BY DEF Insert
<1>6. CASE /\ dedup => Holding = {}
           /\ rows' = Append(rows, [state |-> "open", dedup |-> dedup])
           /\ TxGo(t, Commits(t), Len(rows) + 1)
  <2> DEFINE new == Len(rows) + 1
             row == [state |-> "open", dedup |-> dedup]
  <2>1. row \in RowType /\ row.state = "open" /\ row.dedup = dedup /\ rows' = Append(rows, row)
    BY <1>6 DEF RowType
  <2> HIDE DEF row
  <2>2. /\ new \notin Ids /\ new # 0 /\ Ids' = Ids \cup {new} /\ Live' = Live
        /\ Open' = Open \cup {new}
        /\ Holding' = IF dedup THEN Holding \cup {new} ELSE Holding
    BY <1>1, <2>1, AddedSets
  <2>3. /\ tx'[t].pc = Commits(t) /\ tx'[t].row = new
        /\ \A u \in Transactions : u # t => tx'[u] = tx[u]
    BY <1>1, <1>6, TxMoved
  <2> HIDE DEF new
  <2>4. HoldersWait'
    BY <1>1, <2>2 DEF HoldersWait
  <2>5. OwnRow'
    BY <1>1, <1>3, <2>2, <2>3 DEF OwnRow
  <2>6. StillOutstanding
    <3>1. CASE tx[t].pc = "changed"
      <4>1. Unannounced(t)'
        BY <1>4, <2>2, <2>3, <3>1 DEF Unannounced, TxAt
      <4> QED BY <4>1, OneIsUnannounced
    <3>2. CASE tx[t].pc = "changing"
      <4>1. ASSUME NEW u \in Transactions, Unannounced(u) PROVE Unannounced(u)'
        <5>1. u # t
          BY <3>2, <4>1 DEF Unannounced, TxAt
        <5> QED BY <2>2, <2>3, <4>1, <5>1 DEF Unannounced, TxAt
      <4> QED BY <1>1, <2>2, <4>1, NothingMore
    <3> QED BY <1>5, <3>1, <3>2
  <2>7. Forget'
    BY <1>1, <2>6, TxStepForgets
  <2> QED BY <1>2, <2>4, <2>5, <2>7 DEF FInv
<1>7. CASE UNCHANGED rows /\ dedup /\ \E id \in Holding : TxGo(t, Commits(t), id)
  <2>1. PICK id \in Holding : TxGo(t, Commits(t), id)
    BY <1>7
  <2>2. /\ tx'[t].pc = Commits(t) /\ tx'[t].row = id
        /\ \A u \in Transactions : u # t => tx'[u] = tx[u]
    BY <1>1, <2>1, TxMoved
  <2>3. Ids' = Ids /\ Open' = Open /\ Live' = Live /\ Holding' = Holding
    BY <1>7 DEF Ids, Open, Live, Holding
  <2>4. id \notin Open
    BY <1>7 DEF Insert
  <2>5. id \in Live /\ id \notin listed
    BY <1>1, <2>4 DEF HoldersWait
  <2>6. HoldersWait'
    BY <1>1, <2>3 DEF HoldersWait
  <2>7. OwnRow'
    BY <1>1, <1>3, <2>2, <2>3, <2>4 DEF OwnRow
  <2>8. ASSUME lost' = {} PROVE StillOutstanding
    <3>1. InOrder
      BY <1>1, <2>8, NothingLost
    <3>2. \A mark \in {0} \cup listed : id > mark
      BY <1>1, <2>5, <3>1, UnlistedIsAbove
    <3> QED BY <2>3, <2>5, <3>2, OneIsVisible
  <2>9. Forget'
    BY <1>1, <2>8, TxStepForgets
  <2> QED BY <1>2, <2>6, <2>7, <2>9 DEF FInv
<1> QED BY <1>6, <1>7 DEF Insert

\* The sets of rows after the end of a transaction with a row of its own.
LEMMA ClosedSets ==
  ASSUME IInv, NEW id \in Open, NEW row \in RowType, row.state \in {"live", "void"},
         row.dedup => rows[id].dedup /\ row.state = "live", rows' = [rows EXCEPT ![id] = row]
  PROVE  /\ Ids' = Ids /\ Open' = Open \ {id}
         /\ Live' = IF row.state = "live" THEN Live \cup {id} ELSE Live
         /\ Holding' \subseteq Holding
         /\ row.state = "void" => id \notin Holding'
<1>1. /\ rows \in Seq(RowType) /\ Len(rows) \in Nat /\ Ids = 1 .. Len(rows)
      /\ Live \subseteq Ids /\ Open \subseteq Ids
  BY RowsType DEF IInv
<1>2. Len(rows') = Len(rows) /\ \A i \in Ids : rows'[i] = IF i = id THEN row ELSE rows[i]
  BY <1>1, ExceptSeq
<1>3. Ids' = Ids /\ id \in Ids
  BY <1>1, <1>2 DEF Ids
<1>4. Open' = Open \ {id}
  BY <1>2, <1>3 DEF Open
<1>5. Live' = IF row.state = "live" THEN Live \cup {id} ELSE Live
  <2>1. id \notin Live
    BY DEF Open, Live
  <2> QED BY <1>2, <1>3, <2>1 DEF Live
<1>6. Holding' \subseteq Holding /\ (row.state = "void" => id \notin Holding')
  BY <1>2, <1>3 DEF Holding
<1> QED BY <1>3, <1>4, <1>5, <1>6

LEMMA OpenRowType ==
  ASSUME IInv, NEW id \in Open
  PROVE  rows[id] \in RowType
<1>1. rows \in Seq(RowType) /\ Len(rows) \in Nat /\ Open \subseteq 1 .. Len(rows)
  BY RowsType DEF IInv
<1> QED BY <1>1

\* The session is idle afterwards, and no other relied on its row.
LEMMA EndKeepsOwnRow ==
  ASSUME IInv, OwnRow, NEW t \in Transactions, TxGo(t, "idle", 0), Ids' = Ids, Open' \subseteq Open
  PROVE  OwnRow'
<1>1. /\ tx'[t].row = 0 /\ \A u \in Transactions : u # t => tx'[u] = tx[u]
  <2> DEFINE pc == "idle"
  <2>1. TxGo(t, pc, 0)
    OBVIOUS
  <2> HIDE DEF pc
  <2> QED BY <2>1, TxMoved
<1>2. 0 \notin Open
  <2>1. Open \subseteq 1 .. Len(rows) /\ Len(rows) \in Nat
    BY RowsType DEF IInv
  <2> QED BY <2>1
<1> QED BY <1>1, <1>2 DEF OwnRow

\* The others announce what they announced, as long as their rows stay open.
LEMMA OthersStay ==
  ASSUME IInv, NEW t \in Transactions, TxGo(t, "idle", 0), ~Unannounced(t),
         NEW u \in Transactions, Unannounced(u),
         u # t /\ tx[u].pc = "announced" /\ tx[u].row \in Open => tx[u].row \in Open'
  PROVE  Unannounced(u)'
<1>1. u # t
  OBVIOUS
<1>2. tx'[u] = tx[u]
  <2> DEFINE pc == "idle"
  <2>1. TxGo(t, pc, 0)
    OBVIOUS
  <2> HIDE DEF pc
  <2> QED BY <1>1, <2>1, TxMoved
<1> QED BY <1>1, <1>2 DEF Unannounced, TxAt

\* A rollback that loses nothing takes back a row that nobody else relied on.
LEMMA RollbackForgets ==
  ASSUME FInv, NEW t \in Transactions, Rollback(t)
  PROVE  FInv'
<1>1. /\ IInv /\ HoldersWait /\ OwnRow /\ UNCHANGED db /\ UNCHANGED outboxSide
      /\ TxGo(t, "idle", 0) /\ listed' = listed
      /\ IF Unannounced(t) THEN Lose("unannounced") ELSE UNCHANGED lost
  BY DEF FInv, Rollback, outboxSide
<1>2. IInv' /\ LosesMore
  <2>1. IInv'
    BY <1>1, RollbackKeeps
  <2>2. "unannounced" \in Ways
    BY DEF Ways
  <2> QED BY <1>1, <2>1, <2>2, LostGrows
<1>3. /\ Ids' = Ids /\ Open' = Open \ {tx[t].row} /\ Live' = Live /\ Holding' \subseteq Holding
      /\ tx[t].row \in Open => tx[t].row \notin Holding'
  <2>1. CASE tx[t].row \in Open
    <3> DEFINE void == [state |-> "void", dedup |-> FALSE]
    <3>1. /\ void \in RowType /\ void.state = "void" /\ ~void.dedup
          /\ rows' = [rows EXCEPT ![tx[t].row] = void]
      BY <2>1 DEF RowType, Rollback
    <3> HIDE DEF void
    <3>2. void.state \in {"live", "void"} /\ void.state # "live"
      BY <3>1
    <3> QED BY <1>1, <2>1, <3>1, <3>2, ClosedSets
  <2>2. CASE tx[t].row \notin Open
    <3>1. UNCHANGED rows
      BY <2>2 DEF Rollback
    <3> QED BY <2>2, <3>1 DEF Ids, Open, Live, Holding
  <2> QED BY <2>1, <2>2
<1>4. HoldersWait'
  BY <1>1, <1>3 DEF HoldersWait
<1>5. OwnRow'
  BY <1>1, <1>3, EndKeepsOwnRow
<1>6. ASSUME lost' = {} PROVE StillOutstanding
  <2>1. ~Unannounced(t)
    BY <1>1, <1>6 DEF Lose
  <2>2. ASSUME NEW u \in Transactions, Unannounced(u) PROVE Unannounced(u)'
    <3>1. u # t /\ tx[u].pc = "announced" /\ tx[u].row \in Open => tx[u].row \in Open'
      BY <1>1, <1>3 DEF OwnRow
    <3> QED BY <1>1, <2>1, <2>2, <3>1, OthersStay
  <2> QED BY <1>1, <1>3, <2>2, NothingMore
<1>7. Forget'
  BY <1>1, <1>2, <1>6, TxStepForgets DEF LosesMore
<1> QED BY <1>2, <1>4, <1>5, <1>7 DEF FInv

\* A commit that loses nothing makes a row visible, or relies on one that no poll has returned.
LEMMA CommitForgets ==
  ASSUME FInv, NEW t \in Transactions, Commit(t)
  PROVE  FInv'
<1>1. /\ IInv /\ HoldersWait /\ OwnRow /\ UNCHANGED outboxSide
      /\ TxGo(t, "idle", 0) /\ listed' = listed
      /\ IF Swallowed(t) THEN Lose("swallowed") ELSE UNCHANGED lost
      /\ tx[t].pc \in {"announced", "uncommitted"}
  BY DEF FInv, Commit, outboxSide
<1>2. IInv' /\ LosesMore
  <2>1. IInv'
    BY <1>1, CommitKeeps
  <2>2. "swallowed" \in Ways
    BY DEF Ways
  <2> QED BY <1>1, <2>1, <2>2, LostGrows
<1>3. CASE tx[t].row \in Open
  <2> DEFINE id == tx[t].row
             row == [rows[id] EXCEPT !.state = "live"]
  <2>1. /\ row \in RowType /\ row.state = "live" /\ row.dedup = rows[id].dedup
        /\ rows' = [rows EXCEPT ![id] = row]
    <3>1. rows[id] \in RowType
      BY <1>1, <1>3, OpenRowType
    <3> QED BY <1>3, <3>1 DEF RowType, Commit
  <2> HIDE DEF row
  <2>2. Ids' = Ids /\ Open' = Open \ {id} /\ Live' = Live \cup {id} /\ Holding' \subseteq Holding
    <3>1. row.state \in {"live", "void"}
      BY <2>1
    <3> QED BY <1>1, <1>3, <2>1, <3>1, ClosedSets
  <2>3. HoldersWait'
    BY <1>1, <2>2 DEF HoldersWait
  <2>4. OwnRow'
    BY <1>1, <2>2, EndKeepsOwnRow
  <2>5. ASSUME lost' = {} PROVE StillOutstanding
    <3>1. InOrder
      BY <1>2, <2>5, NothingLost DEF LosesMore
    <3>2. \A mark \in {0} \cup listed : id > mark
      BY <1>1, <1>3, <3>1, UnlistedIsAbove
    <3> QED BY <2>2, <3>2, OneIsVisible
  <2>6. Forget'
    BY <1>1, <1>2, <2>5, TxStepForgets DEF LosesMore
  <2> QED BY <1>2, <2>3, <2>4, <2>6 DEF FInv
<1>4. CASE tx[t].row \notin Open
  <2>1. UNCHANGED rows
    BY <1>4 DEF Commit
  <2>2. Ids' = Ids /\ Open' = Open /\ Live' = Live /\ Holding' = Holding
    BY <2>1 DEF Ids, Open, Live, Holding
  <2>3. HoldersWait'
    BY <1>1, <2>2 DEF HoldersWait
  <2>4. OwnRow'
    BY <1>1, <2>2, EndKeepsOwnRow
  <2>5. ASSUME lost' = {} PROVE StillOutstanding
    <3>1. InOrder /\ ~Swallowed(t)
      <4>1. InOrder
        BY <1>2, <2>5, NothingLost DEF LosesMore
      <4> QED BY <1>1, <2>5, <4>1 DEF Lose
    <3>2. CASE tx[t].pc = "announced"
      <4>1. ~Unannounced(t) /\ UNCHANGED db
        BY <1>4, <3>2 DEF Unannounced, TxAt, Commit
      <4>2. ASSUME NEW u \in Transactions, Unannounced(u) PROVE Unannounced(u)'
        BY <1>1, <2>2, <4>1, <4>2, OthersStay
      <4> QED BY <2>2, <4>1, <4>2, NothingMore
    <3>3. CASE tx[t].pc = "uncommitted"
      <4>1. tx[t].row \in Holding
        BY <1>4, <3>1, <3>3 DEF Swallowed, TxAt
      <4>2. tx[t].row \in Live /\ tx[t].row \notin listed
        BY <1>1, <1>4, <4>1 DEF HoldersWait
      <4>3. \A mark \in {0} \cup listed : tx[t].row > mark
        BY <1>1, <3>1, <4>2, UnlistedIsAbove
      <4> QED BY <2>2, <4>2, <4>3, OneIsVisible
    <3> QED BY <1>1, <3>2, <3>3
  <2>6. Forget'
    BY <1>1, <1>2, <2>5, TxStepForgets DEF LosesMore
  <2> QED BY <1>2, <2>3, <2>4, <2>6 DEF FInv
<1> QED BY <1>3, <1>4

(***************************************************************************)
(* Workers and requests: no visible row goes, except in a cleanup, and a   *)
(* snapshot only goes back when that counts as lost.                       *)
(***************************************************************************)
\* The states of rows and sessions stay as they are.
SameWork == UNCHANGED <<db, tx>> /\ Ids' = Ids /\ Live' = Live /\ Open' = Open

LEMMA SameOutstanding ==
  ASSUME SameWork
  PROVE  \A mark : Outstanding(mark)' <=> Outstanding(mark)
  BY DEF SameWork, Outstanding, Unannounced, TxAt

LEMMA SameTableIsSameWork ==
  ASSUME UNCHANGED <<db, tx, rows, listed>>
  PROVE  SameWork /\ Holding' = Holding
  BY DEF SameWork, Ids, Live, Open, Holding

NotBack == lost' = {} => snapshot' \in Nat /\ snapshot <= snapshot' /\ snapshot' <= db

LEMMA StillSettled ==
  ASSUME IInv, SameWork, NotBack, lost' = {}, NEW mark, Settled(mark)
  PROVE  Current' \/ Outstanding(mark)'
<1>1. Outstanding(mark)' <=> Outstanding(mark)
  BY SameOutstanding
<1>2. snapshot \in Nat /\ db \in Nat /\ db' = db /\ snapshot <= db
  BY Bounded, Unmoved DEF SameWork
<1>3. CASE Current
  <2>1. snapshot' = db
    BY <1>2, <1>3 DEF NotBack, Current
  <2> QED BY <1>2, <2>1 DEF Current
<1> QED BY <1>1, <1>3 DEF Settled

\* What the others know stays true.
LEMMA OthersKnow ==
  ASSUME IInv, SameWork, NotBack, lost' = {}, NEW st, st.got \in Nat, Knows(st)
  PROVE  Knows(st)'
<1>1. /\ snapshot \in Nat /\ snapshot' \in Nat /\ db' = db
      /\ snapshot <= snapshot'
  BY Bounded, Unmoved DEF SameWork, NotBack
<1>2. Outstanding(st.last)' <=> Outstanding(st.last)
  BY SameOutstanding
<1>3. ASSUME st.last > 0, st.pc = "write", snapshot' <= st.got
      PROVE  st.got = db' \/ Outstanding(st.last)'
  <2>1. snapshot <= st.got
    BY <1>1, <1>3
  <2> QED BY <1>1, <1>2, <1>3, <2>1 DEF Knows
<1>4. ASSUME st.last > 0, st.pc \in {"unlock", "mark", "clean"}
      PROVE  Settled(st.last)'
  <2>1. Settled(st.last)
    BY <1>4 DEF Knows
  <2>2. Current' \/ Outstanding(st.last)'
    BY <2>1, StillSettled
  <2> QED BY <2>2 DEF Settled
<1> QED BY <1>3, <1>4 DEF Knows

\* One of them moves to a place that it knows enough for.
LEMMA MoveForgets ==
  ASSUME FInv, IInv', NEW p \in Procs, NEW st, proc' = [proc EXCEPT ![p] = st],
         SameWork, HoldersWait', NotBack, lost \subseteq lost',
         lost' = {} => watermark' = watermark \/ Settled(watermark)',
         lost' = {} => Knows(st)'
  PROVE  FInv'
<1>1. IInv /\ OwnRow
  BY DEF FInv
<1>2. OwnRow'
  BY <1>1 DEF OwnRow, SameWork
<1>3. ASSUME lost' = {} PROVE Settled(watermark)' /\ \A q \in Procs : Knows(proc[q])'
  <2>1. Settled(watermark) /\ \A q \in Procs : Knows(proc[q])
    BY <1>3, NothingLost DEF FInv, Forget
  <2>2. Settled(watermark)'
    <3>1. CASE watermark' = watermark
      <4>1. Current' \/ Outstanding(watermark)'
        BY <1>1, <1>3, <2>1, <3>1, StillSettled
      <4> QED BY <4>1 DEF Settled
    <3> QED BY <1>3, <3>1
  <2>3. ASSUME NEW q \in Procs PROVE Knows(proc[q])'
    <3>1. proc \in [Procs -> ProcType]
      BY <1>1 DEF IInv, TypeOK, Procs
    <3>2. CASE q = p
      <4>1. proc'[q] = st
        BY <3>1, <3>2
      <4> QED BY <1>3, <4>1
    <3>3. CASE q # p
      <4>1. proc'[q] = proc[q] /\ proc[q].got \in Nat
        BY <3>1, <3>3, BoundsAssumption DEF ProcType
      <4>2. Knows(proc[q])
        BY <2>1
      <4> QED BY <1>1, <1>3, <4>1, <4>2, OthersKnow
    <3> QED BY <3>2, <3>3
  <2> QED BY <2>2, <2>3
<1>4. Forget'
  BY <1>3 DEF Forget
<1> QED BY <1>2, <1>4 DEF FInv

LEMMA SameSnapshot ==
  ASSUME IInv, UNCHANGED snapshot
  PROVE  NotBack
  BY Unmoved, Bounded DEF NotBack

LEMMA WrittenNotBack ==
  ASSUME IInv, NEW p \in Procs, Written(p)
  PROVE  NotBack
<1>1. proc[p].got \in Nat /\ proc[p].got <= db
  BY EveryoneFits, BoundsAssumption DEF Fits, ProcType
<1>2. snapshot \in Nat
  BY Unmoved, Bounded
<1>3. ASSUME lost' = {} PROVE ~ (proc[p].got < snapshot)
  BY <1>3 DEF Written, Lose
<1> QED BY <1>1, <1>2, <1>3 DEF Written, NotBack

\* The table is not touched.
LEMMA WorkerForgets ==
  ASSUME FInv, IInv', NEW p \in Procs, NEW st, proc' = [proc EXCEPT ![p] = st],
         UNCHANGED <<db, tx, rows, listed>>, NotBack, lost \subseteq lost',
         lost' = {} => watermark' = watermark \/ Settled(watermark)',
         lost' = {} => Knows(st)'
  PROVE  FInv'
<1>1. SameWork /\ Holding' = Holding
  BY SameTableIsSameWork
<1>2. HoldersWait'
  BY <1>1 DEF FInv, HoldersWait, SameWork
<1> QED BY <1>1, <1>2, MoveForgets

\* Where nothing has to be known.
LEMMA EarlyKnows ==
  ASSUME NEW st, st = Resting \/ st.pc \notin {"write", "unlock", "mark", "clean"}
  PROVE  Knows(st)'
<1>1. CASE st = Resting
  <2>1. st.last = 0 /\ st.pc = "idle"
    BY <1>1 DEF Resting
  <2> QED BY <2>1 DEF Knows
<1>2. CASE st.pc \notin {"write", "unlock", "mark", "clean"}
  BY <1>2 DEF Knows
<1> QED BY <1>1, <1>2

LEMMA GoIs ==
  ASSUME IInv, NEW p \in Procs, NEW pc, Go(p, pc)
  PROVE  \E st : /\ proc' = [proc EXCEPT ![p] = st]
                 /\ st.pc = pc /\ st.got = proc[p].got /\ st.last = proc[p].last
<1> DEFINE st == [proc[p] EXCEPT !.pc = pc]
<1>1. proc[p] \in ProcType
  BY EveryoneFits DEF Fits
<1>2. st.pc = pc /\ st.got = proc[p].got /\ st.last = proc[p].last
  BY <1>1 DEF ProcType
<1>3. proc' = [proc EXCEPT ![p] = st]
  BY DEF Go
<1> QED BY <1>2, <1>3

\* After the rebuild, with a batch: on to the watermark, otherwise to rest.
LEMMA ContinueIs ==
  ASSUME IInv, NEW p \in Procs, Continue(p)
  PROVE  \E st : /\ proc' = [proc EXCEPT ![p] = st]
                 /\ st = Resting \/ (st.pc = "mark" /\ st.last = proc[p].last /\ st.last > 0)
<1>1. CASE Rest(p)
  BY <1>1 DEF Rest
<1>2. CASE Go(p, "mark") /\ proc[p].last > 0
  <2> DEFINE pc == "mark"
  <2>1. Go(p, pc)
    BY <1>2
  <2> HIDE DEF pc
  <2>2. \E st : /\ proc' = [proc EXCEPT ![p] = st]
                /\ st.pc = pc /\ st.got = proc[p].got /\ st.last = proc[p].last
    BY <2>1, GoIs
  <2> QED BY <1>2, <2>2 DEF pc
<1> QED BY <1>1, <1>2 DEF Continue

LEMMA StartRebuildForgets ==
  ASSUME FInv, NEW p \in Workers, StartRebuild(p)
  PROVE  FInv'
<1> USE DEF StartRebuild, txSide
<1>1. IInv /\ p \in Procs
  BY WorkersAreNoRequests DEF FInv
<1>2. IInv' /\ NotBack
  BY <1>1, StartRebuildKeeps, SameSnapshot
<1>3. PICK st : proc' = [proc EXCEPT ![p] = st] /\ st.pc = "lock"
  BY <1>1, GoIs
<1>4. Knows(st)'
  BY <1>3, EarlyKnows
<1> QED BY <1>1, <1>2, <1>3, <1>4, WorkerForgets

LEMMA TryLockBucketForgets ==
  ASSUME FInv, NEW p \in Procs, TryLockBucket(p)
  PROVE  FInv'
<1>1. IInv /\ UNCHANGED <<db, tx, rows, listed>> /\ UNCHANGED snapshot /\ UNCHANGED watermark
  BY DEF FInv, TryLockBucket, txSide
<1>2. IInv' /\ NotBack
  BY <1>1, TryLockBucketKeeps, SameSnapshot
<1>3. CASE Go(p, "load") /\ UNCHANGED lost
  <2>1. PICK st : proc' = [proc EXCEPT ![p] = st] /\ st.pc = "load"
    BY <1>1, <1>3, GoIs
  <2>2. Knows(st)'
    BY <2>1, EarlyKnows
  <2> QED BY <1>1, <1>2, <1>3, <2>1, <2>2, WorkerForgets
<1>4. CASE LockedOut(p)
  <2>1. PICK st : /\ proc' = [proc EXCEPT ![p] = st]
                  /\ st = Resting \/ (st.pc = "mark" /\ st.last = proc[p].last /\ st.last > 0)
    BY <1>1, <1>4, ContinueIs DEF LockedOut
  <2>2. ASSUME lost' = {} PROVE Knows(st)'
    <3>1. ~ Lose("locked out")
      <4>1. \A way : ~ (lost' = lost \cup {way})
        BY <2>2
      <4> QED BY <4>1, Zenon DEF Lose
    <3>2. ~ (proc[p].last > 0)
      BY <1>4, <3>1, Zenon DEF LockedOut
    <3>3. st = Resting
      BY <2>1, <3>2
    <3> QED BY <3>3, EarlyKnows
  <2>3. lost \subseteq lost'
    BY <1>1, <1>4, LockedOutMoves DEF LosesMore
  <2> QED BY <1>1, <1>2, <2>1, <2>2, <2>3, WorkerForgets
<1> QED BY <1>3, <1>4 DEF TryLockBucket

\* What has just been loaded is current.
LEMMA LoadAccountsFromDBForgets ==
  ASSUME FInv, NEW p \in Procs, LoadAccountsFromDB(p)
  PROVE  FInv'
<1> DEFINE st == [proc[p] EXCEPT !.pc = "write", !.got = db]
<1>1. IInv /\ UNCHANGED <<db, tx, rows, listed>> /\ UNCHANGED <<snapshot, watermark, lost>>
  BY DEF FInv, LoadAccountsFromDB, txSide
<1>2. IInv' /\ NotBack
  BY <1>1, LoadAccountsFromDBKeeps, SameSnapshot
<1>3. proc' = [proc EXCEPT ![p] = st]
  BY DEF LoadAccountsFromDB
<1>4. st.pc = "write" /\ st.got = db'
  <2>1. proc[p] \in ProcType
    BY <1>1, EveryoneFits DEF Fits
  <2> QED BY <1>1, <2>1 DEF ProcType
<1> HIDE DEF st
<1>5. PICK new : new = st
  OBVIOUS
<1>6. Knows(new)'
  BY <1>4, <1>5 DEF Knows
<1> QED BY <1>1, <1>2, <1>3, <1>5, <1>6, WorkerForgets

\* Whoever stores what is current makes the snapshot current; otherwise what is outstanding
\* stays so.
LEMMA WrittenSettles ==
  ASSUME FInv, NEW p \in Procs, Written(p), SameWork, lost \subseteq lost', lost' = {},
         NEW mark, mark = proc[p].last, mark > 0
  PROVE  Current' \/ Outstanding(mark)'
<1>1. IInv /\ Knows(proc[p])
  BY NothingLost DEF FInv, Forget
<1>2. proc[p].pc = "write" /\ snapshot' = proc[p].got
  BY DEF Written, At
<1>3. snapshot <= proc[p].got
  <2>1. NotBack
    BY <1>1, WrittenNotBack
  <2> QED BY <1>2, <2>1 DEF NotBack
<1>4. proc[p].got = db \/ Outstanding(mark)
  BY <1>1, <1>2, <1>3 DEF Knows
<1>5. Outstanding(mark)' <=> Outstanding(mark)
  BY SameOutstanding
<1> QED BY <1>2, <1>4, <1>5 DEF Current, SameWork

LEMMA LastIsNumber ==
  ASSUME IInv, NEW p \in Procs
  PROVE  proc[p].last \in Nat
  BY EveryoneFits, BoundsAssumption DEF Fits, ProcType

LEMMA SetSnapshotForgets ==
  ASSUME FInv, NEW p \in Procs, SetSnapshot(p)
  PROVE  FInv'
<1>1. /\ IInv /\ Written(p) /\ UNCHANGED <<db, tx, rows, listed>> /\ UNCHANGED watermark
      /\ IF p \in Requests THEN Rest(p)
         ELSE proc' = [proc EXCEPT ![p].pc = "unlock", ![p].got = 0]
  BY DEF FInv, SetSnapshot, txSide
<1>2. IInv' /\ NotBack /\ lost \subseteq lost' /\ SameWork
  BY <1>1, SetSnapshotKeeps, WrittenNotBack, WrittenKeeps, SameTableIsSameWork DEF LosesMore
<1>3. PICK st : /\ proc' = [proc EXCEPT ![p] = st]
                /\ st = Resting \/ (st.pc = "unlock" /\ st.last = proc[p].last)
  <2>1. CASE p \in Requests
    BY <1>1, <2>1 DEF Rest
  <2>2. CASE p \notin Requests
    <3> DEFINE st == [proc[p] EXCEPT !.pc = "unlock", !.got = 0]
    <3>1. proc[p] \in ProcType
      BY <1>1, EveryoneFits DEF Fits
    <3>2. st.pc = "unlock" /\ st.last = proc[p].last
      BY <3>1 DEF ProcType
    <3>3. proc' = [proc EXCEPT ![p] = st]
      BY <1>1, <2>2
    <3> QED BY <3>2, <3>3
  <2> QED BY <2>1, <2>2
<1>4. ASSUME lost' = {} PROVE Knows(st)'
  <2>1. CASE st = Resting
    BY <2>1, EarlyKnows
  <2>2. CASE st.pc = "unlock" /\ st.last = proc[p].last /\ ~(st.last > 0)
    BY <2>2 DEF Knows
  <2>3. CASE st.pc = "unlock" /\ st.last = proc[p].last /\ st.last > 0
    <3>1. Current' \/ Outstanding(st.last)'
      BY <1>1, <1>2, <1>4, <2>3, WrittenSettles
    <3> QED BY <2>3, <3>1 DEF Knows, Settled
  <2> QED BY <1>3, <2>1, <2>2, <2>3
<1> QED BY <1>1, <1>2, <1>3, <1>4, WorkerForgets

\* What was known stays known at the next step.
LEMMA StaysKnown ==
  ASSUME FInv, NEW p \in Procs, proc[p].pc \in {"unlock", "mark"}, UNCHANGED snapshot, SameWork,
         NEW st, st = Resting \/ (st.pc \in {"mark", "clean"} /\ st.last = proc[p].last /\ st.last > 0),
         lost' = {}, lost \subseteq lost'
  PROVE  Knows(st)'
<1>1. IInv /\ Knows(proc[p]) /\ NotBack
  BY NothingLost, SameSnapshot DEF FInv, Forget
<1>2. CASE st = Resting
  BY <1>2, EarlyKnows
<1>3. CASE st.pc \in {"mark", "clean"} /\ st.last = proc[p].last /\ st.last > 0
  <2>1. Settled(st.last)
    BY <1>1, <1>3 DEF Knows
  <2>2. Current' \/ Outstanding(st.last)'
    BY <1>1, <2>1, StillSettled
  <2> QED BY <1>3, <2>2 DEF Knows, Settled
<1> QED BY <1>2, <1>3

LEMMA UnlockBucketForgets ==
  ASSUME FInv, NEW p \in Procs, UnlockBucket(p)
  PROVE  FInv'
<1>1. /\ IInv /\ UNCHANGED <<db, tx, rows, listed>> /\ UNCHANGED <<snapshot, watermark, lost>>
      /\ proc[p].pc = "unlock" /\ Continue(p)
  BY DEF FInv, UnlockBucket, txSide, At
<1>2. IInv' /\ NotBack /\ SameWork
  BY <1>1, UnlockBucketKeeps, SameSnapshot, SameTableIsSameWork
<1>3. PICK st : /\ proc' = [proc EXCEPT ![p] = st]
                /\ st = Resting \/ (st.pc = "mark" /\ st.last = proc[p].last /\ st.last > 0)
  BY <1>1, ContinueIs
<1>4. lost' = {} => Knows(st)'
  BY <1>1, <1>2, <1>3, StaysKnown
<1> QED BY <1>1, <1>2, <1>3, <1>4, WorkerForgets

\* A rebuild that fails ends the poll; the watermark stays.
LEMMA RebuildFailsForgets ==
  ASSUME FInv, NEW p \in Procs, RebuildFails(p)
  PROVE  FInv'
<1>1. IInv /\ UNCHANGED <<db, tx, rows, listed>> /\ UNCHANGED watermark /\ Rest(p)
  BY DEF FInv, RebuildFails, txSide
<1>2. IInv'
  BY <1>1, RebuildFailsKeeps
<1>3. NotBack /\ lost \subseteq lost'
  <2>1. CASE Written(p)
    BY <1>1, <2>1, WrittenNotBack, WrittenKeeps DEF LosesMore
  <2>2. CASE UNCHANGED <<snapshot, lost>>
    BY <1>1, <2>2, SameSnapshot
  <2> QED BY <2>1, <2>2 DEF RebuildFails
<1>4. PICK st : proc' = [proc EXCEPT ![p] = st] /\ st = Resting
  BY <1>1 DEF Rest
<1>5. Knows(st)'
  BY <1>4, EarlyKnows
<1> QED BY <1>1, <1>2, <1>3, <1>4, <1>5, WorkerForgets

LEMMA LockExpiresForgets ==
  ASSUME FInv, LockExpires
  PROVE  FInv'
<1>1. /\ IInv /\ UNCHANGED <<db, tx, rows, listed>> /\ UNCHANGED <<snapshot, watermark, proc, lost>>
  BY DEF FInv, LockExpires, txSide
<1>2. IInv' /\ NotBack /\ SameWork
  BY <1>1, LockExpiresKeeps, SameSnapshot, SameTableIsSameWork
<1>3. lock \in Procs /\ proc \in [Procs -> ProcType]
  BY <1>1, Unmoved DEF LockExpires, IInv, TypeOK, Procs
<1>4. PICK st : st = proc[lock]
  OBVIOUS
<1>5. proc' = [proc EXCEPT ![lock] = st]
  BY <1>1, <1>3, <1>4
<1>6. ASSUME lost' = {} PROVE Knows(st)'
  <2>1. Knows(st) /\ st.got \in Nat
    BY <1>1, <1>3, <1>4, <1>6, BoundsAssumption DEF FInv, Forget, ProcType
  <2> QED BY <1>1, <1>2, <1>6, <2>1, OthersKnow
<1>7. PICK p \in Procs : p = lock
  BY <1>3
<1> QED BY <1>1, <1>2, <1>5, <1>6, <1>7, WorkerForgets

LEMMA GetOutboxWatermarkForgets ==
  ASSUME FInv, NEW p \in Workers, GetOutboxWatermark(p)
  PROVE  FInv'
<1> DEFINE new == [proc[p] EXCEPT !.pc = "list", !.since = watermark]
<1>1. /\ IInv /\ UNCHANGED <<db, tx, rows, listed>> /\ UNCHANGED <<snapshot, watermark, lost>>
      /\ p \in Procs
  BY WorkersAreNoRequests DEF FInv, GetOutboxWatermark, txSide
<1>2. IInv' /\ NotBack
  BY <1>1, GetOutboxWatermarkKeeps, SameSnapshot
<1>3. proc' = [proc EXCEPT ![p] = new]
  BY DEF GetOutboxWatermark
<1>4. new.pc = "list"
  <2>1. proc[p] \in ProcType
    BY <1>1, EveryoneFits DEF Fits
  <2> QED BY <2>1 DEF ProcType
<1> HIDE DEF new
<1>5. PICK st : st = new
  OBVIOUS
<1>6. Knows(st)'
  BY <1>4, <1>5, EarlyKnows
<1> QED BY <1>1, <1>2, <1>3, <1>5, <1>6, WorkerForgets

\* The rows that a poll returns no longer hold the key.
LEMMA ListForgets ==
  ASSUME FInv, NEW p \in Workers, ListAfterAndReleaseDedup(p)
  PROVE  FInv'
<1> DEFINE batch == Batch(proc[p].since)
<1>1. /\ IInv /\ HoldersWait /\ p \in Procs /\ UNCHANGED <<db, tx, changes, snapshot, watermark>>
      /\ batch \subseteq Ids
  <2>1. IInv /\ HoldersWait /\ TypeOK
    BY DEF FInv, IInv
  <2> QED BY <2>1, WorkersAreNoRequests, BatchRows DEF ListAfterAndReleaseDedup
<1>a. lost \subseteq lost'
  <2>1. UNCHANGED lost \/ Lose("passed over")
    BY Zenon DEF ListAfterAndReleaseDedup
  <2> QED BY <2>1 DEF Lose
<1>2. IInv' /\ NotBack
  BY <1>1, ListKeeps, SameSnapshot
<1>3. CASE rows' \in {rows, Released(batch)} /\ Rest(p) /\ UNCHANGED <<listed, lost>>
  <2>1. SameStates
    BY <1>1, <1>3, ReleasedRows
  <2>2. SameWork /\ Holding' \subseteq Holding
    BY <1>1, <2>1, SameStatesKeep DEF SameWork
  <2>3. HoldersWait'
    BY <1>1, <1>3, <2>2 DEF HoldersWait, SameWork
  <2>4. PICK st : proc' = [proc EXCEPT ![p] = st] /\ st = Resting
    BY <1>3 DEF Rest
  <2>5. Knows(st)'
    BY <2>4, EarlyKnows
  <2> QED BY <1>1, <1>2, <1>3, <2>2, <2>3, <2>4, <2>5, MoveForgets
<1>4. CASE /\ batch # {} /\ rows' = Released(batch)
           /\ proc' = [proc EXCEPT ![p] = [Resting EXCEPT !.pc = "lock", !.last = LastOf(batch)]]
           /\ listed' = listed \cup batch
  <2>1. SameStates
    BY <1>1, <1>4, ReleasedRows
  <2>2. SameWork /\ Holding' \subseteq Holding
    BY <1>1, <2>1, SameStatesKeep DEF SameWork
  <2>3. Holding' \cap batch = {}
    <3>1. \A id \in batch : rows'[id] = [rows[id] EXCEPT !.dedup = FALSE] /\ rows[id] \in RowType
      BY <1>1, <1>4, RowsType DEF Released, IInv
    <3>2. \A id \in batch : ~rows'[id].dedup
      BY <3>1 DEF RowType
    <3> QED BY <3>2 DEF Holding
  <2>4. HoldersWait'
    BY <1>1, <1>4, <2>2, <2>3 DEF HoldersWait, SameWork
  <2> DEFINE new == [Resting EXCEPT !.pc = "lock", !.last = LastOf(batch)]
  <2>5. new.pc = "lock" /\ proc' = [proc EXCEPT ![p] = new]
    BY <1>4 DEF Resting
  <2> HIDE DEF new
  <2>6. PICK st : st = new
    OBVIOUS
  <2>7. Knows(st)'
    BY <2>5, <2>6, EarlyKnows
  <2> QED BY <1>1, <1>2, <1>a, <2>2, <2>4, <2>5, <2>6, <2>7, MoveForgets
<1> QED BY <1>3, <1>4, Zenon DEF ListAfterAndReleaseDedup

\* The watermark moves to where its poller knows everything is settled.
LEMMA SetOutboxWatermarkForgets ==
  ASSUME FInv, NEW p \in Workers, SetOutboxWatermark(p)
  PROVE  FInv'
<1>1. /\ IInv /\ UNCHANGED <<db, tx, rows, listed>> /\ UNCHANGED <<snapshot, lost>>
      /\ p \in Procs /\ proc[p].pc = "mark"
  BY WorkersAreNoRequests DEF FInv, SetOutboxWatermark, txSide, At
<1>2. IInv' /\ NotBack /\ SameWork
  BY <1>1, SetOutboxWatermarkKeeps, SameSnapshot, SameTableIsSameWork
<1>3. ASSUME lost' = {} PROVE proc[p].last > 0 /\ (watermark' = watermark \/ Settled(watermark)')
  <2>1. Knows(proc[p])
    BY <1>1, <1>3 DEF FInv, Forget
  <2>2. PICK mark : mark = proc[p].last
    OBVIOUS
  <2>3. mark > 0 /\ Settled(mark)
    BY <1>1, <2>1, <2>2 DEF Knows
  <2>4. Current' \/ Outstanding(mark)'
    BY <1>1, <1>2, <1>3, <2>3, StillSettled
  <2>5. watermark' = watermark \/ watermark' = mark
    BY <2>2 DEF SetOutboxWatermark
  <2> QED BY <2>2, <2>3, <2>4, <2>5 DEF Settled
<1>4. CASE Go(p, "clean")
  <2>1. PICK st : proc' = [proc EXCEPT ![p] = st] /\ st.pc = "clean" /\ st.last = proc[p].last
    BY <1>1, <1>4, GoIs
  <2>2. ASSUME lost' = {} PROVE Knows(st)'
    <3>1. st.pc \in {"mark", "clean"} /\ st.last = proc[p].last /\ st.last > 0
      BY <1>3, <2>1, <2>2
    <3> QED BY <1>1, <1>2, <2>2, <3>1, StaysKnown
  <2> QED BY <1>1, <1>2, <1>3, <2>1, <2>2, WorkerForgets
<1>5. CASE Go(p, "lag")
  <2>1. PICK st : proc' = [proc EXCEPT ![p] = st] /\ st.pc = "lag"
    BY <1>1, <1>5, GoIs
  <2>2. Knows(st)'
    BY <2>1, EarlyKnows
  <2> QED BY <1>1, <1>2, <1>3, <2>1, <2>2, WorkerForgets
<1> QED BY <1>4, <1>5 DEF SetOutboxWatermark

\* The sets of rows after a cleanup.
LEMMA CleanedSets ==
  ASSUME IInv, NEW old \in SUBSET Live,
         rows' = [id \in Ids |-> IF id \in old THEN [state |-> "gone", dedup |-> FALSE] ELSE rows[id]]
  PROVE  /\ Ids' = Ids /\ Live' = Live \ old /\ Open' = Open /\ Holding' \subseteq Holding \ old
<1> DEFINE gone == [state |-> "gone", dedup |-> FALSE]
<1>1. gone \in RowType /\ gone.state = "gone" /\ gone.dedup = FALSE
  BY DEF RowType
<1>2. rows' = [id \in Ids |-> IF id \in old THEN gone ELSE rows[id]]
  OBVIOUS
<1> HIDE DEF gone
<1>3. rows \in Seq(RowType) /\ Len(rows) \in Nat /\ Ids = 1 .. Len(rows) /\ Live \subseteq Ids
  BY RowsType DEF IInv
<1>4. rows' \in [1 .. Len(rows) -> RowType]
  <2>1. \A id \in Ids : rows[id] \in RowType
    BY <1>3
  <2> QED BY <1>1, <1>2, <1>3, <2>1
<1>5. Ids' = Ids
  BY <1>3, <1>4, FunctionIsSequence DEF Ids
<1>6. \A id \in Ids : rows'[id] = IF id \in old THEN gone ELSE rows[id]
  BY <1>2
<1>7. Live' = Live \ old
  BY <1>1, <1>5, <1>6 DEF Live
<1>8. Open' = Open
  BY <1>1, <1>5, <1>6 DEF Open, Live
<1>9. Holding' \subseteq Holding \ old
  BY <1>1, <1>5, <1>6 DEF Holding
<1> QED BY <1>5, <1>7, <1>8, <1>9

\* While the snapshot lags, a row above the batch that is cleaned up is outstanding, so what
\* goes is not the last that a lower mark relied on.
LEMMA CleanedStillOutstanding ==
  ASSUME IInv, UNCHANGED <<db, tx>>, Open' = Open, NEW last \in Nat, Outstanding(last),
         NEW old \in SUBSET Live, \A id \in old : id <= last, Live' = Live \ old,
         NEW mark \in Nat, Outstanding(mark)
  PROVE  Outstanding(mark)'
<1>1. Live \subseteq 1 .. Len(rows) /\ Len(rows) \in Nat
  BY RowsType DEF IInv
<1>2. \A id \in Live : id \in Nat
  BY <1>1
<1>3. ASSUME NEW t \in Transactions, Unannounced(t) PROVE Unannounced(t)'
  BY <1>3 DEF Unannounced, TxAt
<1>4. ASSUME NEW id \in Live, id > last PROVE id \in Live'
  BY <1>2, <1>4
<1>5. CASE \E t \in Transactions : Unannounced(t)
  BY <1>3, <1>5 DEF Outstanding
<1>6. CASE \E id \in Live : id > last /\ id > mark
  BY <1>4, <1>6 DEF Outstanding
<1>7. ASSUME NEW id \in Live, id > last, ~ (id > mark), NEW other \in Live, other > mark
      PROVE  other > last
  BY <1>2, <1>7
<1> QED BY <1>5, <1>6, <1>7 DEF Outstanding

LEMMA CleanupForgets ==
  ASSUME FInv, NEW p \in Workers, CleanupConsumedOutbox(p)
  PROVE  FInv'
<1>1. /\ IInv /\ HoldersWait /\ OwnRow /\ p \in Procs /\ proc[p].pc = "clean" /\ Go(p, "lag")
      /\ UNCHANGED <<db, tx, snapshot, watermark, listed, lost>>
  BY WorkersAreNoRequests DEF FInv, CleanupConsumedOutbox, At
<1>2. IInv'
  BY <1>1, CleanupKeeps
<1>3. PICK old \in SUBSET Consumed(p) :
        rows' = [id \in Ids |-> IF id \in old THEN [state |-> "gone", dedup |-> FALSE] ELSE rows[id]]
  BY DEF CleanupConsumedOutbox
<1>4. old \in SUBSET Live /\ \A id \in old : id <= proc[p].last
  BY DEF Consumed
<1>5. Ids' = Ids /\ Live' = Live \ old /\ Open' = Open /\ Holding' \subseteq Holding \ old
  BY <1>1, <1>3, <1>4, CleanedSets
<1>6. HoldersWait' /\ OwnRow'
  BY <1>1, <1>5 DEF HoldersWait, OwnRow
<1>7. PICK last : last = proc[p].last
  OBVIOUS
<1>8. ASSUME lost' = {}, ~Current, NEW mark \in Nat, Outstanding(mark) PROVE Outstanding(mark)'
  <2>1. Knows(proc[p])
    BY <1>1, <1>8 DEF FInv, Forget
  <2>2. last \in Nat /\ Outstanding(last)
    BY <1>1, <1>7, <1>8, <2>1, LastIsNumber DEF Knows, Settled
  <2>3. \A id \in old : id <= last
    BY <1>4, <1>7
  <2> QED BY <1>1, <1>4, <1>5, <1>8, <2>2, <2>3, CleanedStillOutstanding
<1>9. ASSUME lost' = {}, NEW mark \in Nat, Settled(mark) PROVE Current' \/ Outstanding(mark)'
  <2>1. CASE Current
    BY <1>1, <2>1 DEF Current
  <2>2. CASE ~Current
    BY <1>8, <1>9, <2>2 DEF Settled
  <2> QED BY <2>1, <2>2
<1>10. \A mark \in {0} \cup listed : mark \in Nat
  <2>1. Ids = 1 .. Len(rows) /\ Len(rows) \in Nat /\ listed \subseteq Ids
    BY <1>1, RowsType DEF IInv
  <2> QED BY <2>1
<1>11. PICK new : proc' = [proc EXCEPT ![p] = new] /\ new.pc = "lag"
  BY <1>1, GoIs
<1>12. ASSUME lost' = {} PROVE Settled(watermark)'
  <2>1. Settled(watermark) /\ watermark \in Nat
    BY <1>1, <1>10, <1>12, Unmoved DEF FInv, Forget
  <2>2. Current' \/ Outstanding(watermark)'
    BY <1>1, <1>9, <1>12, <2>1
  <2> QED BY <2>2 DEF Settled
<1>13. ASSUME lost' = {}, NEW st \in ProcType, Knows(st), st.got <= db PROVE Knows(st)'
  <2>1. st.last \in Nat /\ st.got \in Nat /\ snapshot \in Nat /\ db \in Nat
    BY <1>1, Unmoved, Bounded, BoundsAssumption DEF ProcType
  <2>2. ASSUME st.last > 0, st.pc = "write", snapshot' <= st.got
        PROVE  st.got = db' \/ Outstanding(st.last)'
    <3>1. CASE st.got = db
      BY <1>1, <3>1
    <3>2. CASE st.got # db
      <4>1. Outstanding(st.last)
        BY <1>1, <1>13, <2>2, <3>2 DEF Knows
      <4>2. ~Current
        BY <1>1, <1>13, <2>1, <2>2, <3>2 DEF Current
      <4> QED BY <1>8, <1>13, <2>1, <4>1, <4>2
    <3> QED BY <3>1, <3>2
  <2>3. ASSUME st.last > 0, st.pc \in {"unlock", "mark", "clean"} PROVE Settled(st.last)'
    <3>1. Settled(st.last)
      BY <1>13, <2>3 DEF Knows
    <3>2. Current' \/ Outstanding(st.last)'
      BY <1>9, <1>13, <2>1, <3>1
    <3> QED BY <3>2 DEF Settled
  <2> QED BY <1>13, <2>2, <2>3 DEF Knows
<1>14. ASSUME lost' = {}, NEW q \in Procs PROVE Knows(proc[q])'
  <2>1. proc \in [Procs -> ProcType]
    BY <1>1 DEF IInv, TypeOK, Procs
  <2>2. CASE q = p
    <3>1. proc'[q] = new
      BY <1>11, <2>1, <2>2
    <3>2. Knows(new)'
      BY <1>11, EarlyKnows
    <3> QED BY <3>1, <3>2
  <2>3. CASE q # p
    <3>1. proc'[q] = proc[q]
      BY <1>11, <2>1, <2>3
    <3>2. Knows(proc[q]) /\ proc[q] \in ProcType /\ proc[q].got <= db
      BY <1>1, <1>14, EveryoneFits DEF FInv, Forget, Fits
    <3>3. PICK st : st = proc[q]
      OBVIOUS
    <3>4. Knows(st)'
      BY <1>13, <1>14, <3>2, <3>3
    <3> QED BY <3>1, <3>3, <3>4
  <2> QED BY <2>2, <2>3
<1>15. Forget'
  BY <1>12, <1>14 DEF Forget
<1> QED BY <1>2, <1>6, <1>15 DEF FInv

LEMMA CheckOutboxLagForgets ==
  ASSUME FInv, NEW p \in Workers, CheckOutboxLag(p)
  PROVE  FInv'
<1>1. /\ IInv /\ p \in Procs /\ UNCHANGED <<db, tx, rows, listed>> /\ UNCHANGED <<snapshot, watermark, lost>>
  BY WorkersAreNoRequests DEF FInv, CheckOutboxLag, txSide
<1>2. IInv' /\ NotBack
  BY <1>1, CheckOutboxLagKeeps, SameSnapshot
<1>3. PICK st : proc' = [proc EXCEPT ![p] = st] /\ (st = Resting \/ st.pc = "lock")
  <2>1. CASE Rest(p)
    BY <2>1 DEF Rest
  <2>2. CASE proc' = [proc EXCEPT ![p] = [Resting EXCEPT !.pc = "lock"]]
    <3>1. [Resting EXCEPT !.pc = "lock"].pc = "lock"
      BY DEF Resting
    <3> QED BY <2>2, <3>1
  <2> QED BY <2>1, <2>2 DEF CheckOutboxLag
<1>4. Knows(st)'
  BY <1>3, EarlyKnows
<1> QED BY <1>1, <1>2, <1>3, <1>4, WorkerForgets

LEMMA StutterForgets ==
  ASSUME FInv, UNCHANGED vars
  PROVE  FInv'
<1>1. IInv'
  BY StutterKeeps DEF FInv
<1>2. SameWork /\ Holding' = Holding
  BY SameTableIsSameWork DEF vars
<1>3. HoldersWait' /\ OwnRow'
  BY <1>2 DEF vars, FInv, HoldersWait, OwnRow, SameWork
<1>4. Forget'
  BY <1>2 DEF vars, FInv, Forget, Settled, Knows, Current, Outstanding, Unannounced, TxAt, SameWork
<1> QED BY <1>1, <1>3, <1>4 DEF FInv

LEMMA NextForgets == FInv /\ [Next]_vars => FInv'
<1> SUFFICES ASSUME FInv, [Next]_vars PROVE FInv'
  OBVIOUS
<1>1. ASSUME NEW t \in Transactions, Change(t) \/ TxStep(t) \/ Rollback(t) PROVE FInv'
  BY <1>1, ChangeForgets, CommitForgets, InsertForgets, RollbackForgets DEF TxStep
<1>2. ASSUME NEW p \in Procs, Rebuild(p) \/ RebuildFails(p) PROVE FInv'
  BY <1>2, TryLockBucketForgets, LoadAccountsFromDBForgets, SetSnapshotForgets,
     UnlockBucketForgets, RebuildFailsForgets DEF Rebuild
<1>3. ASSUME NEW p \in Workers, StartRebuild(p) \/ Poll(p) PROVE FInv'
  BY <1>3, StartRebuildForgets, GetOutboxWatermarkForgets, ListForgets,
     SetOutboxWatermarkForgets, CleanupForgets, CheckOutboxLagForgets DEF Poll
<1>4. CASE LockExpires
  BY <1>4, LockExpiresForgets
<1>5. CASE UNCHANGED vars
  BY <1>5, StutterForgets
<1> QED BY <1>1, <1>2, <1>3, <1>4, <1>5 DEF Next, Procs

\* However pollers, rebuilds, requests and sessions interleave and fail: unless a change escaped
\* in a way that lost names, a snapshot that lags behind the database has a change without a
\* visible row, or a visible row above the watermark, that will make a poller rebuild it.
THEOREM NothingIsForgotten == Spec => []NothingForgotten
<1>1. FInv => NothingForgotten
  BY DEF FInv, Forget, Settled, NothingForgotten
<1> QED BY <1>1, InitForgets, NextForgets, PTL DEF Spec

=============================================================================
