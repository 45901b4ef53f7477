----------------------- MODULE ConcurrencySlotsProofs -----------------------
(***************************************************************************)
(* A slot belongs to the handler its id names.  That handler knows of it,  *)
(* or it is leaked; and a handler that runs has its slot in the set, or    *)
(* was robbed of it.  So the requests that run and were not robbed have    *)
(* different members of the set, and the script never lets it grow beyond  *)
(* maxConcurrency.                                                         *)
(***************************************************************************)
EXTENDS ConcurrencySlots, FiniteSetTheorems, TLAPS

OwningPcs == {"try", "wait", "leave", "run"}

\* What a handler knows of its slot.
Knows(r) ==
  /\ req[r].slot # NoSlot =>
       req[r].slot[1] = r /\ req[r].slot \notin leaked /\ req[r].pc \in OwningPcs
  /\ At(r, "run") => req[r].slot # NoSlot
  /\ Holds(r) /\ r \notin robbed => req[r].slot \in slots

HandlersKnow == \A r \in Requests : Knows(r)

IInv == TypeOK /\ IsFiniteSet(slots) /\ SlotsAccountedFor /\ HandlersKnow

LEMMA NoSlotIsNoId == NoSlot \notin SlotIds
  BY DEF NoSlot, SlotIds

LEMMA OwnerOfSlot == \A id \in SlotIds : id[1] \in Requests
  BY DEF SlotIds

\* Running handlers that were not robbed have a slot each.
LEMMA RunningAreCounted == IInv => RunningWithinLimit
  <1> SUFFICES ASSUME IInv PROVE RunningWithinLimit
    OBVIOUS
  <1> DEFINE Running == {r \in Requests : At(r, "run")} \ robbed
             f == [r \in Running |-> req[r].slot]
  <1>1. \A r \in Running : req[r].slot \in slots /\ req[r].slot[1] = r
    BY DEF IInv, HandlersKnow, Knows, Holds, At
  <1>2. f \in [Running -> slots]
    BY <1>1
  <1>3. \A r, q \in Running : f[r] = f[q] => r = q
    BY <1>1
  <1>4. f \in Injection(Running, slots)
    BY <1>2, <1>3 DEF Injection, IsInjective
  <1>6. IsFiniteSet(Running) /\ Cardinality(Running) <= Cardinality(slots)
    BY <1>4, FS_Injection DEF IInv
  <1>7. Cardinality(slots) <= Max /\ Cardinality(slots) \in Nat /\ Cardinality(Running) \in Nat
    BY <1>6, FS_CardinalityType DEF IInv, TypeOK
  <1> QED BY <1>6, <1>7, BoundsAssumption DEF RunningWithinLimit

LEMMA InvImplies == IInv => TypeOK /\ RunningWithinLimit /\ SlotsAccountedFor
  BY RunningAreCounted DEF IInv

LEMMA InitInv == Init => IInv
  <1> SUFFICES ASSUME Init PROVE IInv
    OBVIOUS
  <1>1. IsFiniteSet(slots) /\ Cardinality(slots) = 0
    BY FS_EmptySet DEF Init
  <1>2. TypeOK
    BY <1>1, BoundsAssumption DEF Init, TypeOK, ReqType, Outside
  <1> QED BY <1>1, <1>2 DEF Init, IInv, SlotsAccountedFor, HandlersKnow, Knows, Holds, At, Outside

(***************************************************************************)
(* One handler's step: what it has to show of its own slot.                *)
(***************************************************************************)
LEMMA HandlerStep ==
  ASSUME IInv, NEW r \in Requests, NEW s \in ReqType, req' = [req EXCEPT ![r] = s],
         server' = server,
         wait' \in 0 .. MaxWait, faults' \in 0 .. MaxFaults,
         skewed' \subseteq Upsets,
         slots' \subseteq SlotIds, IsFiniteSet(slots'), Cardinality(slots') <= Max,
         leaked' \subseteq slots', robbed' \subseteq Requests,
         s.slot # NoSlot => s.slot[1] = r /\ s.slot \notin leaked' /\ s.pc \in OwningPcs,
         s.pc = "run" => s.slot # NoSlot,
         s.pc \in {"run", "leave"} /\ s.slot # NoSlot /\ r \notin robbed' => s.slot \in slots',
         \A id \in slots' \ leaked' : id[1] = r => s.slot = id /\ s.pc \in OwningPcs,
         \A id \in SlotIds : id[1] # r => /\ (id \in slots' <=> id \in slots)
                                         /\ (id \in leaked' <=> id \in leaked),
         \A u \in Requests : u # r => (u \in robbed' <=> u \in robbed)
  PROVE  IInv'
  <1>1. /\ req' \in [Requests -> ReqType] /\ req'[r] = s
        /\ \A u \in Requests : u # r => req'[u] = req[u]
    BY DEF IInv, TypeOK
  <1>2. TypeOK'
    BY <1>1 DEF IInv, TypeOK
  <1>3. SlotsAccountedFor'
    <2> SUFFICES ASSUME NEW id \in slots' \ leaked'
                 PROVE  req'[id[1]].slot = id /\ req'[id[1]].pc \in OwningPcs
      BY DEF SlotsAccountedFor, OwningPcs
    <2>1. CASE id[1] = r
      BY <1>1, <2>1
    <2>2. CASE id[1] # r
      <3>1. id[1] \in Requests /\ id \in slots \ leaked
        BY <2>2, OwnerOfSlot
      <3>2. req[id[1]].slot = id /\ req[id[1]].pc \in OwningPcs
        BY <3>1 DEF IInv, SlotsAccountedFor, OwningPcs
      <3> QED BY <1>1, <2>2, <3>1, <3>2
    <2> QED BY <2>1, <2>2
  <1>4. ASSUME NEW u \in Requests PROVE Knows(u)'
    <2>1. CASE u = r
      BY <1>1, <2>1 DEF Knows, At, Holds
    <2>2. CASE u # r
      <3>1. req'[u] = req[u] /\ Knows(u) /\ req[u].slot \in SlotIds \cup {NoSlot}
        BY <1>1, <2>2 DEF IInv, HandlersKnow, TypeOK, ReqType
      <3>2. CASE req[u].slot = NoSlot
        BY <3>1, <3>2 DEF Knows, At, Holds
      <3>3. CASE req[u].slot # NoSlot
        <4>1. req[u].slot[1] = u /\ req[u].slot \in SlotIds
          BY <3>1, <3>3 DEF Knows
        <4>2. /\ (req[u].slot \in slots' <=> req[u].slot \in slots)
              /\ (req[u].slot \in leaked' <=> req[u].slot \in leaked)
          BY <2>2, <4>1
        <4> QED BY <2>2, <3>1, <4>1, <4>2 DEF Knows, At, Holds
      <3> QED BY <3>2, <3>3
    <2> QED BY <2>1, <2>2
  <1> QED BY <1>2, <1>3, <1>4 DEF IInv, HandlersKnow

\* A step of a handler that leaves the set alone and keeps what the handler has.
LEMMA HandlerMoves ==
  ASSUME IInv, NEW r \in Requests, NEW pc, NEW slot, Become(r, pc, slot),
         pc \in {"idle", "try", "queue", "wait", "leave", "run", "drain"},
         slot = req[r].slot,
         slot # NoSlot => pc \in OwningPcs,
         pc = "run" => slot # NoSlot,
         pc \in {"run", "leave"} /\ slot # NoSlot => Holds(r),
         UNCHANGED <<slots, leaked, robbed, server>>,
         wait' \in 0 .. MaxWait, faults' \in 0 .. MaxFaults,
         skewed' \subseteq Upsets
  PROVE  IInv'
  <1> DEFINE s == [pc |-> pc, slot |-> slot]
  <1>1. Knows(r) /\ slot \in SlotIds \cup {NoSlot}
    BY DEF IInv, HandlersKnow, TypeOK, ReqType
  <1>2. s \in ReqType /\ s.pc = pc /\ s.slot = slot
    BY <1>1 DEF ReqType
  <1>3. req' = [req EXCEPT ![r] = s]
    BY DEF Become
  <1>4. /\ slots' \subseteq SlotIds /\ IsFiniteSet(slots') /\ Cardinality(slots') <= Max
        /\ leaked' \subseteq slots' /\ robbed' \subseteq Requests
    BY DEF IInv, TypeOK
  <1>5. \A id \in slots' \ leaked' : id[1] = r => s.slot = id /\ s.pc \in OwningPcs
    <2>1. \A id \in slots \ leaked : id[1] = r => slot = id
      BY DEF IInv, SlotsAccountedFor
    <2>2. \A id \in slots : id # NoSlot
      BY NoSlotIsNoId DEF IInv, TypeOK
    <2> QED BY <1>2, <2>1, <2>2
  <1>6. s.slot # NoSlot => s.slot[1] = r /\ s.slot \notin leaked' /\ s.pc \in OwningPcs
    BY <1>1, <1>2 DEF Knows
  <1>7. s.pc \in {"run", "leave"} /\ s.slot # NoSlot /\ r \notin robbed' => s.slot \in slots'
    BY <1>1, <1>2 DEF Knows
  <1> HIDE DEF s
  <1> QED BY <1>2, <1>3, <1>4, <1>5, <1>6, <1>7, HandlerStep

\* A handler gives up what it knows of its slot, which is then out of the set or leaked.
LEMMA HandlerForgets ==
  ASSUME IInv, NEW r \in Requests, NEW pc, Become(r, pc, NoSlot),
         pc \in {"idle", "leave", "drain", "wait", "queue"},
         \/ slots' = slots \ {req[r].slot} /\ leaked' = leaked
         \/ slots' = slots /\ leaked' = leaked \cup ({req[r].slot} \cap slots),
         robbed' \in {robbed, robbed \ {r}},
         server' = server, wait' \in 0 .. MaxWait, faults' \in 0 .. MaxFaults, skewed' = skewed
  PROVE  IInv'
  <1> DEFINE s == [pc |-> pc, slot |-> NoSlot]
  <1>1. Knows(r) /\ req[r].slot \in SlotIds \cup {NoSlot} /\ TypeOK /\ IsFiniteSet(slots)
    BY DEF IInv, HandlersKnow, TypeOK, ReqType
  <1>2. s \in ReqType /\ s.pc = pc /\ s.slot = NoSlot
    BY DEF ReqType
  <1>3. req' = [req EXCEPT ![r] = s]
    BY DEF Become
  <1>4. slots' \subseteq slots
    OBVIOUS
  <1>5. IsFiniteSet(slots') /\ Cardinality(slots') <= Max
    <2>1. IsFiniteSet(slots') /\ Cardinality(slots') <= Cardinality(slots)
      BY <1>1, <1>4, FS_Subset
    <2>2. Cardinality(slots') \in Nat /\ Cardinality(slots) \in Nat
      BY <1>1, <2>1, FS_CardinalityType
    <2> QED BY <1>1, <2>1, <2>2, BoundsAssumption DEF TypeOK
  <1>6. /\ slots' \subseteq SlotIds /\ leaked' \subseteq slots' /\ robbed' \subseteq Requests
        /\ skewed' \subseteq Upsets
    BY <1>1, <1>4, NoSlotIsNoId DEF TypeOK, Knows
  <1>7. \A id \in slots' \ leaked' : id[1] # r
    <2>1. \A id \in slots \ leaked : id[1] = r => req[r].slot = id
      BY DEF IInv, SlotsAccountedFor
    <2> QED BY <2>1
  <1>8. \A id \in SlotIds : id[1] # r => /\ (id \in slots' <=> id \in slots)
                                        /\ (id \in leaked' <=> id \in leaked)
    <2>1. \A id \in SlotIds : id = req[r].slot => id[1] = r
      BY <1>1, NoSlotIsNoId DEF Knows
    <2> QED BY <2>1
  <1>9. s.pc # "run"
    BY <1>2
  <1> HIDE DEF s
  <1> QED BY <1>2, <1>3, <1>5, <1>6, <1>7, <1>8, <1>9, HandlerStep

LEMMA FaultBounds ==
  ASSUME IInv, Calm \/ Fault
  PROVE  faults' \in 0 .. MaxFaults
  BY BoundsAssumption DEF IInv, TypeOK, Calm, Fault

LEMMA WaitBounds ==
  ASSUME IInv
  PROVE  /\ wait \in 0 .. MaxWait /\ Less \in 0 .. MaxWait
         /\ wait < MaxWait => wait + 1 \in 0 .. MaxWait
  BY BoundsAssumption DEF IInv, TypeOK, Less

\* The set and the handlers stay as they are.
LEMMA QuietStep ==
  ASSUME IInv, UNCHANGED <<slots, req, leaked, robbed>>,
         server' \in [Servers -> {"down", "starting", "up"}],
         wait' \in 0 .. MaxWait, faults' \in 0 .. MaxFaults, skewed' \subseteq Upsets
  PROVE  IInv'
  BY DEF IInv, TypeOK, SlotsAccountedFor, HandlersKnow, Knows, Holds, At

(***************************************************************************)
(* The steps of a handler.                                                 *)
(***************************************************************************)
LEMMA ArriveStep ==
  ASSUME IInv, NEW r \in Requests, Arrive(r)
  PROVE  IInv'
  <1>1. Become(r, "try", NoSlot) /\ At(r, "idle") /\ Calm
        /\ UNCHANGED <<slots, wait, server, leaked, robbed, skewed>>
    BY DEF Arrive
  <1>2. req[r].slot = NoSlot
    BY <1>1 DEF IInv, HandlersKnow, Knows, At, OwningPcs
  <1>3. faults' \in 0 .. MaxFaults /\ wait' \in 0 .. MaxWait /\ skewed' \subseteq Upsets
    BY <1>1, FaultBounds, WaitBounds DEF IInv, TypeOK
  <1> QED BY <1>1, <1>2, <1>3, HandlerMoves

\* An id a call may ask for is the handler's own, is not leaked, and is the only one of
\* the handler in the set.
LEMMA AttemptedId ==
  ASSUME IInv, NEW r \in Requests, NEW id \in Attempt(r)
  PROVE  /\ id \in SlotIds /\ id[1] = r /\ id \notin leaked
         /\ \A i \in slots \ leaked : i[1] = r => i = id
  <1>1. \A i \in slots \ leaked : i[1] = r => i = req[r].slot
    BY DEF IInv, SlotsAccountedFor
  <1>2. \A i \in slots : i # NoSlot
    BY NoSlotIsNoId DEF IInv, TypeOK
  <1>3. Knows(r) /\ req[r].slot \in SlotIds \cup {NoSlot} /\ leaked \subseteq slots
    BY DEF IInv, HandlersKnow, TypeOK, ReqType
  <1>4. CASE req[r].slot = NoSlot
    BY <1>1, <1>2, <1>3, <1>4 DEF Attempt, Unused
  <1>5. CASE req[r].slot # NoSlot
    BY <1>1, <1>3, <1>5 DEF Attempt, Knows
  <1> QED BY <1>4, <1>5

LEMMA GrantKeepsLimit ==
  ASSUME IInv, NEW id \in SlotIds, slots' = IF Granted(id) THEN slots \cup {id} ELSE slots
  PROVE  slots' \subseteq SlotIds /\ IsFiniteSet(slots') /\ Cardinality(slots') <= Max
  <1>1. slots \subseteq SlotIds /\ IsFiniteSet(slots) /\ Cardinality(slots) <= Max
        /\ Cardinality(slots) \in Nat
    BY FS_CardinalityType DEF IInv, TypeOK
  <1>2. CASE ~Granted(id) \/ id \in slots
    <2>1. slots' = slots
      BY <1>2
    <2> QED BY <1>1, <2>1
  <1>3. CASE Granted(id) /\ id \notin slots
    <2>1. slots' = slots \cup {id} /\ Cardinality(slots) < Max
      BY <1>3 DEF Granted, Room
    <2>2. IsFiniteSet(slots \cup {id}) /\ Cardinality(slots \cup {id}) = Cardinality(slots) + 1
      BY <1>1, <1>3, FS_AddElement
    <2> QED BY <1>1, <2>1, <2>2, BoundsAssumption
  <1> QED BY <1>2, <1>3

LEMMA AcquireSlotStep ==
  ASSUME IInv, NEW r \in Requests, AcquireSlot(r)
  PROVE  IInv'
  <1>1. PICK id \in Attempt(r) :
          /\ slots' = IF Granted(id) THEN slots \cup {id} ELSE slots
          /\ \/ Calm /\ (IF Granted(id) THEN Got(r, id) ELSE Missed(r))
             \/ Fault /\ Become(r, req[r].pc, id)
    BY DEF AcquireSlot
  <1>2. /\ req[r].pc \in {"try", "wait"} /\ UNCHANGED <<wait, server, leaked, robbed, skewed>>
    BY DEF AcquireSlot
  <1>3. /\ id \in SlotIds /\ id[1] = r /\ id \notin leaked
        /\ \A i \in slots \ leaked : i[1] = r => i = id
    BY AttemptedId
  <1>4. slots' \subseteq SlotIds /\ IsFiniteSet(slots') /\ Cardinality(slots') <= Max
    BY <1>1, <1>3, GrantKeepsLimit
  <1>5. /\ faults' \in 0 .. MaxFaults /\ wait' \in 0 .. MaxWait /\ skewed' \subseteq Upsets
        /\ leaked' \subseteq slots' /\ robbed' \subseteq Requests
    BY <1>1, <1>2, FaultBounds, WaitBounds DEF IInv, TypeOK
  <1>6. \A i \in SlotIds : i[1] # r => /\ (i \in slots' <=> i \in slots)
                                       /\ (i \in leaked' <=> i \in leaked)
    BY <1>1, <1>2, <1>3
  <1>7. \A i \in slots' \ leaked' : i[1] = r => i = id
    BY <1>1, <1>2, <1>3
  <1>8. CASE Calm /\ Granted(id) /\ Got(r, id)
    <2>1. PICK pc \in {"run", "leave"} : Become(r, pc, id)
      BY <1>8 DEF Got
    <2> DEFINE s == [pc |-> pc, slot |-> id]
    <2>2. s \in ReqType /\ s.pc = pc /\ s.slot = id /\ id # NoSlot
      BY <1>3, NoSlotIsNoId DEF ReqType
    <2>3. req' = [req EXCEPT ![r] = s] /\ id \in slots'
      BY <1>1, <1>8, <2>1 DEF Become
    <2>4. s.pc \in OwningPcs
      BY <2>2 DEF OwningPcs
    <2> HIDE DEF s
    <2> QED BY <1>2, <1>3, <1>4, <1>5, <1>6, <1>7, <2>2, <2>3, <2>4, HandlerStep
  <1>9. CASE Calm /\ ~Granted(id) /\ Missed(r)
    <2>1. PICK pc \in {"queue", "idle", "wait"} : Become(r, pc, NoSlot)
      BY <1>9 DEF Missed
    <2>2. slots' = slots /\ leaked' = leaked \cup ({req[r].slot} \cap slots)
      <3>1. id \notin slots
        BY <1>9 DEF Granted
      <3>2. req[r].slot \notin slots
        BY <3>1, NoSlotIsNoId DEF Attempt, IInv, TypeOK
      <3> QED BY <1>1, <1>2, <1>9, <3>2
    <2> QED BY <1>2, <1>5, <2>1, <2>2, HandlerForgets
  <1>10. CASE Fault /\ Become(r, req[r].pc, id)
    <2> DEFINE s == [pc |-> req[r].pc, slot |-> id]
    <2>2. s \in ReqType /\ s.pc = req[r].pc /\ s.slot = id /\ id # NoSlot
      BY <1>2, <1>3, NoSlotIsNoId DEF ReqType
    <2>3. req' = [req EXCEPT ![r] = s]
      BY <1>10 DEF Become
    <2>4. s.pc \in OwningPcs /\ s.pc \notin {"run", "leave"}
      BY <1>2, <2>2 DEF OwningPcs
    <2> HIDE DEF s
    <2> QED BY <1>2, <1>3, <1>4, <1>5, <1>6, <1>7, <2>2, <2>3, <2>4, HandlerStep
  <1> QED BY <1>1, <1>8, <1>9, <1>10

LEMMA AcquireFailsStep ==
  ASSUME IInv, NEW r \in Requests, AcquireFails(r)
  PROVE  IInv'
  <1>1. /\ leaked' = leaked \cup ({req[r].slot} \cap slots) /\ (Calm \/ Fault)
        /\ UNCHANGED <<slots, wait, server, robbed, skewed>>
    BY DEF AcquireFails
  <1>2. PICK pc \in {"idle", "leave"} : Become(r, pc, NoSlot)
    BY DEF AcquireFails, AfterError
  <1>3. faults' \in 0 .. MaxFaults /\ wait' \in 0 .. MaxWait
    BY <1>1, FaultBounds, WaitBounds DEF AcquireFails
  <1> QED BY <1>1, <1>2, <1>3, HandlerForgets

LEMMA StopWaitingStep ==
  ASSUME IInv, NEW r \in Requests, StopWaiting(r)
  PROVE  IInv'
  <1>1. Become(r, "leave", NoSlot) /\ req[r].slot = NoSlot /\ Calm
        /\ UNCHANGED <<slots, wait, server, leaked, robbed, skewed>>
    BY DEF StopWaiting
  <1>2. faults' \in 0 .. MaxFaults /\ wait' \in 0 .. MaxWait /\ skewed' \subseteq Upsets
    BY <1>1, FaultBounds, WaitBounds DEF IInv, TypeOK
  <1> QED BY <1>1, <1>2, HandlerMoves

LEMMA IncrementWaitCountStep ==
  ASSUME IInv, NEW r \in Requests, IncrementWaitCount(r)
  PROVE  IInv'
  <1>1. At(r, "queue") /\ UNCHANGED <<slots, server, leaked, robbed>> /\ (Calm \/ Fault)
    BY DEF IncrementWaitCount
  <1>2. req[r].slot = NoSlot
    BY <1>1 DEF IInv, HandlersKnow, Knows, At, OwningPcs
  <1>3. PICK pc \in {"wait", "idle", "queue"} : Become(r, pc, NoSlot)
    BY DEF IncrementWaitCount
  <1>4. wait' \in 0 .. MaxWait
    BY WaitBounds DEF IncrementWaitCount
  <1>5. skewed' \subseteq Upsets
    BY DEF IncrementWaitCount, Skew, Upsets, IInv, TypeOK
  <1> QED BY <1>1, <1>2, <1>3, <1>4, <1>5, FaultBounds, HandlerMoves

LEMMA DecrementWaitCountStep ==
  ASSUME IInv, NEW r \in Requests, DecrementWaitCount(r)
  PROVE  IInv'
  <1>1. At(r, "leave") /\ UNCHANGED <<slots, server, leaked, robbed>> /\ (Calm \/ Fault)
    BY DEF DecrementWaitCount
  <1>2. wait' \in 0 .. MaxWait
    BY WaitBounds DEF DecrementWaitCount
  <1>3. skewed' \subseteq Upsets
    BY DEF DecrementWaitCount, Skew, Upsets, IInv, TypeOK
  <1>4. CASE UNCHANGED req
    BY <1>1, <1>2, <1>3, <1>4, FaultBounds, QuietStep DEF IInv, TypeOK
  <1>5. CASE AfterQueue(r)
    <2>1. CASE req[r].slot = NoSlot
      <3>1. Become(r, "idle", req[r].slot)
        BY <1>5, <2>1 DEF AfterQueue
      <3> QED BY <1>1, <1>2, <1>3, <2>1, <3>1, FaultBounds, HandlerMoves
    <2>2. CASE req[r].slot # NoSlot
      <3>1. Become(r, "run", req[r].slot) /\ Holds(r)
        BY <1>1, <1>5, <2>2 DEF AfterQueue, Holds, At
      <3>2. "run" \in OwningPcs
        BY DEF OwningPcs
      <3> QED BY <1>1, <1>2, <1>3, <2>2, <3>1, <3>2, FaultBounds, HandlerMoves
    <2> QED BY <2>1, <2>2
  <1> QED BY <1>4, <1>5 DEF DecrementWaitCount

LEMMA ReleaseStep ==
  ASSUME IInv, NEW r \in Requests, Release(r)
  PROVE  IInv'
  <1>1. /\ \/ slots' = slots \ {req[r].slot} /\ leaked' = leaked
           \/ slots' = slots /\ leaked' = leaked \cup ({req[r].slot} \cap slots)
        /\ robbed' = robbed \ {r} /\ UNCHANGED <<wait, server, skewed>> /\ (Calm \/ Fault)
    BY DEF Release, Drop
  <1>2. PICK pc \in {"idle", "drain"} : Become(r, pc, NoSlot)
    BY DEF Release
  <1>3. faults' \in 0 .. MaxFaults /\ wait' \in 0 .. MaxWait
    BY <1>1, FaultBounds, WaitBounds
  <1> QED BY <1>1, <1>2, <1>3, HandlerForgets

LEMMA DrainedStep ==
  ASSUME IInv, NEW r \in Requests, Drained(r)
  PROVE  IInv'
  <1>1. At(r, "drain") /\ Become(r, "idle", NoSlot) /\ Calm
        /\ UNCHANGED <<slots, wait, server, leaked, robbed, skewed>>
    BY DEF Drained
  <1>2. req[r].slot = NoSlot
    BY <1>1 DEF IInv, HandlersKnow, Knows, At, OwningPcs
  <1>3. faults' \in 0 .. MaxFaults /\ wait' \in 0 .. MaxWait /\ skewed' \subseteq Upsets
    BY <1>1, FaultBounds, WaitBounds DEF IInv, TypeOK
  <1> QED BY <1>1, <1>2, <1>3, HandlerMoves

(***************************************************************************)
(* Slots that go under their holders, and servers.                         *)
(***************************************************************************)
LEMMA SlotsGo ==
  ASSUME IInv, NEW gone \in SUBSET slots, Drop(gone), Forget(gone), Robs(gone), UNCHANGED req,
         server' \in [Servers -> {"down", "starting", "up"}],
         wait' \in 0 .. MaxWait, faults' \in 0 .. MaxFaults, skewed' = skewed
  PROVE  IInv'
  <1>1. /\ slots' = slots \ gone /\ leaked' = leaked \ gone
        /\ robbed' = robbed \cup {r \in Requests : Holds(r) /\ req[r].slot \in gone}
    BY DEF Drop, Forget, Robs
  <1>2. IsFiniteSet(slots') /\ Cardinality(slots') <= Max
    <2>1. IsFiniteSet(slots') /\ Cardinality(slots') <= Cardinality(slots)
      BY <1>1, FS_Subset DEF IInv
    <2>2. Cardinality(slots') \in Nat /\ Cardinality(slots) \in Nat
      BY <2>1, FS_CardinalityType DEF IInv
    <2> QED BY <2>1, <2>2, BoundsAssumption DEF IInv, TypeOK
  <1>3. TypeOK'
    BY <1>1, <1>2 DEF IInv, TypeOK
  <1>4. SlotsAccountedFor'
    BY <1>1 DEF IInv, SlotsAccountedFor, At
  <1>5. HandlersKnow'
    BY <1>1 DEF IInv, HandlersKnow, Knows, Holds, At
  <1> QED BY <1>2, <1>3, <1>4, <1>5 DEF IInv

LEMMA SlotExpiresStep ==
  ASSUME IInv, NEW id \in SlotIds, SlotExpires(id)
  PROVE  IInv'
  <1>1. /\ {id} \in SUBSET slots /\ Drop({id}) /\ Forget({id}) /\ Robs({id}) /\ Calm
        /\ UNCHANGED <<wait, req, server, skewed>>
    BY DEF SlotExpires, AtTTL
  <1>2. faults' \in 0 .. MaxFaults /\ wait' \in 0 .. MaxWait
        /\ server' \in [Servers -> {"down", "starting", "up"}]
    BY <1>1, FaultBounds, WaitBounds DEF IInv, TypeOK
  <1> QED BY <1>1, <1>2, SlotsGo

LEMMA CrashStep ==
  ASSUME IInv, NEW s \in Servers, Crash(s)
  PROVE  IInv'
  <1> DEFINE mine == OnServer(s)
  <1>1. /\ slots' = slots /\ wait' = wait /\ robbed' = robbed \ mine
        /\ req' = [r \in Requests |-> IF r \in mine THEN Outside ELSE req[r]]
        /\ leaked' = leaked \cup ({req[r].slot : r \in mine} \cap slots)
        /\ server' = [server EXCEPT ![s] = "down"]
    BY DEF Crash
  <1>2. faults' \in 0 .. MaxFaults
    BY FaultBounds DEF Crash
  <1>3. skewed' \subseteq Upsets
    BY DEF Crash, Skew, Upsets, IInv, TypeOK
  <1>4. Outside \in ReqType /\ Outside.slot = NoSlot /\ Outside.pc = "idle"
    BY DEF Outside, ReqType
  <1>5. mine \subseteq Requests
    BY DEF OnServer
  <1> HIDE DEF mine
  <1>6. TypeOK'
    <2>1. req' \in [Requests -> ReqType]
      BY <1>1, <1>4 DEF IInv, TypeOK
    <2>2. leaked' \subseteq slots'
      BY <1>1 DEF IInv, TypeOK
    <2>3. server' \in [Servers -> {"down", "starting", "up"}]
      BY <1>1 DEF IInv, TypeOK
    <2> QED BY <1>1, <1>2, <1>3, <2>1, <2>2, <2>3 DEF IInv, TypeOK
  <1>7. SlotsAccountedFor'
    <2> SUFFICES ASSUME NEW id \in slots' \ leaked'
                 PROVE  req'[id[1]].slot = id /\ req'[id[1]].pc \in OwningPcs
      BY DEF SlotsAccountedFor, OwningPcs
    <2>1. id[1] \in Requests /\ id \in slots \ leaked
      BY <1>1, OwnerOfSlot DEF IInv, TypeOK
    <2>2. req[id[1]].slot = id /\ req[id[1]].pc \in OwningPcs
      BY <2>1 DEF IInv, SlotsAccountedFor, OwningPcs
    <2>3. id[1] \notin mine
      BY <1>1, <2>1, <2>2
    <2> QED BY <1>1, <2>1, <2>2, <2>3
  <1>8. ASSUME NEW u \in Requests PROVE Knows(u)'
    <2>1. CASE u \in mine
      <3>1. req'[u] = Outside
        BY <1>1, <2>1
      <3> QED BY <1>4, <3>1 DEF Knows, At, Holds
    <2>2. CASE u \notin mine
      <3>1. req'[u] = req[u] /\ Knows(u)
        BY <1>1, <2>2 DEF IInv, HandlersKnow
      <3>2. req[u].slot \in SlotIds => req[u].slot \notin leaked'
        <4>1. ASSUME NEW q \in mine, req[q].slot = req[u].slot, req[u].slot \in SlotIds PROVE FALSE
          <5>1. Knows(q) /\ req[u].slot # NoSlot
            BY <1>5, <4>1, NoSlotIsNoId DEF IInv, HandlersKnow
          <5>2. req[q].slot[1] = q /\ req[u].slot[1] = u
            BY <3>1, <4>1, <5>1 DEF Knows
          <5> QED BY <2>2, <4>1, <5>2
        <4>2. req[u].slot \in SlotIds => req[u].slot \notin leaked
          BY <3>1, NoSlotIsNoId DEF Knows
        <4> QED BY <1>1, <4>1, <4>2
      <3>3. req[u].slot \in SlotIds \cup {NoSlot}
        BY DEF IInv, TypeOK, ReqType
      <3> QED BY <1>1, <2>2, <3>1, <3>2, <3>3 DEF Knows, At, Holds
    <2> QED BY <2>1, <2>2
  <1> QED BY <1>1, <1>6, <1>7, <1>8 DEF IInv, HandlersKnow

LEMMA ServerStep ==
  ASSUME IInv, NEW s \in Servers, SweepSlots(s) \/ SweepWaits(s) \/ SweepFails(s)
  PROVE  IInv'
  <1>1. server' \in [Servers -> {"down", "starting", "up"}]
    BY DEF IInv, TypeOK, SweepSlots, SweepWaits, SweepFails
  <1>2. faults' \in 0 .. MaxFaults
    BY FaultBounds DEF SweepSlots, SweepWaits, SweepFails
  <1>3. wait' \in 0 .. MaxWait
    BY WaitBounds, BoundsAssumption DEF SweepSlots, SweepWaits, SweepFails
  <1>4. CASE SweepSlots(s)
    <2>1. slots \in SUBSET slots /\ Drop(slots) /\ Forget(slots) /\ Robs(slots)
          /\ UNCHANGED <<wait, req, skewed>>
      BY <1>4 DEF SweepSlots
    <2> QED BY <1>1, <1>2, <1>3, <2>1, SlotsGo
  <1>5. CASE SweepWaits(s) \/ SweepFails(s)
    <2>1. UNCHANGED <<slots, req, leaked, robbed>>
      BY <1>5 DEF SweepWaits, SweepFails
    <2>2. skewed' \subseteq Upsets
      BY <1>5 DEF SweepWaits, SweepFails, Upsets, IInv, TypeOK
    <2> QED BY <1>1, <1>2, <1>3, <2>1, <2>2, QuietStep
  <1> QED BY <1>4, <1>5

LEMMA WaitExpiresStep ==
  ASSUME IInv, WaitExpires
  PROVE  IInv'
  <1>1. UNCHANGED <<slots, req, server, leaked, robbed>> /\ Calm /\ wait' = 0 /\ skewed' = {}
    BY DEF WaitExpires, CounterAtTTL
  <1>2. faults' \in 0 .. MaxFaults /\ wait' \in 0 .. MaxWait
        /\ server' \in [Servers -> {"down", "starting", "up"}]
    BY <1>1, FaultBounds, BoundsAssumption DEF IInv, TypeOK
  <1> QED BY <1>1, <1>2, QuietStep

LEMMA StepInv == IInv /\ [Next]_vars => IInv'
  <1> SUFFICES ASSUME IInv, [Next]_vars PROVE IInv'
    OBVIOUS
  <1>1. ASSUME NEW r \in Requests, Arrive(r) \/ Handle(r) PROVE IInv'
    BY <1>1, ArriveStep, AcquireSlotStep, AcquireFailsStep, StopWaitingStep,
       IncrementWaitCountStep, DecrementWaitCountStep, ReleaseStep, DrainedStep DEF Handle
  <1>2. ASSUME NEW id \in SlotIds, SlotExpires(id) PROVE IInv'
    BY <1>2, SlotExpiresStep
  <1>3. ASSUME NEW s \in Servers, Crash(s) \/ SweepSlots(s) \/ SweepWaits(s) \/ SweepFails(s)
        PROVE  IInv'
    BY <1>3, CrashStep, ServerStep
  <1>4. CASE WaitExpires
    BY <1>4, WaitExpiresStep
  <1>5. CASE UNCHANGED vars
    <2>1. UNCHANGED <<slots, wait, req, server, faults, leaked, robbed, skewed>>
      BY <1>5 DEF vars
    <2> QED BY <2>1, QuietStep DEF IInv, TypeOK
  <1> QED BY <1>1, <1>2, <1>3, <1>4, <1>5 DEF Next

THEOREM Invariance == Spec => []IInv
  BY InitInv, StepInv, PTL DEF Spec

\* The set of slots never has more than maxConcurrency members, and the waiting counter
\* stays between zero and the length of the queue.
THEOREM TypeCorrect == Spec => []TypeOK
  BY Invariance, InvImplies, PTL

\* Never do more than maxConcurrency requests run, except those that lost their slot to
\* its TTL or to the start of a server.
THEOREM LimitIsKept == Spec => []RunningWithinLimit
  BY Invariance, InvImplies, PTL

\* A slot is always known to the handler that will release it, or was lost in a failed
\* call or a crash.
THEOREM NoSlotIsForgotten == Spec => []SlotsAccountedFor
  BY Invariance, InvImplies, PTL

(***************************************************************************)
(* The waiting counter.                                                    *)
(***************************************************************************)
Waiters == {r \in Requests : Queued(r)}
WInv == IsFiniteSet(Waiters) /\ WaitersCounted

LEMMA WInitInv == Init => WInv
  <1> SUFFICES ASSUME Init PROVE WInv
    OBVIOUS
  <1>1. Waiters = {}
    BY DEF Init, Waiters, Queued, Outside
  <1> QED BY <1>1, FS_EmptySet DEF Init, WInv, WaitersCounted, Waiters

\* One handler goes from one place to another; the counter follows it, or is skewed.
LEMMA CounterFollows ==
  ASSUME TypeOK, WInv, NEW r \in Requests, NEW pc, NEW slot, Become(r, pc, slot),
         \/ skewed' # {}
         \/ /\ skewed' = skewed
            /\ \/ Queued(r) /\ pc \in {"wait", "leave"} /\ wait' = wait
               \/ ~Queued(r) /\ pc \notin {"wait", "leave"} /\ wait' = wait
               \/ ~Queued(r) /\ pc \in {"wait", "leave"} /\ wait' = wait + 1
               \/ Queued(r) /\ pc \notin {"wait", "leave"} /\ wait' = Less
  PROVE  WInv'
  <1>1. req'[r].pc = pc /\ \A u \in Requests : u # r => req'[u] = req[u]
    BY DEF Become, TypeOK
  <1>2. Waiters' = IF pc \in {"wait", "leave"} THEN Waiters \cup {r} ELSE Waiters \ {r}
    BY <1>1 DEF Waiters, Queued
  <1>3. r \in Waiters <=> Queued(r)
    BY DEF Waiters
  <1>4. /\ IsFiniteSet(Waiters) /\ Cardinality(Waiters) \in Nat
        /\ (skewed = {} => wait = Cardinality(Waiters))
    BY FS_CardinalityType DEF WInv, WaitersCounted, Waiters
  <1>5. /\ IsFiniteSet(Waiters \cup {r}) /\ IsFiniteSet(Waiters \ {r})
        /\ Cardinality(Waiters \cup {r})
              = IF r \in Waiters THEN Cardinality(Waiters) ELSE Cardinality(Waiters) + 1
        /\ Cardinality(Waiters \ {r})
              = IF r \in Waiters THEN Cardinality(Waiters) - 1 ELSE Cardinality(Waiters)
    BY <1>4, FS_AddElement, FS_RemoveElement
  <1>6. Cardinality(Waiters \ {r}) \in Nat
    BY <1>5, FS_CardinalityType
  <1>7. IsFiniteSet(Waiters')
    BY <1>2, <1>5
  <1>8. skewed' = {} => wait' = Cardinality(Waiters')
    <2> SUFFICES ASSUME skewed' = {} PROVE wait' = Cardinality(Waiters')
      OBVIOUS
    <2>1. wait = Cardinality(Waiters)
      BY <1>4
    <2>2. CASE Queued(r) /\ pc \in {"wait", "leave"} /\ wait' = wait
      BY <1>2, <1>3, <1>5, <2>1, <2>2
    <2>5. CASE ~Queued(r) /\ pc \notin {"wait", "leave"} /\ wait' = wait
      BY <1>2, <1>3, <1>5, <2>1, <2>5
    <2>3. CASE ~Queued(r) /\ pc \in {"wait", "leave"} /\ wait' = wait + 1
      BY <1>2, <1>3, <1>5, <2>1, <2>3
    <2>4. CASE Queued(r) /\ pc \notin {"wait", "leave"} /\ wait' = Less
      BY <1>2, <1>3, <1>4, <1>5, <1>6, <2>1, <2>4 DEF Less
    <2> QED BY <2>2, <2>5, <2>3, <2>4
  <1> QED BY <1>7, <1>8 DEF WInv, WaitersCounted, Waiters

\* Nobody moves; the counter stays, or is skewed, or is reset when nobody waits.
LEMMA CounterStays ==
  ASSUME WInv, UNCHANGED req,
         \/ skewed' # {}
         \/ skewed' = skewed /\ wait' = wait
         \/ wait' = 0 /\ Waiters = {}
  PROVE  WInv'
  <1>1. Waiters' = Waiters
    BY DEF Waiters, Queued
  <1>2. Cardinality({}) = 0
    BY FS_EmptySet
  <1> QED BY <1>1, <1>2 DEF WInv, WaitersCounted, Waiters

LEMMA HandlerCounted ==
  ASSUME IInv, WInv, NEW r \in Requests, Arrive(r) \/ Handle(r)
  PROVE  WInv'
  <1>t. TypeOK
    BY DEF IInv
  <1>1. CASE Arrive(r)
    <2>1. Become(r, "try", NoSlot) /\ ~Queued(r) /\ UNCHANGED <<wait, skewed>>
      BY <1>1 DEF Arrive, At, Queued
    <2> QED BY <1>t, <2>1, CounterFollows
  <1>2. CASE AcquireSlot(r)
    <2>1. req[r].pc \in {"try", "wait"} /\ UNCHANGED <<wait, skewed>>
      BY <1>2 DEF AcquireSlot
    <2>2. CASE req[r].pc = "try"
      <3>1. ~Queued(r)
        BY <2>2 DEF Queued
      <3>2. \E pc \in {"run", "queue", "idle", "try"}, slot \in SlotIds \cup {NoSlot} :
              Become(r, pc, slot)
        <4>1. Attempt(r) \subseteq SlotIds \cup {NoSlot}
          BY <1>t DEF Attempt, Unused, TypeOK, ReqType
        <4> QED BY <1>2, <2>2, <4>1 DEF AcquireSlot, Got, Missed, At
      <3> QED BY <1>t, <2>1, <3>1, <3>2, CounterFollows
    <2>3. CASE req[r].pc = "wait"
      <3>1. Queued(r)
        BY <2>3 DEF Queued
      <3>2. \E pc \in {"wait", "leave"}, slot \in SlotIds \cup {NoSlot} : Become(r, pc, slot)
        <4>1. Attempt(r) \subseteq SlotIds \cup {NoSlot}
          BY <1>t DEF Attempt, Unused, TypeOK, ReqType
        <4> QED BY <1>2, <2>3, <4>1 DEF AcquireSlot, Got, Missed, At
      <3> QED BY <1>t, <2>1, <3>1, <3>2, CounterFollows
    <2> QED BY <2>1, <2>2, <2>3
  <1>3. CASE AcquireFails(r)
    <2>1. req[r].pc \in {"try", "wait"} /\ UNCHANGED <<wait, skewed>>
          /\ Become(r, IF At(r, "try") THEN "idle" ELSE "leave", NoSlot)
      BY <1>3 DEF AcquireFails, AfterError
    <2>2. CASE req[r].pc = "try"
      BY <1>t, <2>1, <2>2, CounterFollows DEF At, Queued
    <2>3. CASE req[r].pc = "wait"
      BY <1>t, <2>1, <2>3, CounterFollows DEF At, Queued
    <2> QED BY <2>1, <2>2, <2>3
  <1>4. CASE StopWaiting(r)
    BY <1>t, <1>4, CounterFollows DEF StopWaiting, At, Queued
  <1>5. CASE IncrementWaitCount(r)
    <2>1. ~Queued(r)
      BY <1>5 DEF IncrementWaitCount, At, Queued
    <2>2. \E pc \in {"wait", "idle", "queue"} :
            /\ Become(r, pc, NoSlot)
            /\ \/ skewed' # {}
               \/ skewed' = skewed /\ pc # "wait" /\ wait' = wait
               \/ skewed' = skewed /\ pc = "wait" /\ wait' = wait + 1
      BY <1>5 DEF IncrementWaitCount, Skew
    <2> QED BY <1>t, <2>1, <2>2, CounterFollows
  <1>6. CASE DecrementWaitCount(r)
    <2>1. Queued(r)
      BY <1>6 DEF DecrementWaitCount, At, Queued
    <2>2. CASE UNCHANGED req
      <3>1. skewed' # {}
        <4>1. ~AfterQueue(r)
          <5>1. req'[r].pc = "leave"
            BY <1>6, <2>2 DEF DecrementWaitCount, At
          <5> QED BY <1>t, <5>1 DEF AfterQueue, Become, TypeOK
        <4> QED BY <1>6, <4>1 DEF DecrementWaitCount, Skew
      <3> QED BY <2>2, <3>1, CounterStays
    <2>3. CASE AfterQueue(r) /\ (skewed' # {} \/ (skewed' = skewed /\ wait' = Less))
      <3>1. PICK pc \in {"idle", "run"} : Become(r, pc, req[r].slot)
        BY <2>3 DEF AfterQueue
      <3> QED BY <1>t, <2>1, <2>3, <3>1, CounterFollows
    <2> QED BY <1>6, <2>2, <2>3 DEF DecrementWaitCount, Skew
  <1>7. CASE Release(r)
    <2>1. ~Queued(r) /\ UNCHANGED <<wait, skewed>>
      BY <1>7 DEF Release, At, Queued
    <2>2. \E pc \in {"idle", "drain"} : Become(r, pc, NoSlot)
      BY <1>7 DEF Release
    <2> QED BY <1>t, <2>1, <2>2, CounterFollows
  <1>8. CASE Drained(r)
    BY <1>t, <1>8, CounterFollows DEF Drained, At, Queued
  <1> QED BY <1>1, <1>2, <1>3, <1>4, <1>5, <1>6, <1>7, <1>8 DEF Handle

LEMMA CrashCounted ==
  ASSUME IInv, WInv, NEW s \in Servers, Crash(s)
  PROVE  WInv'
  <1>1. /\ req' = [r \in Requests |-> IF r \in OnServer(s) THEN Outside ELSE req[r]]
        /\ wait' = wait /\ Outside.pc = "idle"
        /\ OnServer(s) \subseteq Requests
    BY DEF Crash, Outside, OnServer
  <1>2. Waiters' = Waiters \ OnServer(s)
    BY <1>1 DEF Waiters, Queued
  <1>3. IsFiniteSet(Waiters')
    BY <1>2, FS_Subset DEF WInv
  <1>4. CASE \E r \in OnServer(s) : Queued(r)
    BY <1>3, <1>4 DEF Crash, Skew, WInv, WaitersCounted
  <1>5. CASE ~\E r \in OnServer(s) : Queued(r)
    <2>1. Waiters' = Waiters
      BY <1>1, <1>2, <1>5 DEF Waiters
    <2>2. skewed' = skewed
      BY <1>5 DEF Crash
    <2> QED BY <1>1, <1>3, <2>1, <2>2 DEF WInv, WaitersCounted, Waiters
  <1> QED BY <1>4, <1>5

LEMMA WStepInv == IInv /\ WInv /\ [Next]_vars => WInv'
  <1> SUFFICES ASSUME IInv, WInv, [Next]_vars PROVE WInv'
    OBVIOUS
  <1>1. ASSUME NEW r \in Requests, Arrive(r) \/ Handle(r) PROVE WInv'
    BY <1>1, HandlerCounted
  <1>2. ASSUME NEW id \in SlotIds, SlotExpires(id) PROVE WInv'
    BY <1>2, CounterStays DEF SlotExpires
  <1>3. ASSUME NEW s \in Servers, SweepSlots(s) \/ SweepFails(s) PROVE WInv'
    BY <1>3, CounterStays DEF SweepSlots, SweepFails
  <1>4. ASSUME NEW s \in Servers, SweepWaits(s) PROVE WInv'
    <2>1. ~Queuing => Waiters = {}
      BY DEF Queuing, Waiters
    <2>2. UNCHANGED req /\ wait' = 0 /\ (Queuing => skewed' # {})
      BY <1>4 DEF SweepWaits
    <2> QED BY <2>1, <2>2, CounterStays
  <1>5. ASSUME NEW s \in Servers, Crash(s) PROVE WInv'
    BY <1>5, CrashCounted
  <1>6. CASE WaitExpires
    <2>1. Waiters = {}
      BY <1>6 DEF WaitExpires, Queuing, Waiters
    <2> QED BY <1>6, <2>1, CounterStays DEF WaitExpires, CounterAtTTL
  <1>7. CASE UNCHANGED vars
    BY <1>7, CounterStays DEF vars
  <1> QED BY <1>1, <1>2, <1>3, <1>4, <1>5, <1>6, <1>7 DEF Next

\* As long as nothing has upset it, the waiting counter is exactly the number of requests in
\* the waiting loop, whatever ends their wait.
THEOREM CounterCounts == Spec => []WaitersCounted
  <1>1. Init => IInv /\ WInv
    BY InitInv, WInitInv
  <1>2. (IInv /\ WInv) /\ [Next]_vars => (IInv /\ WInv)'
    BY StepInv, WStepInv
  <1>3. IInv /\ WInv => WaitersCounted
    BY DEF WInv
  <1> QED BY <1>1, <1>2, <1>3, PTL DEF Spec

=============================================================================
