---------------------- MODULE IdempotencyRecordsProofs ----------------------
(***************************************************************************)
(* The lock: a holder who renews it owns the row, whose lease and life are *)
(* ahead of the clock by what one missing renewal costs (LockKept); so     *)
(* nobody reclaims the row or deletes it.  The coordinator: a call that    *)
(* has executed owns the row for as long as its period lasts (PeriodKept), *)
(* and whoever wants to reclaim the row has read it before that call, or   *)
(* after its period (ReclaimersKnow).  A response is stored with the       *)
(* period of the call that made it (Bodies).                               *)
(***************************************************************************)
EXTENDS IdempotencyRecords, TLAPS

\* Who has claimed the row stays its claimant; nobody executes before.
Settled == {"act", "over"}
Started == \A p \in Clients : proc[p].pc # "idle" => p \in users
Progress == \A p \in Clients :
  /\ proc[p].pc \notin Settled => ran[p] = "no"
  /\ At(p, "act") => ran[p] = "open"
Claimants ==
  /\ owner \in Clients => proc[owner].pc \in Settled
  /\ \A p \in Clients : proc[p].saw \in Clients => proc[proc[p].saw].pc \in Settled

Prompt == "slow" \notin lapses => \A p \in Clients : Claiming(p) => Now(p) = time

\* Who works on a row by its id knows its fingerprint.
Numbered ==
  /\ \A row \in rows : row.id <= ids
  /\ \A p \in Clients : proc[p].id <= ids
  /\ \A p \in Calls, row \in rows :
       proc[p].pc \in {"reclaim", "act"} /\ row.id = proc[p].id => row.print = PrintOf[p]

Due(p) == IF p \in renewed THEN 0 ELSE 1
Sound == lapses \cap {"slow", "unrenewed", "outran"} = {}
LockKept ==
  TTL > 1 /\ Lease > 1 /\ Sound =>
    \A p \in Operations : Renewing(p) =>
      /\ owner = p
      /\ \E row \in rows :
           time + Lease <= row.locked + Due(p) /\ time + TTL <= row.expires + Due(p)

\* The row belongs to a call that has executed, until its period is over.
Current(p) == Executed(p) /\ time < Now(p) + TTL
PeriodKept ==
  lapses = {} =>
    \A p \in Calls : Current(p) =>
      owner = p /\ \E row \in rows : row.status # "failed" /\ Now(p) + TTL <= row.expires

ReclaimersKnow ==
  lapses = {} =>
    \A p \in Calls : At(p, "reclaim") =>
      IF proc[p].late
      THEN \A q \in Calls : q = proc[p].saw /\ Executed(q) => Now(q) + TTL <= Now(p)
      ELSE proc[p].from = "failed"

Answered(row, q) ==
  row.body = q /\ ran[q] = "done" /\ PrintOf[q] = row.print /\ row.expires = Now(q) + TTL
Bodies ==
  users = Calls =>
    \A row \in rows : row.status = "succeeded" =>
      row.locked = Null /\ \E q \in Calls : Answered(row, q)

\* A response whose period is over can be reclaimed by whoever has found it so.
LateSee ==
  lapses = {} =>
    \A p \in Calls, row \in rows : row.status = "succeeded" /\ row.expires <= Now(p) =>
      /\ At(p, "reclaim") /\ proc[p].late => row.id = proc[p].id /\ proc[p].from = "succeeded"
      /\ ~At(p, "latest")

IInv ==
  /\ TypeOK /\ Started /\ Progress /\ Claimants /\ Prompt /\ Numbered
  /\ LockKept /\ PeriodKept /\ ReclaimersKnow /\ Bodies /\ LateSee
  /\ OncePerPeriod /\ ReplayIsCurrent

LEMMA InvImplies == IInv => TypeOK /\ OncePerPeriod /\ ReplayIsCurrent
  BY DEF IInv

LEMMA LockIsExclusive == TTL > 1 /\ Lease > 1 /\ IInv => LockExclusive
  BY DEF IInv, LockKept, Sound, LockExclusive

LEMMA InitInv == Init => IInv
<1> SUFFICES ASSUME Init PROVE IInv
  OBVIOUS
<1>1. /\ rows = {} /\ ids = 0 /\ time = 0 /\ faults = 0 /\ renewed = {} /\ lapses = {}
      /\ owner = Nobody /\ users \in {Calls, Operations}
      /\ \A p \in Clients : proc[p] = Out /\ ran[p] = "no"
      /\ ran = [p \in Clients |-> "no"] /\ proc = [p \in Clients |-> Out]
  BY DEF Init
<1>2. /\ Out.pc = "idle" /\ Out.saw = Nobody /\ Out.now = 0 /\ Out.id = 0 /\ Out.replay = Nothing
  BY DEF Out
<1>3. Out \in Proc
  BY TimesAssumption DEF Out, Proc, Stages, Status
<1>4. TypeOK
  <2>1. ran \in [Clients -> Outcomes] /\ proc \in [Clients -> Proc]
    BY <1>1, <1>3 DEF Outcomes
  <2>2. 0 \in 0 .. MaxTime /\ 0 \in 0 .. MaxFaults
    BY TimesAssumption
  <2>3. \A p \in Clients : proc[p].now <= time
    BY <1>1, <1>2
  <2> QED BY <1>1, <2>1, <2>2, <2>3 DEF TypeOK
<1>5. Started /\ Progress /\ Prompt
  BY <1>1, <1>2 DEF Started, Progress, Prompt, Claiming, At, Settled
<1>6. Claimants
  BY <1>1, <1>2, ClientsAssumption DEF Claimants
<1>7. Numbered /\ LateSee /\ Bodies
  BY <1>1, <1>2 DEF Numbered, LateSee, Bodies
<1>8. LockKept /\ ReclaimersKnow
  BY <1>1, <1>2 DEF LockKept, ReclaimersKnow, At, Renewing, Clients
<1>9. PeriodKept /\ OncePerPeriod /\ ReplayIsCurrent
  BY <1>1, <1>2 DEF PeriodKept, Current, OncePerPeriod, ReplayIsCurrent, Executed, Clients
<1> QED BY <1>4, <1>5, <1>6, <1>7, <1>8, <1>9 DEF IInv

\* What the shapes say of the numbers.
LEMMA Numbers ==
  ASSUME TypeOK
  PROVE  /\ time \in Int /\ Lease \in Int /\ TTL \in Int /\ Lease > 0 /\ TTL > 0 /\ ids \in Int
         /\ \A p \in Clients : Now(p) \in Int /\ 0 <= Now(p) /\ Now(p) <= time /\ proc[p].id \in Int
         /\ \A row \in rows : row.locked \in Int /\ row.expires \in Int /\ row.id \in Int
<1>1. \A p \in Clients : proc[p] \in Proc /\ Now(p) <= time
  BY DEF TypeOK, Now
<1>2. \A p \in Clients : Now(p) \in 0 .. MaxTime /\ proc[p].id \in Nat
  BY <1>1 DEF Proc, Now
<1>3. \A row \in rows : row \in Row
  BY DEF TypeOK
<1>4. \A row \in rows : row.locked \in Int /\ row.expires \in Int /\ row.id \in Int
  BY <1>3, TimesAssumption DEF Row, Far
<1>5. time \in Int /\ ids \in Int
  BY TimesAssumption DEF TypeOK
<1> QED BY <1>1, <1>2, <1>4, <1>5, TimesAssumption

LEMMA BecomeProc ==
  ASSUME TypeOK, NEW p \in Clients, NEW st \in Proc, Become(p, st)
  PROVE  /\ proc' \in [Clients -> Proc] /\ proc'[p] = st
         /\ \A q \in Clients : q # p => proc'[q] = proc[q]
  BY DEF TypeOK, Become

(***************************************************************************)
(* Steps that leave the row alone and execute nothing: a client begins,    *)
(* reads, is refused, or stops.                                            *)
(***************************************************************************)
ReplayFits(p, st) ==
  lapses = {} /\ p \in Calls /\ st.replay # Nothing =>
    \E q \in Calls : /\ st.replay = q
                    /\ ran[q] = "done" /\ PrintOf[q] = PrintOf[p] /\ st.now < Now(q) + TTL

ReclaimFits(p, st) ==
  p \in Calls /\ st.pc = "reclaim" =>
    /\ \A row \in rows : row.id = st.id => row.print = PrintOf[p]
    /\ lapses = {} => IF st.late
                      THEN \A q \in Calls : q = st.saw /\ Executed(q) => Now(q) + TTL <= st.now
                      ELSE st.from = "failed"

LateFits(p, st) ==
  lapses = {} /\ p \in Calls =>
    \A row \in rows : row.status = "succeeded" /\ row.expires <= st.now =>
      /\ st.pc = "reclaim" /\ st.late => row.id = st.id /\ st.from = "succeeded"
      /\ st.pc # "latest"

StageFits(p, st) ==
  /\ p \in users /\ st.pc # "act"
  /\ st.pc \notin Settled => ran[p] = "no"
  /\ proc[p].pc \in Settled => st.pc \in Settled
  /\ st.saw \in Clients => proc[st.saw].pc \in Settled
  /\ "slow" \notin lapses /\ st.pc \in {"create", "get", "latest", "reclaim"} => st.now = time
  /\ proc[p].pc # "idle" => st.now = proc[p].now

Fits(p, st) ==
  /\ st \in Proc /\ st.now <= time /\ st.id <= ids
  /\ StageFits(p, st) /\ ReclaimFits(p, st) /\ LateFits(p, st) /\ ReplayFits(p, st)

\* Whoever has executed began at a time that stays.
LEMMA ExecutedBegan ==
  ASSUME IInv, NEW p \in Clients, ran[p] # "no"
  PROVE  proc[p].pc \in Settled /\ proc[p].pc # "idle"
  BY DEF IInv, Progress, Settled

LEMMA QuietKeeps ==
  ASSUME IInv, NEW p \in Clients, NEW st, Fits(p, st), Become(p, st),
         UNCHANGED <<users, time, rows, ids, ran, owner, lapses>>,
         renewed' \subseteq renewed, \A q \in Clients : q # p /\ q \in renewed => q \in renewed',
         faults' \in 0 .. MaxFaults
  PROVE  IInv'
<1>1. /\ proc' \in [Clients -> Proc] /\ proc'[p] = st
      /\ \A q \in Clients : q # p => proc'[q] = proc[q]
  BY BecomeProc DEF IInv, Fits
<1>2. TypeOK /\ StageFits(p, st) /\ ReclaimFits(p, st) /\ LateFits(p, st) /\ ReplayFits(p, st)
  BY DEF IInv, Fits
<1>3. \A q \in Clients : ran[q] # "no" => Now(q)' = Now(q)
  BY <1>1, <1>2, ExecutedBegan DEF StageFits, Now
<1>4. TypeOK'
  <2>1. \A q \in Clients : proc'[q].now <= time'
    BY <1>1, <1>2 DEF Fits, TypeOK
  <2> QED BY <1>1, <1>2, <2>1 DEF TypeOK
<1>5. Started' /\ Progress'
  BY <1>1, <1>2 DEF IInv, Started, Progress, StageFits, At
<1>6. Claimants'
  BY <1>1, <1>2 DEF IInv, Claimants, StageFits
<1>7. Prompt'
  BY <1>1, <1>2 DEF IInv, Prompt, StageFits, Claiming, Now
<1>8. Numbered'
  <2>1. \A row \in rows : row.id <= ids
    BY DEF IInv, Numbered
  <2>2. \A q \in Clients : proc'[q].id <= ids
    BY <1>1 DEF IInv, Numbered, Fits
  <2>3. ASSUME NEW q \in Calls, NEW row \in rows, row.id = proc'[q].id,
               proc'[q].pc \in {"reclaim", "act"}
        PROVE  row.print = PrintOf[q]
    BY <1>1, <1>2, <2>3 DEF IInv, Numbered, ReclaimFits, StageFits, Clients
  <2> QED BY <2>1, <2>2, <2>3 DEF Numbered
<1>9. LockKept'
  <2>1. ASSUME NEW q \in Operations, Renewing(q)' PROVE Renewing(q) /\ Due(q)' = Due(q)
    BY <1>1, <1>2, <2>1 DEF Renewing, At, StageFits, Due, Clients
  <2> QED BY <2>1 DEF IInv, LockKept, Sound
<1>10. PeriodKept'
  BY <1>3 DEF IInv, PeriodKept, Current, Executed, Clients
<1>11. ReclaimersKnow'
  <2>1. ASSUME NEW q \in Clients, Executed(q) PROVE Now(q)' = Now(q)
    BY <1>3, <2>1 DEF Executed
  <2> QED BY <1>1, <1>2, <2>1 DEF IInv, ReclaimersKnow, ReclaimFits, Executed, At, Now, Clients
<1>12. Bodies'
  BY <1>3 DEF IInv, Bodies, Answered, Clients
<1>13. LateSee'
  BY <1>1, <1>2 DEF IInv, LateSee, LateFits, At, Now, Clients
<1>14. OncePerPeriod'
  BY <1>3 DEF IInv, OncePerPeriod, Executed, Clients
<1>15. ReplayIsCurrent'
  <2> SUFFICES ASSUME lapses = {}, NEW c \in Calls, proc'[c].replay # Nothing
               PROVE  \E q \in Calls :
                        /\ proc'[c].replay = q /\ ran[q] = "done"
                        /\ PrintOf[q] = PrintOf[c] /\ Now(c)' < Now(q)' + TTL
    BY DEF ReplayIsCurrent
  <2>1. PICK q \in Calls : /\ proc'[c].replay = q /\ ran[q] = "done"
                           /\ PrintOf[q] = PrintOf[c] /\ Now(c)' < Now(q) + TTL
    BY <1>1, <1>2 DEF IInv, ReplayIsCurrent, ReplayFits, Now, Clients
  <2> QED BY <1>3, <2>1 DEF Clients
<1> QED BY <1>4, <1>5, <1>6, <1>7, <1>8, <1>9, <1>10, <1>11, <1>12, <1>13, <1>14, <1>15 DEF IInv

LEMMA FaultsBounded ==
  ASSUME IInv, Calm \/ Fault
  PROVE  faults' \in 0 .. MaxFaults
<1>1. faults \in 0 .. MaxFaults
  BY DEF IInv, TypeOK
<1> QED BY <1>1, TimesAssumption DEF Calm, Fault

\* A row has one kind of users.
LEMMA CallsUse ==
  ASSUME IInv, NEW p \in Calls, p \in users
  PROVE  users = Calls
  BY ClientsAssumption DEF IInv, TypeOK

LEMMA BeginKeeps ==
  ASSUME IInv, NEW p \in Clients, Begin(p)
  PROVE  IInv'
<1> DEFINE st == [Out EXCEPT !.pc = "create", !.now = time]
<1>1. /\ st.pc = "create" /\ st.now = time /\ st.id = 0 /\ st.saw = Nobody /\ st.replay = Nothing
      /\ st.from = Unread /\ st.late = FALSE /\ st.ended = FALSE
  BY DEF Out
<1>2. Out \in Proc /\ "create" \in Stages /\ time \in 0 .. MaxTime
  BY TimesAssumption DEF IInv, TypeOK, Out, Proc, Stages
<1>3. st \in Proc
  BY <1>2 DEF Proc
<1>4. Become(p, st) /\ p \in users /\ proc[p].pc = "idle"
  BY DEF Begin, At
<1> HIDE DEF st
<1>5. st.now <= time /\ st.id <= ids
  <2>1. time \in Int /\ ids \in Nat
    BY Numbers DEF IInv, TypeOK
  <2> QED BY <1>1, <2>1
<1>6. StageFits(p, st)
  BY <1>1, <1>4, ClientsAssumption DEF StageFits, Settled, IInv, Progress
<1>7. ReclaimFits(p, st) /\ LateFits(p, st) /\ ReplayFits(p, st)
  BY <1>1 DEF ReclaimFits, LateFits, ReplayFits
<1>8. Fits(p, st)
  BY <1>3, <1>5, <1>6, <1>7 DEF Fits
<1>9. /\ UNCHANGED <<users, time, rows, ids, ran, owner, lapses, renewed>>
      /\ faults' \in 0 .. MaxFaults
  BY FaultsBounded DEF Begin, history
<1> QED BY <1>4, <1>8, <1>9, QuietKeeps

\* A client gives up, or ends.
LEMMA LeaveFits ==
  ASSUME IInv, NEW p \in Clients, proc[p].pc # "idle", NEW st, st = [proc[p] EXCEPT !.pc = "over"]
  PROVE  Fits(p, st)
<1>1. proc[p] \in Proc /\ "over" \in Stages
  BY DEF IInv, TypeOK, Stages
<1>2. /\ st \in Proc /\ st.pc = "over" /\ st.now = proc[p].now /\ st.id = proc[p].id
      /\ st.saw = proc[p].saw /\ st.replay = proc[p].replay
  BY <1>1 DEF Proc
<1>3. st.now <= time /\ st.id <= ids
  BY <1>2 DEF IInv, TypeOK, Numbered
<1>4. StageFits(p, st)
  BY <1>2 DEF StageFits, Settled, IInv, Started, Claimants
<1>5. ReclaimFits(p, st) /\ LateFits(p, st)
  BY <1>2 DEF ReclaimFits, LateFits
<1>6. ReplayFits(p, st)
  BY <1>2 DEF ReplayFits, IInv, ReplayIsCurrent, Now
<1> QED BY <1>2, <1>3, <1>4, <1>5, <1>6 DEF Fits

LEMMA CrashKeeps ==
  ASSUME IInv, NEW p \in Clients, Crash(p)
  PROVE  IInv'
<1> DEFINE st == [proc[p] EXCEPT !.pc = "over"]
<1>1. Become(p, st) /\ proc[p].pc # "idle"
  BY DEF Crash, Leave
<1>2. Fits(p, st)
  BY <1>1, LeaveFits
<1>3. /\ UNCHANGED <<users, time, rows, ids, ran, owner, lapses>>
      /\ renewed' = renewed \ {p} /\ faults' \in 0 .. MaxFaults
  BY FaultsBounded DEF Crash, history
<1> HIDE DEF st
<1> QED BY <1>1, <1>2, <1>3, QuietKeeps

LEMMA LeaveKeeps ==
  ASSUME IInv, NEW p \in Clients, proc[p].pc # "idle", Leave(p), Calm,
         UNCHANGED <<users, time, rows, ids, ran, owner, lapses, renewed>>
  PROVE  IInv'
<1> DEFINE st == [proc[p] EXCEPT !.pc = "over"]
<1>1. Become(p, st) /\ Fits(p, st)
  BY LeaveFits DEF Leave
<1> HIDE DEF st
<1> QED BY <1>1, FaultsBounded, QuietKeeps

\* A claimant that goes on claiming.
LEMMA ClaimantFits ==
  ASSUME IInv, NEW p \in Clients, Claiming(p), NEW st \in Proc, st.now = proc[p].now, st.id <= ids,
         st.pc \in {"get", "latest", "reclaim"}, st.saw \in Clients => proc[st.saw].pc \in Settled
  PROVE  StageFits(p, st) /\ st.now <= time
<1>1. /\ proc[p].pc # "idle" /\ proc[p].pc \notin Settled /\ st.pc \notin Settled /\ st.pc # "act"
      /\ ran[p] = "no" /\ p \in users
  BY DEF Claiming, Settled, IInv, Progress, Started
<1>2. "slow" \notin lapses => st.now = time
  BY DEF IInv, Prompt, Now
<1>3. st.now <= time
  BY DEF IInv, TypeOK
<1> QED BY <1>1, <1>2, <1>3 DEF StageFits

LEMMA GoesOn ==
  ASSUME IInv, NEW p \in Clients, Claiming(p), NEW st, st.saw = proc[p].saw, NEW pc \in {"get", "latest"},
         st = [proc[p] EXCEPT !.pc = pc], Become(p, st), Calm,
         UNCHANGED <<users, time, rows, ids, ran, owner, lapses, renewed>>,
         LateFits(p, st)
  PROVE  IInv'
<1>1. proc[p] \in Proc /\ pc \in Stages
  BY DEF IInv, TypeOK, Stages
<1>2. /\ st \in Proc /\ st.pc = pc /\ st.now = proc[p].now /\ st.id = proc[p].id
      /\ st.replay = proc[p].replay
  BY <1>1 DEF Proc
<1>3. st.id <= ids
  BY <1>2 DEF IInv, Numbered
<1>4. st.saw \in Clients => proc[st.saw].pc \in Settled
  BY DEF IInv, Claimants
<1>5. StageFits(p, st) /\ st.now <= time
  BY <1>2, <1>3, <1>4, ClaimantFits
<1>6. ReclaimFits(p, st) /\ ReplayFits(p, st)
  BY <1>2 DEF ReclaimFits, ReplayFits, IInv, ReplayIsCurrent, Now
<1>7. Fits(p, st)
  BY <1>2, <1>3, <1>5, <1>6 DEF Fits
<1> QED BY <1>7, FaultsBounded, QuietKeeps

LEMMA RefusedKeeps ==
  ASSUME IInv, NEW p \in Clients, At(p, "reclaim"), \A row \in rows : ~Reclaimable(p, row), Calm,
         IF proc[p].late THEN Become(p, [proc[p] EXCEPT !.pc = "latest"]) ELSE Leave(p),
         UNCHANGED <<users, time, rows, ids, ran, owner, lapses, renewed>>
  PROVE  IInv'
<1>1. proc[p].pc = "reclaim" /\ Claiming(p)
  BY DEF At, Claiming
<1>2. CASE ~proc[p].late
  BY <1>1, <1>2, LeaveKeeps
<1>3. CASE proc[p].late
  <2> DEFINE st == [proc[p] EXCEPT !.pc = "latest"]
  <2>1. proc[p] \in Proc
    BY DEF IInv, TypeOK
  <2>2. st.now = proc[p].now /\ st.saw = proc[p].saw /\ Become(p, st)
    BY <1>3, <2>1 DEF Proc
  <2>3. LateFits(p, st)
    <3> SUFFICES ASSUME lapses = {}, p \in Calls, NEW row \in rows, row.status = "succeeded",
                        row.expires <= proc[p].now
                 PROVE  FALSE
      BY <2>2 DEF LateFits
    <3>1. row.id = proc[p].id /\ proc[p].from = "succeeded"
      BY <1>1, <1>3 DEF IInv, LateSee, At, Now
    <3>2. row.locked = Null
      BY <1>1, CallsUse DEF IInv, Bodies, Started
    <3>3. row.locked <= Now(p)
      BY <3>2, Numbers DEF IInv, Null
    <3> QED BY <3>1, <3>3 DEF Reclaimable
  <2>4. st = [proc[p] EXCEPT !.pc = "latest"]
    OBVIOUS
  <2> HIDE DEF st
  <2> QED BY <1>1, <2>2, <2>3, <2>4, GoesOn
<1> QED BY <1>2, <1>3

(***************************************************************************)
(* Reading the row.                                                        *)
(***************************************************************************)
\* Who finds the row worth reclaiming remembers what he saw.
LEMMA ReclaimKeeps ==
  ASSUME IInv, NEW p \in Clients, Claiming(p), NEW row \in rows, NEW late \in BOOLEAN,
         Reclaim(p, row, late), Calm,
         UNCHANGED <<users, time, rows, ids, ran, owner, lapses, renewed>>,
         p \in Calls => row.print = PrintOf[p],
         p \in Calls => IF late THEN row.expires <= Now(p) ELSE row.status = "failed"
  PROVE  IInv'
<1> DEFINE st == [proc[p] EXCEPT !.pc = "reclaim", !.id = row.id, !.from = row.status,
                                 !.late = late, !.saw = owner]
<1>1. /\ proc[p] \in Proc /\ "reclaim" \in Stages /\ row \in Row /\ owner \in Clients \cup {Nobody}
      /\ \A other \in rows : other = row
  BY DEF IInv, TypeOK, Stages
<1>2. row.id \in Nat /\ row.status \in Status
  BY <1>1 DEF Row
<1>3. /\ st \in Proc /\ st.pc = "reclaim" /\ st.id = row.id /\ st.from = row.status
      /\ st.late = late /\ st.saw = owner /\ st.now = Now(p) /\ st.replay = proc[p].replay
  BY <1>1, <1>2 DEF Proc, Now
<1>4. Become(p, st)
  BY DEF Reclaim
<1> HIDE DEF st
<1>5. st.id <= ids /\ (st.saw \in Clients => proc[st.saw].pc \in Settled)
  BY <1>3 DEF IInv, Numbered, Claimants
<1>6. StageFits(p, st) /\ st.now <= time
  BY <1>3, <1>5, ClaimantFits DEF Now
<1>7. ReclaimFits(p, st)
  <2>1. SUFFICES ASSUME p \in Calls
                 PROVE  /\ \A other \in rows : other.id = st.id => other.print = PrintOf[p]
                        /\ lapses = {} =>
                             IF st.late
                             THEN \A q \in Calls : q = st.saw /\ Executed(q) => Now(q) + TTL <= st.now
                             ELSE st.from = "failed"
    BY DEF ReclaimFits
  <2>2. \A other \in rows : other.id = st.id => other.print = PrintOf[p]
    BY <1>1, <2>1
  <2>3. CASE ~late
    BY <1>3, <2>1, <2>2, <2>3
  <2>4. ASSUME late, lapses = {}, NEW q \in Calls, Executed(q)
        PROVE  Now(q) + TTL <= Now(p)
    <3>1. Now(p) = time
      BY <2>4 DEF IInv, Prompt
    <3>2. Now(q) \in Int /\ time \in Int /\ TTL \in Int /\ row.expires \in Int
      BY Numbers DEF IInv, Clients
    <3>3. row.expires <= time
      BY <2>1, <2>4, <3>1
    <3>4. Current(q) => Now(q) + TTL <= row.expires
      BY <1>1, <2>4 DEF IInv, PeriodKept
    <3>5. ~Current(q)
      BY <3>2, <3>3, <3>4 DEF Current
    <3> QED BY <2>4, <3>1, <3>2, <3>5 DEF Current
  <2> QED BY <1>3, <2>2, <2>3, <2>4
<1>8. LateFits(p, st)
  BY <1>1, <1>3 DEF LateFits
<1>9. ReplayFits(p, st)
  BY <1>3 DEF ReplayFits, IInv, ReplayIsCurrent
<1>10. Fits(p, st)
  BY <1>3, <1>5, <1>6, <1>7, <1>8, <1>9 DEF Fits
<1> QED BY <1>4, <1>10, FaultsBounded, QuietKeeps

\* What is replayed was made for the same request, in the same period.
LEMMA ReplayKeeps ==
  ASSUME IInv, NEW p \in Calls, Claiming(p), NEW row \in rows, row.print = PrintOf[p],
         row.status = "succeeded", At(p, "get") => ~Expired(p, row), proc[p].pc \in {"get", "latest"},
         Become(p, [proc[p] EXCEPT !.pc = "over", !.replay = row.body]), Calm,
         UNCHANGED <<users, time, rows, ids, ran, owner, lapses, renewed>>
  PROVE  IInv'
<1> DEFINE left == [proc[p] EXCEPT !.pc = "over"]
           st == [proc[p] EXCEPT !.pc = "over", !.replay = row.body]
<1>1. p \in Clients /\ proc[p] \in Proc /\ row \in Row /\ "over" \in Stages /\ proc[p].pc # "idle"
  BY DEF IInv, TypeOK, Clients, Stages
<1>2. row.body \in Clients \cup {Nobody}
  BY <1>1 DEF Row
<1>3. /\ st \in Proc /\ st.pc = "over" /\ st.now = proc[p].now /\ st.id = proc[p].id
      /\ st.saw = proc[p].saw /\ st.replay = row.body
      /\ left.pc = "over" /\ left.now = proc[p].now /\ left.id = proc[p].id
      /\ left.saw = proc[p].saw
  BY <1>1, <1>2 DEF Proc
<1>4. Fits(p, left)
  BY <1>1, LeaveFits
<1>5. Become(p, st)
  OBVIOUS
<1> HIDE DEF st, left
<1>6. StageFits(p, st) /\ ReclaimFits(p, st) /\ LateFits(p, st) /\ st.now <= time /\ st.id <= ids
  BY <1>3, <1>4 DEF Fits, StageFits, ReclaimFits, LateFits
<1>7. ReplayFits(p, st)
  <2> SUFFICES ASSUME lapses = {}
               PROVE  \E q \in Calls : /\ st.replay = q
                                      /\ ran[q] = "done" /\ PrintOf[q] = PrintOf[p]
                                      /\ st.now < Now(q) + TTL
    BY DEF ReplayFits
  <2>1. PICK q \in Calls : Answered(row, q)
    BY <1>1, CallsUse DEF IInv, Bodies, Started
  <2>2. ~(row.expires <= Now(p))
    BY DEF Expired, IInv, LateSee, At
  <2>3. Now(q) \in Int /\ TTL \in Int /\ Now(p) \in Int /\ row.expires \in Int
    BY <1>1, Numbers DEF IInv, Clients
  <2>4. Now(p) < Now(q) + TTL
    BY <2>1, <2>2, <2>3 DEF Answered
  <2> QED BY <1>3, <2>1, <2>4 DEF Answered, Now
<1>8. Fits(p, st)
  BY <1>3, <1>6, <1>7 DEF Fits
<1> QED BY <1>1, <1>5, <1>8, FaultsBounded, QuietKeeps

LEMMA GetForCallKeeps ==
  ASSUME IInv, NEW p \in Clients, GetForCall(p)
  PROVE  IInv'
<1>1. /\ p \in Calls /\ proc[p].pc \in {"get", "latest"} /\ Calm
      /\ UNCHANGED <<users, time, rows, ids, ran, owner, lapses, renewed>>
  BY DEF GetForCall, history
<1>2. Claiming(p) /\ proc[p].pc # "idle"
  BY <1>1 DEF Claiming
<1>3. CASE Leave(p)
  BY <1>1, <1>2, <1>3, LeaveKeeps
<1>4. ASSUME NEW row \in rows, row.print = PrintOf[p],
             IF At(p, "get") /\ Expired(p, row) THEN Reclaim(p, row, TRUE) ELSE ByStatus(p, row)
      PROVE  IInv'
  <2>1. CASE At(p, "get") /\ Expired(p, row)
    <3>1. Reclaim(p, row, TRUE) /\ row.expires <= Now(p)
      BY <1>4, <2>1 DEF Expired
    <3> QED BY <1>1, <1>2, <1>4, <3>1, ReclaimKeeps
  <2>2. CASE ~(At(p, "get") /\ Expired(p, row))
    <3>1. CASE row.status = "failed" /\ Reclaim(p, row, FALSE)
      BY <1>1, <1>2, <1>4, <3>1, ReclaimKeeps
    <3>2. CASE /\ row.status = "succeeded"
               /\ Become(p, [proc[p] EXCEPT !.pc = "over", !.replay = row.body])
      BY <1>1, <1>2, <1>4, <2>2, <3>2, ReplayKeeps
    <3> QED BY <1>3, <1>4, <2>2, <3>1, <3>2 DEF ByStatus
  <2> QED BY <2>1, <2>2
<1> QED BY <1>3, <1>4 DEF GetForCall

LEMMA GetForLockKeeps ==
  ASSUME IInv, NEW p \in Clients, GetForLock(p)
  PROVE  IInv'
<1>1. /\ p \notin Calls /\ proc[p].pc = "get" /\ Calm
      /\ UNCHANGED <<users, time, rows, ids, ran, owner, lapses, renewed>>
  BY ClientsAssumption DEF GetForLock, history, At
<1>2. Claiming(p) /\ proc[p].pc # "idle"
  BY <1>1 DEF Claiming
<1>3. CASE Leave(p)
  BY <1>1, <1>2, <1>3, LeaveKeeps
<1>4. ASSUME NEW row \in rows, Reclaim(p, row, FALSE) PROVE IInv'
  BY <1>1, <1>2, <1>4, ReclaimKeeps
<1> QED BY <1>3, <1>4 DEF GetForLock

(***************************************************************************)
(* Claiming the row.                                                       *)
(***************************************************************************)
\* The row has gone, or its owner's period or lease is over.
Vacant ==
  /\ TTL > 1 /\ Lease > 1 /\ Sound => \A q \in Operations : ~Renewing(q)
  /\ lapses' = {} => \A q \in Calls : ~Current(q)

\* The claimant executes or holds the lock, or the answer is lost.
Taken(p, st) ==
  \/ /\ st.pc = "act" /\ ran' = [ran EXCEPT ![p] = "open"]
     /\ p \in Operations => p \in renewed'
  \/ st.pc = "over" /\ ran' = ran

LEMMA ClaimKeeps ==
  ASSUME IInv, NEW p \in Clients, Claiming(p), NEW st \in Proc, Become(p, st), Taken(p, st),
         NEW row \in Row, rows' = {row}, row.status = "processing",
         row.locked = Now(p) + Lease, row.expires = Now(p) + TTL,
         \A q \in Calls : (q = p \/ proc[q].pc \in {"reclaim", "act"}) /\ (q # p => row.id = proc[q].id)
                            => row.print = PrintOf[q],
         st.now = proc[p].now, st.saw = proc[p].saw, st.replay = proc[p].replay,
         ids' \in Nat, ids <= ids', row.id <= ids', st.id <= ids',
         Vacant, owner' = p, lapses' \in {lapses, lapses \cup {"raced"}},
         renewed' \subseteq Operations, UNCHANGED <<users, time>>, faults' \in 0 .. MaxFaults
  PROVE  IInv'
<1>1. /\ proc' \in [Clients -> Proc] /\ proc'[p] = st
      /\ \A q \in Clients : q # p => proc'[q] = proc[q]
  BY BecomeProc DEF IInv
<1>2. /\ proc[p].pc # "idle" /\ proc[p].pc \notin Settled /\ ran[p] = "no" /\ p \in users
      /\ st.pc \in Settled
  BY DEF Claiming, Settled, IInv, Progress, Started, Taken
<1>3. /\ ran' \in [Clients -> Outcomes] /\ \A q \in Clients : q # p => ran'[q] = ran[q]
      /\ st.pc = "act" => ran'[p] = "open"
      /\ ran'[p] # "done"
  <2>1. ran \in [Clients -> Outcomes] /\ "open" \in Outcomes
    BY DEF IInv, TypeOK, Outcomes
  <2> QED BY <1>2, <2>1 DEF Taken
<1>4. \A q \in Clients : Now(q)' = Now(q)
  BY <1>1 DEF Now
<1>5. \A q \in Clients : q # p => Executed(q)' = Executed(q)
  BY <1>3 DEF Executed
<1>6. lapses \subseteq lapses' /\ lapses' \subseteq Ways /\ ("slow" \in lapses' => "slow" \in lapses)
  <2>1. lapses \subseteq Ways /\ "raced" \in Ways
    BY DEF IInv, TypeOK, Ways
  <2> QED BY <2>1
<1>7. "slow" \notin lapses => Now(p) = time
  BY DEF IInv, Prompt
<1>8. TypeOK'
  <2>1. \A q \in Clients : proc'[q].now <= time'
    BY <1>1 DEF IInv, TypeOK
  <2>2. rows' \subseteq Row /\ \A r, other \in rows' : r = other
    OBVIOUS
  <2> QED BY <1>1, <1>3, <1>6, <2>1, <2>2 DEF IInv, TypeOK
<1>9. Started' /\ Progress'
  BY <1>1, <1>2, <1>3 DEF IInv, Started, Progress, At
<1>10. Claimants'
  BY <1>1, <1>2 DEF IInv, Claimants
<1>11. Prompt'
  BY <1>1, <1>2, <1>6 DEF IInv, Prompt, Claiming, Now, Settled
<1>12. Numbered'
  <2>1. \A q \in Clients : proc'[q].id <= ids'
    <3>1. \A q \in Clients : proc[q].id <= ids /\ proc[q].id \in Int /\ ids \in Int
      BY Numbers DEF IInv, Numbered
    <3> QED BY <1>1, <3>1
  <2>2. \A q \in Calls : proc'[q].pc \in {"reclaim", "act"} /\ row.id = proc'[q].id => row.print = PrintOf[q]
    BY <1>1 DEF Clients
  <2> QED BY <2>1, <2>2 DEF Numbered
<1>13. LockKept'
  <2> SUFFICES ASSUME TTL > 1, Lease > 1, Sound', NEW q \in Operations, Renewing(q)'
               PROVE  /\ q = p
                      /\ time + Lease <= row.locked + Due(q)' /\ time + TTL <= row.expires + Due(q)'
    BY DEF LockKept
  <2>1. Sound
    BY <1>6 DEF Sound
  <2>2. q = p
    BY <1>1, <2>1 DEF Vacant, Renewing, At, Clients
  <2>3. Due(q)' = 0
    <3>1. st.pc = "act"
      BY <1>1, <2>2 DEF Renewing, At
    <3> QED BY <2>2, <3>1 DEF Taken, Due
  <2>4. Now(p) = time
    BY <1>7, <2>1 DEF Sound
  <2>5. time \in Int /\ Lease \in Int /\ TTL \in Int
    BY Numbers DEF IInv
  <2> QED BY <2>2, <2>3, <2>4, <2>5
<1>14. PeriodKept'
  <2> SUFFICES ASSUME lapses' = {}, NEW q \in Calls, Current(q)'
               PROVE  p = q /\ row.status # "failed" /\ Now(q) + TTL <= row.expires
    BY <1>4 DEF PeriodKept, Clients
  <2>1. q = p
    BY <1>4, <1>5 DEF Vacant, Current, Clients
  <2>2. Now(p) \in Int /\ TTL \in Int
    BY Numbers DEF IInv
  <2> QED BY <2>1, <2>2
<1>15. ReclaimersKnow'
  <2> SUFFICES ASSUME lapses' = {}, NEW c \in Calls, At(c, "reclaim")'
               PROVE  IF proc'[c].late
                      THEN \A q \in Calls : q = proc'[c].saw /\ Executed(q)' => Now(q)' + TTL <= Now(c)'
                      ELSE proc'[c].from = "failed"
    BY DEF ReclaimersKnow
  <2>1. c # p /\ proc'[c] = proc[c] /\ At(c, "reclaim") /\ lapses = {}
    BY <1>1, <1>2, <1>6 DEF At, Settled, Clients
  <2>2. p # proc[c].saw
    BY <1>2 DEF IInv, Claimants, Clients
  <2> QED BY <1>4, <1>5, <2>1, <2>2 DEF IInv, ReclaimersKnow, Clients
<1>16. Bodies' /\ LateSee'
  BY DEF Bodies, LateSee
<1>17. OncePerPeriod'
  <2> SUFFICES ASSUME lapses' = {}, NEW q \in Calls, NEW c \in Calls, q # c, Executed(q)', Executed(c)'
               PROVE  Now(q) + TTL <= Now(c) \/ Now(c) + TTL <= Now(q)
    BY <1>4 DEF OncePerPeriod, Clients
  <2>1. lapses = {}
    BY <1>6
  <2>2. Now(p) = time
    BY <1>7, <2>1
  <2>3. ASSUME NEW d \in Calls, d # p, Executed(d)' PROVE Now(d) + TTL <= Now(p)
    <3>1. ~Current(d) /\ Executed(d)
      BY <1>5, <2>3 DEF Vacant, Clients
    <3>2. Now(d) \in Int /\ time \in Int /\ TTL \in Int
      BY Numbers DEF IInv, Clients
    <3> QED BY <2>2, <3>1, <3>2 DEF Current
  <2>4. CASE q # p /\ c # p
    BY <1>5, <2>1, <2>4 DEF IInv, OncePerPeriod, Clients
  <2> QED BY <2>3, <2>4
<1>18. ReplayIsCurrent'
  <2> SUFFICES ASSUME lapses' = {}, NEW c \in Calls, proc'[c].replay # Nothing
               PROVE  \E q \in Calls :
                        /\ proc'[c].replay = q /\ ran'[q] = "done"
                        /\ PrintOf[q] = PrintOf[c] /\ Now(c)' < Now(q)' + TTL
    BY DEF ReplayIsCurrent
  <2>1. lapses = {} /\ proc'[c].replay = proc[c].replay
    BY <1>1, <1>6 DEF Clients
  <2>2. PICK q \in Calls : /\ proc[c].replay = q /\ ran[q] = "done"
                           /\ PrintOf[q] = PrintOf[c] /\ Now(c) < Now(q) + TTL
    BY <2>1 DEF IInv, ReplayIsCurrent
  <2>3. q # p
    BY <1>2, <2>2
  <2> QED BY <1>3, <1>4, <2>1, <2>2, <2>3 DEF Clients
<1> QED BY <1>8, <1>9, <1>10, <1>11, <1>12, <1>13, <1>14, <1>15, <1>16, <1>17, <1>18 DEF IInv

\* The step of the client who gets the row.
LEMMA TakenState ==
  ASSUME IInv, NEW p \in Clients, Claiming(p), NEW id \in Nat,
         Own(p, id) \/ (Leave(p) /\ UNCHANGED <<renewed, ran>>)
  PROVE  \E st \in Proc : /\ Become(p, st) /\ Taken(p, st)
                          /\ st.now = proc[p].now /\ st.saw = proc[p].saw
                          /\ st.replay = proc[p].replay
                          /\ st.id = id \/ st.id = proc[p].id
                          /\ renewed' \subseteq Operations
<1>1. proc[p] \in Proc /\ "act" \in Stages /\ "over" \in Stages /\ renewed \subseteq Operations
  BY DEF IInv, TypeOK, Stages
<1>2. CASE Own(p, id)
  <2> DEFINE st == [proc[p] EXCEPT !.pc = "act", !.id = id]
  <2>1. /\ st \in Proc /\ st.pc = "act" /\ st.now = proc[p].now /\ st.saw = proc[p].saw
        /\ st.replay = proc[p].replay /\ st.id = id
    BY <1>1 DEF Proc
  <2>2. Become(p, st)
    BY <1>2 DEF Own
  <2> HIDE DEF st
  <2>3. Taken(p, st) /\ renewed' \subseteq Operations
    BY <1>1, <1>2, <2>1 DEF Own, Taken
  <2> QED BY <2>1, <2>2, <2>3
<1>3. CASE Leave(p) /\ UNCHANGED <<renewed, ran>>
  <2> DEFINE st == [proc[p] EXCEPT !.pc = "over"]
  <2>1. /\ st \in Proc /\ st.pc = "over" /\ st.now = proc[p].now /\ st.saw = proc[p].saw
        /\ st.replay = proc[p].replay /\ st.id = proc[p].id
    BY <1>1 DEF Proc
  <2>2. Become(p, st)
    BY <1>3 DEF Leave
  <2> HIDE DEF st
  <2>3. Taken(p, st) /\ renewed' \subseteq Operations
    BY <1>1, <1>3, <2>1 DEF Taken
  <2> QED BY <2>1, <2>2, <2>3
<1> QED BY <1>2, <1>3

LEMMA ClaimedRow ==
  ASSUME IInv, NEW p \in Clients, NEW id \in Nat, NEW print \in Prints, NEW body \in Clients \cup {Nobody},
         NEW row, row = Claimed(p, id, print, body)
  PROVE  /\ row \in Row /\ row.id = id /\ row.status = "processing" /\ row.print = print
         /\ row.locked = Now(p) + Lease /\ row.expires = Now(p) + TTL
<1>1. "processing" \in Status
  BY DEF Status
<1>2. Now(p) + Lease \in 0 .. Far /\ Now(p) + TTL \in 0 .. Far
  <2>1. Now(p) \in Int /\ 0 <= Now(p) /\ Now(p) <= time
    BY Numbers DEF IInv
  <2>2. time \in 0 .. MaxTime
    BY DEF IInv, TypeOK
  <2> QED BY <2>1, <2>2, TimesAssumption DEF Far
<1> QED BY <1>1, <1>2 DEF Claimed, Row

LEMMA CreateProcessingKeeps ==
  ASSUME IInv, NEW p \in Clients, CreateProcessing(p)
  PROVE  IInv'
<1>1. proc[p].pc = "create" /\ Claiming(p) /\ UNCHANGED <<users, time, lapses>>
  BY DEF CreateProcessing, At, Claiming
<1>2. CASE Conflicts(p)
  <2> DEFINE st == [proc[p] EXCEPT !.pc = "get"]
  <2>1. /\ Calm /\ Become(p, st)
        /\ UNCHANGED <<users, time, rows, ids, ran, owner, lapses, renewed>>
    BY <1>2 DEF CreateProcessing
  <2>2. st.pc = "get" /\ st.saw = proc[p].saw
    BY DEF IInv, TypeOK, Proc
  <2>3. LateFits(p, st)
    BY <2>2 DEF LateFits
  <2>4. st = [proc[p] EXCEPT !.pc = "get"]
    OBVIOUS
  <2> HIDE DEF st
  <2> QED BY <1>1, <2>1, <2>2, <2>3, <2>4, GoesOn
<1>3. CASE ~Conflicts(p)
  <2> DEFINE row == Claimed(p, ids + 1, PrintOf[p], Nobody)
  <2>1. rows = {} /\ ids' = ids + 1 /\ rows' = {row} /\ owner' = p
    BY <1>3 DEF CreateProcessing, Conflicts
  <2>2. /\ Own(p, ids + 1) \/ (Leave(p) /\ UNCHANGED <<renewed, ran>>)
        /\ faults' \in 0 .. MaxFaults
    BY <1>3, FaultsBounded DEF CreateProcessing
  <2>3. ids \in Nat /\ ids + 1 \in Nat /\ PrintOf[p] \in Prints
    BY DEF IInv, TypeOK, Prints
  <2>4. row = Claimed(p, ids + 1, PrintOf[p], Nobody)
    OBVIOUS
  <2> HIDE DEF row
  <2>5. /\ row \in Row /\ row.id = ids + 1 /\ row.status = "processing" /\ row.print = PrintOf[p]
        /\ row.locked = Now(p) + Lease /\ row.expires = Now(p) + TTL
    BY <2>3, <2>4, ClaimedRow
  <2>6. PICK st \in Proc : /\ Become(p, st) /\ Taken(p, st)
                           /\ st.now = proc[p].now /\ st.saw = proc[p].saw
                           /\ st.replay = proc[p].replay
                           /\ st.id = ids + 1 \/ st.id = proc[p].id
                           /\ renewed' \subseteq Operations
    BY <1>1, <2>2, <2>3, TakenState
  <2>7. \A q \in Clients : proc[q].id <= ids /\ proc[q].id \in Int
    BY Numbers DEF IInv, Numbered
  <2>8. ids' \in Nat /\ ids <= ids' /\ row.id <= ids' /\ st.id <= ids'
    BY <2>1, <2>3, <2>5, <2>6, <2>7
  <2>9. \A q \in Clients : row.id # proc[q].id
    BY <2>3, <2>5, <2>7
  <2>10. Vacant
    BY <1>1, <2>1 DEF Vacant, IInv, LockKept, PeriodKept
  <2> QED BY <1>1, <2>1, <2>2, <2>5, <2>6, <2>8, <2>9, <2>10, ClaimKeeps DEF Clients
<1> QED BY <1>2, <1>3

LEMMA TryReclaimKeeps ==
  ASSUME IInv, NEW p \in Clients, TryReclaim(p)
  PROVE  IInv'
<1>1. At(p, "reclaim") /\ proc[p].pc = "reclaim" /\ Claiming(p) /\ UNCHANGED <<users, time, ids>>
  BY DEF TryReclaim, At, Claiming
<1>2. CASE /\ \A row \in rows : ~Reclaimable(p, row)
           /\ IF proc[p].late THEN Become(p, [proc[p] EXCEPT !.pc = "latest"]) ELSE Leave(p)
           /\ Calm /\ UNCHANGED <<rows, renewed, owner, ran, lapses>>
  BY <1>1, <1>2, RefusedKeeps
<1>3. ASSUME NEW old \in rows, Reclaimable(p, old),
             rows' = {Claimed(p, old.id, old.print, old.body)}, owner' = p,
             Lapse("raced", owner # proc[p].saw),
             Calm \/ Fault, Own(p, old.id) \/ (Leave(p) /\ UNCHANGED <<renewed, ran>>)
      PROVE  IInv'
  <2> DEFINE row == Claimed(p, old.id, old.print, old.body)
  <2>1. /\ old \in Row /\ ids \in Nat /\ \A other \in rows : other = old
    BY DEF IInv, TypeOK
  <2>2. old.id \in Nat /\ old.print \in Prints /\ old.body \in Clients \cup {Nobody}
    BY <2>1 DEF Row
  <2>3. row = Claimed(p, old.id, old.print, old.body) /\ rows' = {row}
    BY <1>3
  <2> HIDE DEF row
  <2>4. /\ row \in Row /\ row.id = old.id /\ row.status = "processing" /\ row.print = old.print
        /\ row.locked = Now(p) + Lease /\ row.expires = Now(p) + TTL
    BY <2>2, <2>3, ClaimedRow
  <2>5. PICK st \in Proc : /\ Become(p, st) /\ Taken(p, st)
                           /\ st.now = proc[p].now /\ st.saw = proc[p].saw
                           /\ st.replay = proc[p].replay
                           /\ st.id = old.id \/ st.id = proc[p].id
                           /\ renewed' \subseteq Operations
    BY <1>1, <1>3, <2>2, TakenState
  <2>6. old.id <= ids /\ proc[p].id <= ids
    BY DEF IInv, Numbered
  <2>7. \A q \in Calls : (q = p \/ proc[q].pc \in {"reclaim", "act"}) /\ (q # p => row.id = proc[q].id)
                           => row.print = PrintOf[q]
    BY <1>1, <1>3, <2>4 DEF IInv, Numbered, Reclaimable
  <2>8. /\ old.status = proc[p].from /\ old.locked <= Now(p) /\ Now(p) <= time
        /\ Now(p) \in Int /\ time \in Int /\ old.locked \in Int /\ TTL \in Int /\ Lease \in Int
    BY <1>3, Numbers DEF IInv, Reclaimable
  <2>9. lapses' \in {lapses, lapses \cup {"raced"}}
    BY <1>3 DEF Lapse
  <2>10. TTL > 1 /\ Lease > 1 /\ Sound => \A q \in Operations : ~Renewing(q)
    <3> SUFFICES ASSUME TTL > 1, Lease > 1, Sound, NEW q \in Operations, Renewing(q) PROVE FALSE
      OBVIOUS
    <3>1. time + Lease <= old.locked + Due(q)
      BY <2>1 DEF IInv, LockKept
    <3>2. Due(q) = 0 \/ Due(q) = 1
      BY DEF Due
    <3> QED BY <2>8, <3>1, <3>2
  <2>11. lapses' = {} => \A q \in Calls : ~Current(q)
    <3> SUFFICES ASSUME lapses' = {}, NEW q \in Calls, Current(q) PROVE FALSE
      OBVIOUS
    <3>1. lapses = {} /\ owner = proc[p].saw
      BY <1>3 DEF Lapse
    <3>2. owner = q /\ old.status # "failed"
      BY <2>1, <3>1 DEF IInv, PeriodKept
    <3>3. q \in users /\ q \in Clients
      BY ExecutedBegan DEF IInv, Started, Current, Executed, Clients
    <3>4. p \in Calls
      BY <1>1, <3>3, CallsUse DEF IInv, Started
    <3>5. Now(q) + TTL <= Now(p)
      BY <1>1, <2>8, <3>1, <3>2, <3>4 DEF IInv, ReclaimersKnow, Current
    <3>6. Now(q) \in Int
      BY <3>3, Numbers DEF IInv
    <3> QED BY <2>8, <3>5, <3>6 DEF Current
  <2>12. faults' \in 0 .. MaxFaults
    BY <1>3, FaultsBounded
  <2>13. ids' \in Nat /\ ids <= ids' /\ row.id <= ids' /\ st.id <= ids'
    BY <1>1, <2>1, <2>4, <2>5, <2>6
  <2>14. Vacant
    BY <2>10, <2>11 DEF Vacant
  <2> QED BY <1>1, <1>3, <2>3, <2>4, <2>5, <2>7, <2>9, <2>12, <2>13, <2>14, ClaimKeeps
<1>4. CASE \E old \in rows :
             /\ Reclaimable(p, old)
             /\ rows' = {Claimed(p, old.id, old.print, old.body)}
             /\ owner' = p
             /\ Lapse("raced", owner # proc[p].saw)
             /\ \/ Calm /\ Own(p, old.id)
                \/ Fault /\ Leave(p) /\ UNCHANGED <<renewed, ran>>
  BY <1>3, <1>4
<1> QED BY <1>2, <1>4 DEF TryReclaim

(***************************************************************************)
(* Marking the row.                                                        *)
(***************************************************************************)
\* What a mark makes of a row.
MarkedRow(p, outcome, old, new) ==
  /\ new \in Row /\ new.id = old.id /\ new.print = old.print
  /\ outcome = "done" =>
       /\ new.status = "succeeded" /\ new.locked = Null /\ new.body = p
       /\ p \in Calls => new.expires = Now(p) + TTL
  /\ outcome = "failed" => new.status = "failed"

LEMMA MarkedRowIs ==
  ASSUME IInv, NEW p \in Clients, NEW old \in rows
  PROVE  /\ MarkedRow(p, "done", old, Succeeded(p, old))
         /\ MarkedRow(p, "failed", old, FailedRetryable(p, old))
<1>1. old \in Row /\ "succeeded" \in Status /\ "failed" \in Status
  BY DEF IInv, TypeOK, Status
<1>2. Now(p) \in Int /\ 0 <= Now(p) /\ Now(p) <= time
  BY Numbers DEF IInv
<1>3. time \in 0 .. MaxTime
  BY DEF IInv, TypeOK
<1>4. Expiry(p) \in 0 .. Far /\ (p \in Calls => Expiry(p) = Now(p) + TTL)
  <2>1. CASE p \in Calls
    BY <1>2, <1>3, <2>1, TimesAssumption DEF Expiry, Far
  <2>2. CASE p \notin Calls
    BY <1>3, <2>2, TimesAssumption DEF Expiry, Far
  <2> QED BY <2>1, <2>2
<1>5. 0 \in 0 .. Far
  BY TimesAssumption DEF Far
<1>6. MarkedRow(p, "done", old, Succeeded(p, old))
  BY <1>1, <1>4, <1>5 DEF MarkedRow, Succeeded, Row, Null
<1>7. MarkedRow(p, "failed", old, FailedRetryable(p, old))
  <2> DEFINE until == time + IF p \in Calls THEN Backoff ELSE 0
  <2>1. until \in 0 .. Far
    BY <1>3, TimesAssumption DEF Far
  <2>2. FailedRetryable(p, old) =
          [old EXCEPT !.status = "failed", !.expires = Expiry(p), !.locked = until]
    BY DEF FailedRetryable
  <2> HIDE DEF until
  <2> QED BY <1>1, <1>4, <2>1, <2>2 DEF MarkedRow, Row
<1> QED BY <1>6, <1>7

LEMMA MarkRows ==
  ASSUME IInv, NEW p \in Clients, NEW outcome \in {"done", "failed"}, Mark(p, outcome)
  PROVE  \/ rows' = rows /\ lapses' \in {lapses, lapses \cup {"outran"}}
         \/ \E old \in rows : \E new :
              /\ old.id = proc[p].id /\ rows' = {new} /\ MarkedRow(p, outcome, old, new)
              /\ lapses' = IF Outrun(p) THEN lapses \cup {"outran"} ELSE lapses
<1> DEFINE mine == {row \in rows : row.id = proc[p].id}
           After(row) == IF outcome = "done" THEN Succeeded(p, row) ELSE FailedRetryable(p, row)
           marked == {After(row) : row \in mine}
<1>1. rows' = rows \/ (mine # {} /\ rows' = marked)
  BY DEF Mark
<1>2. lapses' = IF mine # {} /\ Outrun(p) THEN lapses \cup {"outran"} ELSE lapses
  BY DEF Mark, Lapse
<1>3. CASE rows' = rows
  BY <1>2, <1>3
<1>4. CASE mine # {} /\ rows' = marked
  <2>1. PICK old \in rows : old.id = proc[p].id
    BY <1>4
  <2>2. \A other \in rows : other = old
    BY DEF IInv, TypeOK
  <2>3. mine = {old}
    BY <2>1, <2>2
  <2>4. marked = {After(old)}
    BY <2>3
  <2>5. MarkedRow(p, outcome, old, After(old))
    BY MarkedRowIs
  <2> HIDE DEF mine, marked, After
  <2> QED BY <1>2, <1>4, <2>1, <2>4, <2>5
<1> QED BY <1>1, <1>3, <1>4

LEMMA MarkKeeps ==
  ASSUME IInv, NEW p \in Clients, NEW outcome \in {"done", "failed"}, Mark(p, outcome)
  PROVE  IInv'
<1> DEFINE st == [proc[p] EXCEPT !.pc = "over"]
<1>1. proc[p].pc = "act" /\ p \in users /\ ran[p] = "open"
  BY DEF Mark, At, IInv, Started, Progress
<1>2. proc[p] \in Proc /\ "over" \in Stages
  BY DEF IInv, TypeOK, Stages
<1>3. /\ st \in Proc /\ st.pc = "over" /\ st.now = proc[p].now /\ st.saw = proc[p].saw
      /\ st.replay = proc[p].replay /\ st.id = proc[p].id
  BY <1>2 DEF Proc
<1>4. Become(p, st) /\ UNCHANGED <<users, time, ids, owner>> /\ renewed' = renewed \ {p}
  BY DEF Mark, Leave
<1> HIDE DEF st
<1>5. /\ proc' \in [Clients -> Proc] /\ proc'[p] = st
      /\ \A q \in Clients : q # p => proc'[q] = proc[q]
  BY <1>3, <1>4, BecomeProc DEF IInv
<1>6. \A q \in Clients : Now(q)' = Now(q)
  BY <1>3, <1>5 DEF Now
<1>7. /\ ran' \in [Clients -> Outcomes] /\ ran'[p] = outcome
      /\ \A q \in Clients : q # p => ran'[q] = ran[q]
  <2>1. ran \in [Clients -> Outcomes] /\ outcome \in Outcomes
    BY DEF IInv, TypeOK, Outcomes
  <2> QED BY <2>1 DEF Mark
<1>8. \A q \in Clients : Executed(q)' => Executed(q)
  BY <1>1, <1>7 DEF Executed
<1>9. \A q \in Clients : ran[q] = "done" => ran'[q] = "done"
  BY <1>1, <1>7
<1>10. lapses \subseteq lapses' /\ lapses' \subseteq Ways /\ ("slow" \in lapses' => "slow" \in lapses)
  <2>1. lapses \subseteq Ways /\ "outran" \in Ways
    BY DEF IInv, TypeOK, Ways
  <2> QED BY <2>1, MarkRows
\* Whoever marks a row that is his has not lost it.
<1>11. ASSUME NEW old \in rows, NEW new, MarkedRow(p, outcome, old, new),
              lapses' = IF Outrun(p) THEN lapses \cup {"outran"} ELSE lapses,
              "outran" \notin lapses'
       PROVE  /\ p \in Calls => Executed(p) /\ Current(p) /\ time < Now(p) + TTL
              /\ p \notin Calls => owner = p
  <2>1. ~Outrun(p)
    BY <1>11
  <2>2. Now(p) \in Int /\ TTL \in Int /\ time \in Int
    BY Numbers DEF IInv
  <2>3. p \in Calls => time < Now(p) + TTL
    BY <2>1, <2>2 DEF Outrun
  <2> QED BY <1>1, <2>1, <2>3 DEF Outrun, Current, Executed
<1>12. TypeOK'
  <2>1. \A q \in Clients : proc'[q].now <= time'
    BY <1>4, <1>5, <1>6 DEF IInv, TypeOK, Now
  <2>2. rows' \subseteq Row /\ \A r, other \in rows' : r = other
    BY MarkRows DEF IInv, TypeOK, MarkedRow
  <2>3. faults' \in 0 .. MaxFaults
    BY FaultsBounded DEF Mark
  <2>4. renewed' \subseteq Operations
    BY <1>4 DEF IInv, TypeOK
  <2> QED BY <1>4, <1>5, <1>7, <1>10, <2>1, <2>2, <2>3, <2>4 DEF IInv, TypeOK
<1>13. Started' /\ Progress'
  BY <1>1, <1>3, <1>4, <1>5, <1>7 DEF IInv, Started, Progress, At, Settled
<1>14. Claimants'
  BY <1>3, <1>4, <1>5 DEF IInv, Claimants, Settled
<1>15. Prompt'
  BY <1>3, <1>4, <1>5, <1>10 DEF IInv, Prompt, Claiming, Now
<1>16. Numbered'
  <2>1. \A q \in Clients : proc'[q].id = proc[q].id
    BY <1>3, <1>5
  <2>2. \A row \in rows' : \E old \in rows : row.id = old.id /\ row.print = old.print
    BY MarkRows DEF MarkedRow
  <2>3. \A q \in Calls : proc'[q].pc \in {"reclaim", "act"} => proc[q].pc \in {"reclaim", "act"}
    BY <1>3, <1>5 DEF Clients
  <2>4. \A q \in Calls : q \in Clients
    BY DEF Clients
  <2> QED BY <1>4, <2>1, <2>2, <2>3, <2>4 DEF IInv, Numbered
<1>17. LockKept'
  <2> SUFFICES ASSUME TTL > 1, Lease > 1, Sound', NEW q \in Operations, Renewing(q)'
               PROVE  /\ owner = q
                      /\ \E row \in rows' :
                           time + Lease <= row.locked + Due(q)' /\ time + TTL <= row.expires + Due(q)'
    BY <1>4 DEF LockKept
  <2>1. Sound /\ "outran" \notin lapses'
    BY <1>10 DEF Sound
  <2>2. q # p /\ Renewing(q) /\ Due(q)' = Due(q) /\ q \in Clients
    BY <1>3, <1>4, <1>5 DEF Renewing, At, Due, Clients
  <2>3. owner = q /\ \E row \in rows :
                       time + Lease <= row.locked + Due(q) /\ time + TTL <= row.expires + Due(q)
    BY <2>1, <2>2 DEF IInv, LockKept
  <2>4. p \notin Calls
    <3>1. q \in users
      BY <2>2 DEF Renewing, At, IInv, Started
    <3> QED BY <1>1, <3>1, CallsUse, ClientsAssumption
  <2>5. rows' = rows
    BY <1>11, <2>1, <2>2, <2>3, <2>4, MarkRows
  <2> QED BY <2>2, <2>3, <2>5
<1>18. ASSUME lapses' = {}, NEW q \in Calls, Current(q)', q # p
       PROVE  rows' = rows
  <2>1. lapses = {} /\ q \in Clients /\ Current(q)
    BY <1>4, <1>6, <1>8, <1>10, <1>18 DEF Current, Clients
  <2>2. owner = q
    BY <2>1 DEF IInv, PeriodKept
  <2>3. q \in users
    BY <2>1, ExecutedBegan DEF Current, Executed, IInv, Started
  <2>4. p \in Calls
    BY <1>1, <2>3, CallsUse
  <2>5. ~Current(p)
    BY <1>18, <2>1, <2>2, <2>4 DEF IInv, PeriodKept
  <2> QED BY <1>11, <1>18, <2>4, <2>5, MarkRows
<1>19. PeriodKept'
  <2> SUFFICES ASSUME lapses' = {}, NEW q \in Calls, Current(q)'
               PROVE  owner = q /\ \E row \in rows' : row.status # "failed" /\ Now(q) + TTL <= row.expires
    BY <1>4, <1>6 DEF PeriodKept, Clients
  <2>1. Current(q) /\ lapses = {}
    BY <1>4, <1>6, <1>8, <1>10 DEF Current, Clients
  <2>2. owner = q /\ \E row \in rows : row.status # "failed" /\ Now(q) + TTL <= row.expires
    BY <2>1 DEF IInv, PeriodKept
  <2>3. CASE rows' = rows
    BY <2>2, <2>3
  <2>4. CASE rows' # rows
    <3>1. q = p
      BY <1>18, <2>4
    <3>2. outcome = "done"
      BY <1>7, <3>1 DEF Current, Executed
    <3>3. PICK new : rows' = {new} /\ new.status = "succeeded" /\ new.expires = Now(p) + TTL
      BY <2>4, <3>1, <3>2, MarkRows DEF MarkedRow
    <3>4. Now(p) \in Int /\ TTL \in Int
      BY Numbers DEF IInv
    <3> QED BY <2>2, <3>1, <3>3, <3>4
  <2> QED BY <2>3, <2>4
<1>20. ReclaimersKnow'
  <2> SUFFICES ASSUME lapses' = {}, NEW c \in Calls, At(c, "reclaim")'
               PROVE  IF proc'[c].late
                      THEN \A q \in Calls : q = proc'[c].saw /\ Executed(q)' => Now(q)' + TTL <= Now(c)'
                      ELSE proc'[c].from = "failed"
    BY DEF ReclaimersKnow
  <2>1. proc'[c] = proc[c] /\ At(c, "reclaim") /\ lapses = {}
    BY <1>3, <1>5, <1>10 DEF At, Clients
  <2> QED BY <1>6, <1>8, <2>1 DEF IInv, ReclaimersKnow, Clients
<1>21. Bodies'
  <2> SUFFICES ASSUME users = Calls, NEW row \in rows', row.status = "succeeded"
               PROVE  row.locked = Null /\ \E q \in Calls : Answered(row, q)'
    BY <1>4 DEF Bodies
  <2>1. CASE row \in rows
    BY <1>6, <1>9, <2>1 DEF IInv, Bodies, Answered, Clients
  <2>2. CASE row \notin rows
    <3>1. PICK old \in rows : old.id = proc[p].id /\ MarkedRow(p, outcome, old, row)
      BY <2>2, MarkRows
    <3>2. outcome = "done" /\ p \in Calls
      BY <1>1, <3>1 DEF MarkedRow
    <3>3. row.print = PrintOf[p]
      BY <1>1, <3>1, <3>2 DEF MarkedRow, IInv, Numbered
    <3>4. Answered(row, p)'
      BY <1>6, <1>7, <3>1, <3>2, <3>3 DEF MarkedRow, Answered
    <3> QED BY <3>1, <3>2, <3>4 DEF MarkedRow
  <2> QED BY <2>1, <2>2
<1>22. LateSee'
  <2> SUFFICES ASSUME lapses' = {}, NEW c \in Calls, NEW row \in rows', row.status = "succeeded",
                      row.expires <= Now(c), proc'[c].pc \in {"reclaim", "latest"}
               PROVE  /\ proc'[c].pc = "reclaim" /\ proc'[c].late
                           => row.id = proc'[c].id /\ proc'[c].from = "succeeded"
                      /\ proc'[c].pc # "latest"
    BY <1>6 DEF LateSee, At, Clients
  <2>1. c \in Clients /\ c # p /\ proc'[c] = proc[c] /\ lapses = {}
    BY <1>3, <1>5, <1>10 DEF Clients
  <2>2. p \in Calls
    BY <1>1, <2>1, CallsUse DEF IInv, Started
  <2>3. row \in rows
    <3> SUFFICES ASSUME row \notin rows PROVE FALSE
      OBVIOUS
    <3>1. PICK old \in rows : /\ MarkedRow(p, outcome, old, row)
                              /\ lapses' = IF Outrun(p) THEN lapses \cup {"outran"} ELSE lapses
      BY MarkRows
    <3>2. time < Now(p) + TTL
      BY <1>11, <2>2, <3>1
    <3>3. row.expires = Now(p) + TTL
      BY <2>2, <3>1 DEF MarkedRow
    <3>4. Now(c) <= time /\ Now(c) \in Int /\ Now(p) \in Int /\ TTL \in Int /\ time \in Int
      BY <2>1, Numbers DEF IInv
    <3> QED BY <3>2, <3>3, <3>4
  <2> QED BY <2>1, <2>3 DEF IInv, LateSee, At
<1>23. OncePerPeriod'
  BY <1>6, <1>8, <1>10 DEF IInv, OncePerPeriod, Clients
<1>24. ReplayIsCurrent'
  <2> SUFFICES ASSUME lapses' = {}, NEW c \in Calls, proc'[c].replay # Nothing
               PROVE  \E q \in Calls :
                        /\ proc'[c].replay = q /\ ran'[q] = "done"
                        /\ PrintOf[q] = PrintOf[c] /\ Now(c)' < Now(q)' + TTL
    BY DEF ReplayIsCurrent
  <2>1. lapses = {} /\ proc'[c].replay = proc[c].replay
    BY <1>3, <1>5, <1>10 DEF Clients
  <2> QED BY <1>6, <1>9, <2>1 DEF IInv, ReplayIsCurrent, Clients
<1> QED BY <1>12, <1>13, <1>14, <1>15, <1>16, <1>17, <1>19, <1>20, <1>21, <1>22, <1>23, <1>24 DEF IInv

(***************************************************************************)
(* Expiry, renewals, time.                                                 *)
(***************************************************************************)
\* A row that serves its owner is not expired.
LEMMA DeleteExpiredKeeps ==
  ASSUME IInv, DeleteExpired
  PROVE  IInv'
<1>1. /\ rows' = {} /\ UNCHANGED <<users, time, ids, proc, renewed, ran, owner, lapses>>
      /\ faults' \in 0 .. MaxFaults
  BY FaultsBounded DEF DeleteExpired, history
<1>2. PICK row \in rows : row.expires <= time
  BY DEF DeleteExpired
<1>3. \A other \in rows : other = row
  BY DEF IInv, TypeOK
<1>4. time \in Int /\ TTL \in Int /\ row.expires \in Int
  BY Numbers DEF IInv
<1>5. TypeOK'
  BY <1>1 DEF IInv, TypeOK
<1>6. Started' /\ Progress' /\ Claimants'
  BY <1>1 DEF IInv, Started, Progress, Claimants, At
<1>7. Prompt' /\ Numbered' /\ Bodies' /\ LateSee'
  BY <1>1 DEF IInv, Prompt, Claiming, Now, Numbered, Bodies, LateSee
<1>8. LockKept'
  <2> SUFFICES ASSUME TTL > 1, Lease > 1, Sound, NEW q \in Operations, Renewing(q) PROVE FALSE
    BY <1>1 DEF LockKept, Sound, Renewing, At
  <2>1. time + TTL <= row.expires + Due(q)
    BY <1>3 DEF IInv, LockKept
  <2>2. Due(q) = 0 \/ Due(q) = 1
    BY DEF Due
  <2> QED BY <1>2, <1>4, <2>1, <2>2
<1>9. PeriodKept'
  <2> SUFFICES ASSUME lapses = {}, NEW q \in Calls, Current(q) PROVE FALSE
    BY <1>1 DEF PeriodKept, Current, Executed, Now
  <2>1. Now(q) + TTL <= row.expires /\ time < Now(q) + TTL
    BY <1>3 DEF IInv, PeriodKept, Current
  <2>2. Now(q) \in Int
    BY Numbers DEF IInv, Clients
  <2> QED BY <1>2, <1>4, <2>1, <2>2
<1>10. ReclaimersKnow' /\ OncePerPeriod' /\ ReplayIsCurrent'
  BY <1>1 DEF IInv, ReclaimersKnow, OncePerPeriod, ReplayIsCurrent, Executed, Now, At
<1> QED BY <1>5, <1>6, <1>7, <1>8, <1>9, <1>10 DEF IInv

\* A lock's row is not a call's.
LEMMA NoCalls ==
  ASSUME IInv, NEW p \in Operations, p \in users
  PROVE  /\ users # Calls
         /\ \A q \in Calls : proc[q].pc = "idle" /\ ~Executed(q) /\ proc[q].pc \notin Settled
<1>1. users # Calls
  BY ClientsAssumption
<1>2. users = Operations
  BY <1>1 DEF IInv, TypeOK
<1>3. ASSUME NEW q \in Calls PROVE proc[q].pc = "idle" /\ ~Executed(q) /\ proc[q].pc \notin Settled
  <2>1. proc[q].pc = "idle"
    BY <1>2, ClientsAssumption DEF IInv, Started, Clients
  <2> QED BY <2>1 DEF IInv, Progress, Executed, Settled, Clients
<1> QED BY <1>1, <1>3

\* A renewal prolongs the row, or finds that another operation's name is in it.
LEMMA ExtendKeeps ==
  ASSUME IInv, NEW p \in Clients, ExtendProcessingLock(p)
  PROVE  IInv'
<1>1. /\ Renewing(p) /\ p \in Operations /\ proc[p].pc = "act" /\ p \in users
      /\ renewed' = renewed \cup {p} /\ UNCHANGED <<users, time, ids, ran, owner>>
  BY DEF ExtendProcessingLock, Renewing, At, IInv, Started
<1>2. faults' \in 0 .. MaxFaults
  BY FaultsBounded DEF ExtendProcessingLock
<1>3. /\ users # Calls
      /\ \A q \in Calls : proc[q].pc = "idle" /\ ~Executed(q) /\ proc[q].pc \notin Settled
  BY <1>1, NoCalls
<1>4. renewed' \subseteq Operations
  BY <1>1 DEF IInv, TypeOK
<1>5. CASE UNCHANGED <<proc, lapses>> /\ \E old \in rows :
             /\ Mine(p, old)
             /\ rows' = {[old EXCEPT !.locked = time + Lease, !.expires = time + TTL]}
  <2>1. PICK old \in rows :
          /\ old.status = "processing"
          /\ rows' = {[old EXCEPT !.locked = time + Lease, !.expires = time + TTL]}
    BY <1>5 DEF Mine
  <2> DEFINE row == [old EXCEPT !.locked = time + Lease, !.expires = time + TTL]
  <2>2. old \in Row
    BY DEF IInv, TypeOK
  <2>3. time + Lease \in 0 .. Far /\ time + TTL \in 0 .. Far
    <3>1. time \in 0 .. MaxTime
      BY DEF IInv, TypeOK
    <3> QED BY <3>1, TimesAssumption DEF Far
  <2>4. /\ row \in Row /\ row.id = old.id /\ row.print = old.print /\ row.status # "succeeded"
        /\ row.locked = time + Lease /\ row.expires = time + TTL
    BY <2>1, <2>2, <2>3 DEF Row
  <2>5. rows' = {row}
    BY <2>1
  <2> HIDE DEF row
  <2>6. TypeOK'
    <3>1. rows' \subseteq Row /\ \A r, other \in rows' : r = other
      BY <2>4, <2>5
    <3> QED BY <1>1, <1>2, <1>4, <1>5, <3>1 DEF IInv, TypeOK
  <2>7. Started' /\ Progress' /\ Claimants' /\ Prompt'
    BY <1>1, <1>5 DEF IInv, Started, Progress, Claimants, Prompt, At, Claiming, Now
  <2>8. Numbered'
    BY <1>1, <1>5, <2>4, <2>5 DEF IInv, Numbered
  <2>9. LockKept'
    <3> SUFFICES ASSUME TTL > 1, Lease > 1, Sound, NEW q \in Operations, Renewing(q)
                 PROVE  /\ owner = q
                        /\ time + Lease <= row.locked + Due(q)' /\ time + TTL <= row.expires + Due(q)'
      BY <1>1, <1>5, <2>5 DEF LockKept, Sound, Renewing, At
    <3>1. owner = q /\ owner = p
      BY <1>1 DEF IInv, LockKept
    <3>2. Due(q)' = 0
      BY <1>1, <3>1 DEF Due
    <3>3. time \in Int /\ Lease \in Int /\ TTL \in Int
      BY Numbers DEF IInv
    <3> QED BY <2>4, <3>1, <3>2, <3>3
  <2>10. PeriodKept' /\ ReclaimersKnow' /\ OncePerPeriod'
    BY <1>1, <1>3, <1>5
       DEF PeriodKept, Current, ReclaimersKnow, OncePerPeriod, Executed, At
  <2>11. Bodies' /\ LateSee'
    BY <2>4, <2>5 DEF Bodies, LateSee
  <2>12. ReplayIsCurrent'
    BY <1>1, <1>5 DEF IInv, ReplayIsCurrent, Now
  <2> QED BY <2>6, <2>7, <2>8, <2>9, <2>10, <2>11, <2>12 DEF IInv
<1>6. CASE Become(p, [proc[p] EXCEPT !.ended = TRUE]) /\ UNCHANGED <<rows, lapses>>
  <2> DEFINE st == [proc[p] EXCEPT !.ended = TRUE]
  <2>1. proc[p] \in Proc
    BY DEF IInv, TypeOK
  <2>2. /\ st \in Proc /\ st.pc = proc[p].pc /\ st.now = proc[p].now /\ st.id = proc[p].id
        /\ st.saw = proc[p].saw /\ st.replay = proc[p].replay /\ st.ended
    BY <2>1 DEF Proc
  <2>3. Become(p, st)
    BY <1>6
  <2> HIDE DEF st
  <2>4. /\ proc' \in [Clients -> Proc] /\ proc'[p] = st
        /\ \A q \in Clients : q # p => proc'[q] = proc[q]
    BY <2>2, <2>3, BecomeProc DEF IInv
  <2>5. \A q \in Clients : /\ proc'[q].pc = proc[q].pc /\ proc'[q].now = proc[q].now
                           /\ proc'[q].id = proc[q].id /\ proc'[q].saw = proc[q].saw
                           /\ proc'[q].replay = proc[q].replay
    BY <2>2, <2>4
  <2>6. TypeOK'
    BY <1>1, <1>2, <1>4, <1>6, <2>4, <2>5 DEF IInv, TypeOK
  <2>7. Started' /\ Progress' /\ Claimants' /\ Prompt'
    BY <1>1, <1>6, <2>5 DEF IInv, Started, Progress, Claimants, Prompt, At, Claiming, Now
  <2>8. Numbered'
    BY <1>1, <1>6, <2>5 DEF IInv, Numbered, Clients
  <2>9. LockKept'
    <3>1. ASSUME NEW q \in Operations, Renewing(q)' PROVE q # p /\ Renewing(q) /\ Due(q)' = Due(q)
      BY <1>1, <2>2, <2>4, <3>1 DEF Renewing, At, Due, Clients
    <3> QED BY <1>1, <1>6, <3>1 DEF IInv, LockKept, Sound
  <2>10. PeriodKept' /\ ReclaimersKnow' /\ OncePerPeriod'
    BY <1>1, <1>3, <1>6, <2>5
       DEF PeriodKept, Current, ReclaimersKnow, OncePerPeriod, Executed, At, Clients
  <2>11. Bodies'
    BY <1>1, <1>3 DEF Bodies
  <2>12. LateSee'
    BY <1>3, <1>6, <2>5 DEF LateSee, At, Clients
  <2>13. ReplayIsCurrent'
    BY <1>1, <1>6, <2>5 DEF IInv, ReplayIsCurrent, Now, Clients
  <2> QED BY <2>6, <2>7, <2>8, <2>9, <2>10, <2>11, <2>12, <2>13 DEF IInv
<1>7. CASE UNCHANGED <<rows, proc>> /\ lapses' = lapses \cup {"unrenewed"}
  <2>1. lapses' \subseteq Ways /\ lapses' # {} /\ ~Sound' /\ ("slow" \in lapses => "slow" \in lapses')
    <3>1. "unrenewed" \in Ways /\ lapses \subseteq Ways
      BY DEF IInv, TypeOK, Ways
    <3> QED BY <1>7, <3>1 DEF Sound
  <2>2. TypeOK'
    BY <1>1, <1>2, <1>4, <1>7, <2>1 DEF IInv, TypeOK
  <2>3. Started' /\ Progress' /\ Claimants' /\ Prompt' /\ Numbered'
    BY <1>1, <1>7, <2>1
       DEF IInv, Started, Progress, Claimants, Prompt, Numbered, At, Claiming, Now
  <2>4. LockKept' /\ PeriodKept' /\ ReclaimersKnow' /\ LateSee' /\ OncePerPeriod' /\ ReplayIsCurrent'
    BY <2>1 DEF LockKept, PeriodKept, ReclaimersKnow, LateSee, OncePerPeriod, ReplayIsCurrent
  <2>5. Bodies'
    BY <1>1, <1>3 DEF Bodies
  <2> QED BY <2>2, <2>3, <2>4, <2>5 DEF IInv
<1> QED BY <1>5, <1>6, <1>7 DEF ExtendProcessingLock, Lapse

\* Time passes for those who have renewed, and for nobody who is claiming.
LEMMA TickKeeps ==
  ASSUME IInv, Tick
  PROVE  IInv'
<1>1. /\ time' = time + 1 /\ time < MaxTime /\ renewed' = {}
      /\ UNCHANGED <<users, rows, ids, proc, ran, owner>>
  BY DEF Tick
<1>2. time \in Int /\ TTL \in Int /\ Lease \in Int
  BY Numbers DEF IInv
<1>3. /\ lapses \subseteq lapses' /\ lapses' \subseteq Ways
      /\ (\E p \in Clients : Claiming(p)) => "slow" \in lapses'
      /\ (\E p \in Clients : RenewalDue(p)) => "unrenewed" \in lapses'
  <2>1. lapses \subseteq Ways /\ "slow" \in Ways /\ "unrenewed" \in Ways
    BY DEF IInv, TypeOK, Ways
  <2> QED BY <2>1 DEF Tick
<1>4. TypeOK'
  <2>1. time \in 0 .. MaxTime /\ MaxTime \in Int
    BY TimesAssumption DEF IInv, TypeOK
  <2>2. time' \in 0 .. MaxTime
    BY <1>1, <2>1
  <2>3. \A p \in Clients : proc[p].now <= time'
    <3>1. \A p \in Clients : Now(p) \in Int /\ Now(p) <= time
      BY Numbers DEF IInv
    <3> QED BY <1>1, <1>2, <3>1 DEF Now
  <2>4. faults' \in 0 .. MaxFaults
    BY FaultsBounded DEF Tick
  <2> QED BY <1>1, <1>3, <2>2, <2>3, <2>4 DEF IInv, TypeOK
<1>5. Started' /\ Progress' /\ Claimants' /\ Numbered'
  BY <1>1 DEF IInv, Started, Progress, Claimants, Numbered, At
<1>6. Prompt'
  BY <1>1, <1>3 DEF Prompt, Claiming
<1>7. LockKept'
  <2> SUFFICES ASSUME TTL > 1, Lease > 1, Sound', NEW q \in Operations, Renewing(q)
               PROVE  owner = q /\ \E row \in rows : /\ time + 1 + Lease <= row.locked + 1
                                                    /\ time + 1 + TTL <= row.expires + 1
    BY <1>1 DEF LockKept, Renewing, At, Due
  <2>1. Sound /\ q \in renewed
    BY <1>3 DEF Sound, RenewalDue, Clients
  <2>2. PICK row \in rows : time + Lease <= row.locked /\ time + TTL <= row.expires
    <3>1. Due(q) = 0
      BY <2>1 DEF Due
    <3>2. PICK row \in rows :
            time + Lease <= row.locked + Due(q) /\ time + TTL <= row.expires + Due(q)
      BY <2>1 DEF IInv, LockKept
    <3>3. row.locked \in Int /\ row.expires \in Int
      BY Numbers DEF IInv
    <3> QED BY <3>1, <3>2, <3>3
  <2>3. row.locked \in Int /\ row.expires \in Int
    BY Numbers DEF IInv
  <2>4. owner = q
    BY <2>1 DEF IInv, LockKept
  <2> QED BY <1>2, <2>2, <2>3, <2>4
<1>8. PeriodKept'
  <2>1. ASSUME NEW q \in Calls, Current(q)' PROVE Current(q)
    <3>1. Executed(q) /\ time + 1 < Now(q) + TTL
      BY <1>1, <2>1 DEF Current, Executed, Now
    <3>2. Now(q) \in Int
      BY Numbers DEF IInv, Clients
    <3> QED BY <1>2, <3>1, <3>2 DEF Current
  <2> QED BY <1>1, <1>3, <2>1 DEF IInv, PeriodKept, Now
<1>9. ReclaimersKnow' /\ Bodies' /\ LateSee'
  BY <1>1, <1>3
     DEF IInv, ReclaimersKnow, Bodies, Answered, LateSee, Executed, Now, At
<1>10. OncePerPeriod' /\ ReplayIsCurrent'
  BY <1>1, <1>3 DEF IInv, OncePerPeriod, ReplayIsCurrent, Executed, Now
<1> QED BY <1>4, <1>5, <1>6, <1>7, <1>8, <1>9, <1>10 DEF IInv

LEMMA StutterKeeps == IInv /\ UNCHANGED vars => IInv'
<1> SUFFICES ASSUME IInv, UNCHANGED vars PROVE IInv'
  OBVIOUS
<1> USE DEF vars, IInv
<1>1. TypeOK' /\ Started' /\ Progress' /\ Claimants' /\ Numbered'
  BY DEF TypeOK, Started, Progress, Claimants, Numbered, At
<1>2. Prompt' /\ Bodies' /\ LateSee'
  BY DEF Prompt, Claiming, Bodies, Answered, LateSee, At, Now
<1>3. LockKept'
  BY DEF LockKept, Sound, Renewing, At, Due
<1>4. PeriodKept' /\ ReclaimersKnow' /\ OncePerPeriod' /\ ReplayIsCurrent'
  BY DEF PeriodKept, Current, ReclaimersKnow, OncePerPeriod, ReplayIsCurrent, Executed, Now, At
<1> QED BY <1>1, <1>2, <1>3, <1>4

LEMMA NextInv == IInv /\ [Next]_vars => IInv'
<1> SUFFICES ASSUME IInv, [Next]_vars PROVE IInv'
  OBVIOUS
<1>1. ASSUME NEW p \in Clients, Begin(p) PROVE IInv'
  BY <1>1, BeginKeeps
<1>2. ASSUME NEW p \in Clients, CreateProcessing(p) PROVE IInv'
  BY <1>2, CreateProcessingKeeps
<1>3. ASSUME NEW p \in Clients, GetForCall(p) PROVE IInv'
  BY <1>3, GetForCallKeeps
<1>4. ASSUME NEW p \in Clients, GetForLock(p) PROVE IInv'
  BY <1>4, GetForLockKeeps
<1>5. ASSUME NEW p \in Clients, TryReclaim(p) PROVE IInv'
  BY <1>5, TryReclaimKeeps
<1>6. ASSUME NEW p \in Clients, ExtendProcessingLock(p) PROVE IInv'
  BY <1>6, ExtendKeeps
<1>7. ASSUME NEW p \in Clients, Crash(p) PROVE IInv'
  BY <1>7, CrashKeeps
<1>8. ASSUME NEW p \in Clients, NEW outcome \in {"done", "failed"}, Mark(p, outcome) PROVE IInv'
  BY <1>8, MarkKeeps
<1>9. CASE DeleteExpired
  BY <1>9, DeleteExpiredKeeps
<1>10. CASE Tick
  BY <1>10, TickKeeps
<1>11. CASE UNCHANGED vars
  BY <1>11, StutterKeeps
<1> QED BY <1>1, <1>2, <1>3, <1>4, <1>5, <1>6, <1>7, <1>8, <1>9, <1>10, <1>11 DEF Next

(***************************************************************************)
(* The theorems.                                                           *)
(***************************************************************************)
\* The inductive invariant, for any clients, lease, time to live and backoff.
THEOREM Invariance == Spec => []IInv
  BY InitInv, NextInv, PTL DEF Spec

\* The shapes hold, and a key has one row at most.
THEOREM TypeCorrect == Spec => []TypeOK
  BY Invariance, InvImplies, PTL

\* Until a reclaim is raced, a call outlives its period or a claim is slow, two calls of one
\* key that both execute belong to different periods, whichever crash, fail or lose an answer.
THEOREM CallsRunOncePerPeriod == Spec => []OncePerPeriod
  BY Invariance, InvImplies, PTL

\* Under the same conditions a replayed response was made by a call of the same request, and
\* its period is not over when the one that replays it begins.
THEOREM ReplaysAreCurrent == Spec => []ReplayIsCurrent
  BY Invariance, InvImplies, PTL

\* When a row and its lease outlive the interval between renewals, no two operations that both renew hold
\* the lock, unless a renewal fails, a claim is slow or a lock that was lost is released.
THEOREM LockIsHeldByOne == ASSUME TTL > 1, Lease > 1 PROVE Spec => []LockExclusive
<1>1. IInv => LockExclusive
  BY LockIsExclusive
<1> QED BY <1>1, Invariance, PTL

=============================================================================
