------------------------ MODULE SchedulerCacheProofs ------------------------
(***************************************************************************)
(* A version is open while its writer has not tried to activate it.  Open  *)
(* versions are invisible: none is active, fading or with a reader, and no *)
(* two writers have the same one.  So what happens to the sorted set of a  *)
(* version a reader has taken can only be that it goes, whole, after the   *)
(* grace period or in an activation that is sent again; and then a reader  *)
(* that got members got all of them.                                       *)
(***************************************************************************)
EXTENDS SchedulerCache, TLAPS

Opened(w) == writer[w].pc \in {"records", "zadd"}
Open == {writer[w].ver : w \in {u \in Writers : Opened(u)}}

\* What a writer has done so far.
Progress(w) ==
  /\ writer[w].pc # "idle" => writer[w].ver \in Drawn
  /\ Writes(w, "records") => zset[writer[w].ver] = {} /\ writer[w].todo = drawn[writer[w].ver]
  /\ Writes(w, "zadd") => zset[writer[w].ver] = drawn[writer[w].ver] \ writer[w].todo
  /\ Opened(w) => writer[w].todo \subseteq drawn[writer[w].ver]
  /\ Writes(w, "again") => writer[w].ver \in repeated /\ writer[w].ver <= active

WriterInv == \A w \in Writers : Progress(w)

Distinct ==
  \A w, u \in Writers :
    writer[w].pc # "idle" /\ writer[u].pc # "idle" /\ writer[w].ver = writer[u].ver => w = u

Invisible == active \notin Open /\ fading \cap Open = {}

\* The active snapshot is all there.
ActiveWhole == active # 0 => zset[active] = drawn[active]

\* What a reader has read so far.
Reading(r) ==
  /\ Reads(r, "idle") => reader[r].ver = 0
  /\ ~Reads(r, "idle") => reader[r].ver \in Drawn /\ reader[r].ver \notin Open
  /\ Reads(r, "range") =>
       \/ zset[reader[r].ver] = drawn[reader[r].ver]
       \/ zset[reader[r].ver] = {} /\ reader[r].ver \in expired \cup repeated
  /\ Reads(r, "records") => reader[r].ids = drawn[reader[r].ver]

ReaderInv == \A r \in Readers : Reading(r)

IInv == TypeOK /\ WriterInv /\ Distinct /\ Invisible /\ ActiveWhole /\ ReaderInv

LEMMA InvImplies == IInv => TypeOK /\ ReaderKeepsItsSnapshot
  BY DEF IInv, ReaderInv, Reading, ReaderKeepsItsSnapshot

LEMMA InitInv == Init => IInv
  <1> SUFFICES ASSUME Init PROVE IInv
    OBVIOUS
  <1> USE DEF Init
  <1>1. Len(drawn) = 0 /\ drawn \in Seq(SUBSET Accounts)
    OBVIOUS
  <1>2. writer \in [Writers -> WriterType] /\ reader \in [Readers -> ReaderType]
    BY BoundsAssumption DEF WriterType, ReaderType, Free, Resting, Miss
  <1>3. TypeOK
    BY <1>1, <1>2, BoundsAssumption DEF TypeOK, Versions, Drawn
  <1>4. WriterInv /\ Distinct /\ Invisible /\ ActiveWhole /\ ReaderInv
    BY DEF WriterInv, Progress, Distinct, Invisible, ActiveWhole, ReaderInv, Reading, Opened, Open,
           Free, Resting, Writes, Reads
  <1> QED BY <1>3, <1>4 DEF IInv

(***************************************************************************)
(* The steps, seen from what they change.                                  *)
(***************************************************************************)
\* Steps that touch only the records, or the copies of them that an update has made.
RecordStep ==
  \/ \E a \in Accounts : SetAccount(a) \/ DeleteAccount(a)
  \/ \E u \in Updaters : UpdateBegins(u) \/ UpdateEnds(u)

LEMMA RecordStepLeaves ==
  ASSUME TypeOK, RecordStep
  PROVE  /\ UNCHANGED <<drawn, active, zset, fading, writer, reader, faults>>
         /\ UNCHANGED <<abandoned, expired, repeated>>
         /\ records' \subseteq Accounts /\ update' \in [Updaters -> SUBSET Accounts]
  BY DEF TypeOK, RecordStep, SetAccount, DeleteAccount, UpdateBegins, UpdateEnds, Calm, sets,
         history

\* What a command of a writer makes of its record.
LEMMA WriterAfter ==
  ASSUME TypeOK, NEW w \in Writers, NEW s \in WriterType, writer' = [writer EXCEPT ![w] = s]
  PROVE  /\ writer' \in [Writers -> WriterType]
         /\ writer'[w] = s
         /\ \A u \in Writers : u # w => writer'[u] = writer[u]
  BY DEF TypeOK

LEMMA ReaderAfter ==
  ASSUME TypeOK, NEW r \in Readers, NEW s \in ReaderType, reader' = [reader EXCEPT ![r] = s]
  PROVE  /\ reader' \in [Readers -> ReaderType]
         /\ reader'[r] = s
         /\ \A q \in Readers : q # r => reader'[q] = reader[q]
  BY DEF TypeOK

\* A writer that goes on with its version keeps the same versions open.
LEMMA StillOpen ==
  ASSUME TypeOK, Distinct, NEW w \in Writers, Opened(w), Opened(w)', writer'[w].ver = writer[w].ver,
         \A u \in Writers : u # w => writer'[u] = writer[u]
  PROVE  Distinct' /\ Open' = Open
  <1>1. \A u \in Writers : /\ writer'[u].ver = writer[u].ver /\ (Opened(u)' <=> Opened(u))
                            /\ (writer'[u].pc = "idle" <=> writer[u].pc = "idle")
    BY DEF Opened
  <1>2. Distinct'
    BY <1>1 DEF Distinct
  <1>3. Open' = Open
    BY <1>1 DEF Open
  <1> QED BY <1>2, <1>3

\* One that is done closes its own.
LEMMA Closed ==
  ASSUME Distinct, NEW w \in Writers, Opened(w), ~(Opened(w)'),
         writer'[w].pc # "idle" => writer'[w].ver = writer[w].ver,
         \A u \in Writers : u # w => writer'[u] = writer[u]
  PROVE  Distinct' /\ Open' = Open \ {writer[w].ver}
  <1>1. \A u \in Writers : u # w =>
          /\ writer'[u].ver = writer[u].ver /\ (Opened(u)' <=> Opened(u))
          /\ (writer'[u].pc = "idle" <=> writer[u].pc = "idle")
    BY DEF Opened
  <1>2. writer[w].pc # "idle"
    BY DEF Opened
  <1>3. Distinct'
    BY <1>1, <1>2 DEF Distinct
  <1>4. \A u \in Writers : u # w /\ Opened(u) => writer[u].ver # writer[w].ver
    BY <1>2 DEF Distinct, Opened
  <1>5. Open' = Open \ {writer[w].ver}
    BY <1>1, <1>4 DEF Open
  <1> QED BY <1>3, <1>5

\* Drawing a version leaves the others as they were.
LEMMA DrawKeeps ==
  ASSUME TypeOK, NEW members \in Lists, Len(drawn) < MaxVersion, drawn' = Append(drawn, members)
  PROVE  /\ drawn' \in Seq(SUBSET Accounts) /\ Len(drawn') = Len(drawn) + 1
         /\ Len(drawn) + 1 \in Versions /\ Len(drawn) + 1 \notin Drawn
         /\ Drawn' = Drawn \cup {Len(drawn) + 1}
         /\ drawn'[Len(drawn) + 1] = members /\ members \in SUBSET Accounts
         /\ \A v \in Drawn : drawn'[v] = drawn[v]
         /\ Drawn \subseteq Versions
  <1>1. members \in SUBSET Accounts
    BY ListsAssumption
  <1>2. drawn \in Seq(SUBSET Accounts) /\ Len(drawn) \in Nat
    BY DEF TypeOK
  <1>3. /\ drawn' \in Seq(SUBSET Accounts) /\ Len(drawn') = Len(drawn) + 1
        /\ drawn'[Len(drawn) + 1] = members
        /\ \A v \in 1 .. Len(drawn) : drawn'[v] = drawn[v]
    BY <1>1, <1>2
  <1> QED BY <1>1, <1>2, <1>3, BoundsAssumption DEF Versions, Drawn

\* The script never goes back, leaves every snapshot but its own alone, and withdraws its
\* own only when a newer one is active.
LEMMA ScriptEffect ==
  ASSUME TypeOK, NEW v \in Drawn, ActivateScript(v), v \notin fading \/ v <= active
  PROVE  /\ active' \in {active, v} /\ active <= active' /\ v <= active'
         /\ zset' \in [Versions -> SUBSET Accounts]
         /\ \A u \in Versions : u # v => zset'[u] = zset[u]
         /\ zset'[v] = zset[v] \/ (zset'[v] = {} /\ v < active /\ active' = active)
         /\ fading' \subseteq fading \cup {active} /\ fading' \subseteq Drawn
         /\ active' \notin fading'
  <1>1. /\ active \in {0} \cup Drawn /\ v \in Nat /\ active \in Nat /\ v # 0 /\ v \in Versions
        /\ fading \subseteq Drawn /\ active \notin fading
        /\ zset \in [Versions -> SUBSET Accounts]
    BY BoundsAssumption DEF TypeOK, Drawn, Versions
  <1>2. CASE Overtaken(v)
    <2>1. active' = active /\ zset' = [zset EXCEPT ![v] = {}] /\ fading' = fading \ {v}
      BY <1>2 DEF ActivateScript, Withdraw
    <2>2. v < active
      BY <1>1, <1>2 DEF Overtaken
    <2> QED BY <1>1, <2>1, <2>2
  <1>3. CASE ~Overtaken(v)
    <2>1. active' = v /\ active <= v
      BY <1>1, <1>3 DEF ActivateScript, Overtaken
    <2>2. CASE active \in {0, v}
      <3>1. UNCHANGED <<zset, fading>>
        BY <1>3, <2>2 DEF ActivateScript
      <3>2. v \notin fading
        BY <1>1, <2>2
      <3> QED BY <1>1, <2>1, <3>1, <3>2
    <2>3. CASE active \notin {0, v}
      <3>1. Retire(active)
        BY <1>3, <2>3 DEF ActivateScript
      <3>2. UNCHANGED zset /\ fading' \subseteq fading \cup {active}
        BY <3>1 DEF Retire
      <3>3. v \notin fading
        BY <1>1, <2>1, <2>3
      <3>4. fading' \subseteq Drawn /\ v \notin fading'
        BY <1>1, <2>3, <3>2, <3>3
      <3> QED BY <1>1, <2>1, <3>2, <3>4
    <2> QED BY <2>2, <2>3
  <1> QED BY <1>2, <1>3

(***************************************************************************)
(* What the steps of others may do to a reader.                            *)
(***************************************************************************)
LEMMA ReadersKept ==
  ASSUME IInv, reader' = reader, Drawn \subseteq Drawn', \A v \in Drawn : drawn'[v] = drawn[v],
         expired \subseteq expired', repeated \subseteq repeated',
         \A v \in Drawn \ Open :
           /\ v \notin Open'
           /\ zset'[v] = zset[v] \/ (zset'[v] = {} /\ v \in expired' \cup repeated')
  PROVE  ReaderInv'
  <1> SUFFICES ASSUME NEW r \in Readers PROVE Reading(r)'
    BY DEF ReaderInv
  <1>1. ReaderInv
    BY DEF IInv
  <1>2. CASE Reads(r, "idle")
    BY <1>1, <1>2 DEF ReaderInv, Reading, Reads
  <1>3. CASE ~Reads(r, "idle")
    <2>1. reader[r].ver \in Drawn \ Open
      BY <1>1, <1>3 DEF ReaderInv, Reading
    <2> QED BY <1>1, <1>3, <2>1 DEF ReaderInv, Reading, Reads
  <1> QED BY <1>2, <1>3

\* A step of one writer leaves the progress of the others.
LEMMA OthersKept ==
  ASSUME IInv, NEW w \in Writers, NEW u \in Writers, writer'[u] = writer[u],
         Drawn \subseteq Drawn', \A v \in Drawn : drawn'[v] = drawn[v],
         Opened(u) => zset'[writer[u].ver] = zset[writer[u].ver],
         repeated \subseteq repeated', active \in Nat, active' \in Nat, active <= active'
  PROVE  Progress(u)'
  <1>1. Progress(u) /\ writer[u] \in WriterType
    BY DEF IInv, WriterInv, TypeOK
  <1>2. CASE writer[u].pc = "idle"
    BY <1>2 DEF Progress, Opened, Writes
  <1>3. CASE Opened(u)
    BY <1>1, <1>3 DEF Progress, Opened, Writes
  <1>4. CASE Writes(u, "again")
    <2>1. writer[u].ver \in Drawn /\ writer[u].ver \in repeated /\ writer[u].ver <= active
      BY <1>1, <1>4 DEF Progress, Writes
    <2>2. writer[u].ver \in Nat
      BY <1>1, BoundsAssumption DEF WriterType
    <2> QED BY <1>4, <2>1, <2>2 DEF Progress, Opened, Writes
  <1> QED BY <1>1, <1>2, <1>3, <1>4 DEF WriterType, Opened, Writes

(***************************************************************************)
(* The steps of a writer.                                                  *)
(***************************************************************************)
LEMMA DrawStep ==
  ASSUME IInv, NEW w \in Writers, NEW members \in Lists, Draw(w, members)
  PROVE  IInv'
  <1> DEFINE v == Len(drawn) + 1
             s == [pc |-> "records", ver |-> v, todo |-> members]
  <1>t. TypeOK /\ WriterInv /\ Distinct /\ Invisible /\ ActiveWhole
    BY DEF IInv
  <1>1. /\ drawn' \in Seq(SUBSET Accounts) /\ Len(drawn') = v
        /\ v \in Versions /\ v \notin Drawn /\ Drawn' = Drawn \cup {v}
        /\ drawn'[v] = members /\ members \in SUBSET Accounts
        /\ \A u \in Drawn : drawn'[u] = drawn[u]
        /\ Drawn \subseteq Versions
    BY <1>t, DrawKeeps DEF Draw
  <1>2. UNCHANGED <<active, zset, fading, records, reader, update, faults>>
        /\ UNCHANGED <<abandoned, expired, repeated>>
    BY DEF Draw, Calm, sets, history
  <1>3. s \in WriterType
    BY <1>1 DEF WriterType, Versions
  <1>4. /\ writer' \in [Writers -> WriterType] /\ writer'[w] = s
        /\ \A u \in Writers : u # w => writer'[u] = writer[u]
    BY <1>t, <1>3, WriterAfter DEF Draw
  <1>5. Len(drawn') <= MaxVersion
    BY <1>1, BoundsAssumption DEF Versions
  <1>6. zset[v] = {}
    BY <1>t, <1>1 DEF TypeOK
  <1>7. TypeOK'
    <2>1. \A u \in Versions : zset[u] # {} => u \in Drawn' /\ zset[u] \subseteq drawn'[u]
      BY <1>t, <1>1 DEF TypeOK
    <2>2. active \in {0} \cup Drawn' /\ fading \subseteq Drawn' /\ abandoned \subseteq Drawn'
          /\ expired \subseteq Drawn' /\ repeated \subseteq Drawn'
      BY <1>t, <1>1 DEF TypeOK
    <2> HIDE DEF v, s
    <2> QED BY <1>t, <1>1, <1>2, <1>4, <1>5, <2>1, <2>2 DEF TypeOK
  <1>n. active \in Nat
    BY <1>t, BoundsAssumption DEF TypeOK, Drawn
  <1>8. WriterInv'
    <2>1. Progress(w)'
      BY <1>1, <1>2, <1>4, <1>6 DEF Progress, Writes, Opened
    <2>2. ASSUME NEW u \in Writers, u # w PROVE Progress(u)'
      BY <1>1, <1>2, <1>4, <1>n, <2>2, OthersKept
    <2> QED BY <2>1, <2>2 DEF WriterInv
  <1>9. \A u \in Writers : u # w /\ writer[u].pc # "idle" => writer[u].ver # v
    BY <1>t, <1>1 DEF WriterInv, Progress
  <1>10. Distinct'
    BY <1>t, <1>4, <1>9 DEF Distinct
  <1>11. Open' \subseteq Open \cup {v}
    BY <1>4 DEF Open, Opened
  <1>12. v # active /\ v \notin fading /\ active \in {0} \cup Drawn
    <2>1. v # 0
      BY <1>1 DEF Versions
    <2> QED BY <1>t, <1>1, <2>1 DEF TypeOK
  <1>13. Invisible'
    BY <1>t, <1>2, <1>11, <1>12 DEF Invisible
  <1>14. ActiveWhole'
    BY <1>t, <1>1, <1>2, <1>12 DEF ActiveWhole
  <1>15. ReaderInv'
    BY <1>1, <1>2, <1>11, ReadersKept
  <1> QED BY <1>7, <1>8, <1>10, <1>13, <1>14, <1>15 DEF IInv

LEMMA WriteAccountsStep ==
  ASSUME IInv, NEW w \in Writers, WriteAccounts(w)
  PROVE  IInv'
  <1> DEFINE s == [writer[w] EXCEPT !.pc = "zadd"]
  <1>t. TypeOK /\ WriterInv /\ Distinct /\ Invisible /\ ActiveWhole
    BY DEF IInv
  <1>1. UNCHANGED <<drawn, active, zset, fading, reader, update, faults>>
        /\ UNCHANGED <<abandoned, expired, repeated>>
    BY DEF WriteAccounts, Calm, sets, history
  <1>2. writer[w] \in WriterType /\ writer[w].pc = "records"
    BY <1>t DEF TypeOK, WriteAccounts, Writes
  <1>3. s \in WriterType /\ s.pc = "zadd" /\ s.ver = writer[w].ver /\ s.todo = writer[w].todo
    BY <1>2 DEF WriterType
  <1>4. /\ writer' \in [Writers -> WriterType] /\ writer'[w] = s
        /\ \A u \in Writers : u # w => writer'[u] = writer[u]
    BY <1>t, <1>3, WriterAfter DEF WriteAccounts
  <1>5. TypeOK'
    <2>1. records' \subseteq Accounts
      BY <1>t, <1>2 DEF TypeOK, WriteAccounts, WriterType
    <2> QED BY <1>t, <1>1, <1>4, <2>1 DEF TypeOK, Drawn, WriterType, ReaderType
  <1>6. WriterInv'
    <2>n. active \in Nat
      BY <1>t, BoundsAssumption DEF TypeOK, Drawn
    <2>1. Progress(w)'
      <3>1. Progress(w)
        BY <1>t DEF WriterInv
      <3>2. writer[w].ver \in Drawn /\ zset[writer[w].ver] = {}
            /\ writer[w].todo = drawn[writer[w].ver]
        BY <1>2, <3>1 DEF Progress, Writes
      <3> HIDE DEF s
      <3> QED BY <1>1, <1>3, <1>4, <3>2 DEF Progress, Writes, Opened, Drawn
    <2>2. ASSUME NEW u \in Writers, u # w PROVE Progress(u)'
      BY <1>1, <1>4, <2>n, <2>2, OthersKept DEF Drawn
    <2> QED BY <2>1, <2>2 DEF WriterInv
  <1>7. Distinct' /\ Open' = Open
    BY <1>t, <1>2, <1>3, <1>4, StillOpen DEF Opened
  <1>8. Invisible' /\ ActiveWhole'
    BY <1>t, <1>1, <1>7 DEF Invisible, ActiveWhole
  <1>9. ReaderInv'
    BY <1>1, <1>7, ReadersKept DEF Drawn
  <1> QED BY <1>5, <1>6, <1>7, <1>8, <1>9 DEF IInv

LEMMA ZAddStep ==
  ASSUME IInv, NEW w \in Writers, ZAdd(w)
  PROVE  IInv'
  <1>t. TypeOK /\ WriterInv /\ Distinct /\ Invisible /\ ActiveWhole
    BY DEF IInv
  <1> PICK chunk \in SUBSET writer[w].todo :
        Added(w, chunk) /\ writer' = [writer EXCEPT ![w].todo = @ \ chunk]
    BY DEF ZAdd
  <1> DEFINE s == [writer[w] EXCEPT !.todo = @ \ chunk]
             v == writer[w].ver
  <1>1. UNCHANGED <<drawn, active, fading, records, reader, update, faults>>
        /\ UNCHANGED <<abandoned, expired, repeated>>
    BY DEF ZAdd, Calm, history
  <1>2. writer[w] \in WriterType /\ writer[w].pc = "zadd"
    BY <1>t DEF TypeOK, ZAdd, Writes
  <1>3. s \in WriterType /\ s.pc = "zadd" /\ s.ver = v /\ s.todo = writer[w].todo \ chunk
    BY <1>2 DEF WriterType
  <1>4. /\ writer' \in [Writers -> WriterType] /\ writer'[w] = s
        /\ \A u \in Writers : u # w => writer'[u] = writer[u]
    BY <1>t, <1>3, WriterAfter
  <1>5. v \in Drawn /\ v \in Versions /\ v \in Open
        /\ zset[v] = drawn[v] \ writer[w].todo /\ writer[w].todo \subseteq drawn[v]
    BY <1>t, <1>2, BoundsAssumption DEF WriterInv, Progress, Writes, Opened, Open, Drawn, Versions,
                                        TypeOK
  <1>6. /\ zset' \in [Versions -> SUBSET Accounts]
        /\ zset'[v] = zset[v] \cup chunk
        /\ \A u \in Versions : u # v => zset'[u] = zset[u]
    <2>1. chunk \in SUBSET Accounts
      BY <1>2 DEF WriterType
    <2> QED BY <1>t, <1>5, <2>1 DEF TypeOK, Added
  <1>7. zset'[v] = drawn[v] \ s.todo
    BY <1>3, <1>5, <1>6
  <1>8. TypeOK'
    BY <1>t, <1>1, <1>4, <1>5, <1>6, <1>7 DEF TypeOK, Drawn, WriterType, ReaderType
  <1>9. \A u \in Writers : u # w /\ Opened(u) => writer[u].ver # v
    BY <1>t, <1>2 DEF Distinct, Opened
  <1>10. Drawn \subseteq Versions
    BY <1>t, BoundsAssumption DEF TypeOK, Drawn, Versions
  <1>11. WriterInv'
    <2>n. active \in Nat
      BY <1>t, BoundsAssumption DEF TypeOK, Drawn
    <2>1. Progress(w)'
      <3> HIDE DEF s
      <3> QED BY <1>1, <1>3, <1>4, <1>5, <1>7 DEF Progress, Writes, Opened, Drawn
    <2>2. ASSUME NEW u \in Writers, u # w PROVE Progress(u)'
      <3>1. Opened(u) => writer[u].ver \in Versions /\ writer[u].ver # v
        BY <1>t, <1>9, <1>10, <2>2 DEF WriterInv, Progress, Opened
      <3> QED BY <1>1, <1>4, <1>6, <2>n, <2>2, <3>1, OthersKept DEF Drawn
    <2> QED BY <2>1, <2>2 DEF WriterInv
  <1>12. Distinct' /\ Open' = Open
    BY <1>t, <1>2, <1>3, <1>4, StillOpen DEF Opened
  <1>13. Invisible' /\ ActiveWhole'
    <2>1. active # 0 => active \in Versions /\ active # v
      BY <1>t, <1>5, <1>10 DEF TypeOK, Invisible
    <2> QED BY <1>t, <1>1, <1>6, <1>12, <2>1 DEF Invisible, ActiveWhole
  <1>14. ReaderInv'
    BY <1>1, <1>5, <1>6, <1>10, <1>12, ReadersKept DEF Drawn
  <1> QED BY <1>8, <1>11, <1>12, <1>13, <1>14 DEF IInv

\* What a run of the script leaves, whoever sends it: w is done, or will send it again.
LEMMA ActivateLeaves ==
  ASSUME IInv, NEW w \in Writers, writer[w].pc # "idle", ActivateScript(writer[w].ver),
         writer[w].ver \notin fading \/ writer[w].ver <= active,
         NEW s \in {Free, [writer[w] EXCEPT !.pc = "again"]}, writer' = [writer EXCEPT ![w] = s],
         UNCHANGED <<drawn, records, reader, update, abandoned, expired>>,
         repeated \subseteq repeated', repeated' \subseteq Drawn,
         s # Free => writer[w].ver \in repeated',
         faults' \in 0 .. MaxFaults
  PROVE  /\ TypeOK' /\ WriterInv'
         /\ writer'[w] = s /\ s.pc \in {"idle", "again"} /\ (s.pc # "idle" => s.ver = writer[w].ver)
         /\ \A u \in Writers : u # w => writer'[u] = writer[u]
  <1> DEFINE v == writer[w].ver
  <1>t. TypeOK /\ WriterInv /\ Distinct
    BY DEF IInv
  <1>1. writer[w] \in WriterType /\ v \in Drawn /\ Drawn \subseteq Versions /\ active \in Nat
    BY <1>t, BoundsAssumption DEF TypeOK, WriterInv, Progress, Drawn, Versions
  <1>2. /\ s \in WriterType /\ s.pc \in {"idle", "again"} /\ (s.pc # "idle" => s.ver = v)
        /\ (s.pc # "idle" => s # Free)
    BY <1>1, BoundsAssumption DEF WriterType, Free
  <1>3. /\ writer' \in [Writers -> WriterType] /\ writer'[w] = s
        /\ \A u \in Writers : u # w => writer'[u] = writer[u]
    BY <1>t, <1>2, WriterAfter
  <1>4. /\ active' \in {active, v} /\ active <= active' /\ v <= active'
        /\ zset' \in [Versions -> SUBSET Accounts]
        /\ \A u \in Versions : u # v => zset'[u] = zset[u]
        /\ zset'[v] = zset[v] \/ zset'[v] = {}
        /\ fading' \subseteq fading \cup {active} /\ fading' \subseteq Drawn
        /\ active' \notin fading'
    <2> HIDE DEF v
    <2>1. v \notin fading \/ v <= active
      BY DEF v
    <2>2. ActivateScript(v)
      BY DEF v
    <2> QED BY <1>t, <1>1, <2>1, <2>2, ScriptEffect
  <1>5. TypeOK'
    <2>1. \A u \in Versions : zset'[u] # {} => u \in Drawn /\ zset'[u] \subseteq drawn[u]
      BY <1>t, <1>1, <1>4 DEF TypeOK
    <2>2. active' \in {0} \cup Drawn
      BY <1>t, <1>1, <1>4 DEF TypeOK
    <2> HIDE DEF v
    <2> QED BY <1>t, <1>3, <1>4, <2>1, <2>2 DEF TypeOK, Drawn
  <1>6. WriterInv'
    <2>1. Progress(w)'
      <3> HIDE DEF v
      <3>1. s.pc = "again" => s.ver = v /\ v \in repeated' /\ v \in Drawn /\ v <= active'
        BY <1>1, <1>2, <1>4 DEF v
      <3> QED BY <1>2, <1>3, <3>1 DEF Progress, Writes, Opened, Drawn
    <2>2. ASSUME NEW u \in Writers, u # w PROVE Progress(u)'
      <3>1. Opened(u) => writer[u].ver \in Versions /\ writer[u].ver # v
        BY <1>t, <1>1, <2>2 DEF WriterInv, Progress, Opened, Distinct
      <3>2. active' \in Nat
        BY <1>1, <1>4, BoundsAssumption DEF Versions
      <3> QED BY <1>1, <1>3, <1>4, <2>2, <3>1, <3>2, OthersKept DEF Drawn
    <2> QED BY <2>1, <2>2 DEF WriterInv
  <1> QED BY <1>2, <1>3, <1>5, <1>6

LEMMA ActivateStep ==
  ASSUME IInv, NEW w \in Writers, Activate(w)
  PROVE  IInv'
  <1> DEFINE v == writer[w].ver
  <1>t. TypeOK /\ WriterInv /\ Distinct /\ Invisible /\ ActiveWhole
    BY DEF IInv
  <1>1. /\ writer[w].pc = "zadd" /\ Opened(w) /\ v \in Open /\ v \in Drawn /\ zset[v] = drawn[v]
        /\ v # active /\ v \notin fading /\ Drawn \subseteq Versions
    <2>1. writer[w].pc = "zadd" /\ writer[w].todo = {} /\ Progress(w)
      BY <1>t DEF Activate, Complete, Writes, WriterInv
    <2>2. Opened(w) /\ v \in Open
      BY <2>1 DEF Opened, Open
    <2>3. v \in Drawn /\ zset[v] = drawn[v]
      BY <2>1 DEF Progress, Writes
    <2>4. Drawn \subseteq Versions
      BY <1>t, BoundsAssumption DEF TypeOK, Drawn, Versions
    <2> QED BY <1>t, <2>1, <2>2, <2>3, <2>4 DEF Invisible
  <1>2. UNCHANGED <<drawn, records, reader, update, abandoned, expired>> /\ ActivateScript(v)
    BY DEF Activate
  <1>3. PICK s \in {Free, [writer[w] EXCEPT !.pc = "again"]} :
          /\ writer' = [writer EXCEPT ![w] = s]
          /\ repeated \subseteq repeated' /\ repeated' \subseteq Drawn
          /\ s # Free => v \in repeated'
          /\ faults' \in 0 .. MaxFaults
    <2>1. CASE Calm /\ Release(w) /\ UNCHANGED repeated
      <3>1. repeated' \subseteq Drawn /\ faults' \in 0 .. MaxFaults
        BY <1>t, <2>1 DEF TypeOK, Calm
      <3> QED BY <2>1, <3>1 DEF Release
    <2>2. CASE /\ Fault
               /\ writer' = [writer EXCEPT ![w].pc = "again"]
               /\ repeated' = repeated \cup {v}
      <3>1. repeated' \subseteq Drawn
        BY <1>t, <1>1, <2>2 DEF TypeOK
      <3>2. faults' \in 0 .. MaxFaults
        BY <1>t, <2>2, BoundsAssumption DEF TypeOK, Fault
      <3> QED BY <2>2, <3>1, <3>2
    <2> QED BY <2>1, <2>2 DEF Activate
  <1>4. /\ TypeOK' /\ WriterInv'
        /\ writer'[w] = s /\ s.pc \in {"idle", "again"} /\ (s.pc # "idle" => s.ver = v)
        /\ \A u \in Writers : u # w => writer'[u] = writer[u]
    BY <1>1, <1>2, <1>3, ActivateLeaves
  <1>5. /\ active' \in {active, v}
        /\ \A u \in Versions : u # v => zset'[u] = zset[u]
        /\ zset'[v] = zset[v] \/ active' = active
        /\ fading' \subseteq fading \cup {active}
    <2> HIDE DEF v
    <2> QED BY <1>t, <1>1, <1>2, ScriptEffect
  <1>6. Distinct' /\ Open' = Open \ {v}
    <2>1. ~(Opened(w)')
      BY <1>4 DEF Opened
    <2> QED BY <1>t, <1>1, <1>4, <2>1, Closed
  <1>7. Invisible'
    BY <1>t, <1>5, <1>6 DEF Invisible
  <1>8. ActiveWhole'
    <2>1. active # 0 => active \in Versions
      BY <1>t, <1>1 DEF TypeOK
    <2> QED BY <1>t, <1>1, <1>2, <1>5, <2>1 DEF ActiveWhole
  <1>9. ReaderInv'
    <2>1. \A u \in Drawn \ Open : u \notin Open' /\ zset'[u] = zset[u]
      BY <1>1, <1>5, <1>6
    <2> QED BY <1>2, <1>3, <2>1, ReadersKept DEF Drawn
  <1> QED BY <1>4, <1>6, <1>7, <1>8, <1>9 DEF IInv

LEMMA ActivateAgainStep ==
  ASSUME IInv, NEW w \in Writers, ActivateAgain(w)
  PROVE  IInv'
  <1> DEFINE v == writer[w].ver
  <1>t. TypeOK /\ WriterInv /\ Distinct /\ Invisible /\ ActiveWhole
    BY DEF IInv
  <1>1. /\ writer[w].pc = "again" /\ v \in Drawn /\ v \in repeated /\ v <= active
        /\ Drawn \subseteq Versions
    BY <1>t, BoundsAssumption
       DEF ActivateAgain, Writes, WriterInv, Progress, TypeOK, Drawn, Versions
  <1>2. /\ UNCHANGED <<drawn, records, reader, update, abandoned, expired, repeated, faults>>
        /\ ActivateScript(v) /\ writer' = [writer EXCEPT ![w] = Free]
    BY DEF ActivateAgain, Calm, history, Release
  <1>3. /\ TypeOK' /\ WriterInv' /\ writer'[w] = Free
        /\ \A u \in Writers : u # w => writer'[u] = writer[u]
    <2>1. repeated' \subseteq Drawn /\ faults' \in 0 .. MaxFaults
      BY <1>t, <1>2 DEF TypeOK
    <2> QED BY <1>1, <1>2, <2>1, ActivateLeaves
  <1>4. /\ active' \in {active, v} /\ active <= active'
        /\ \A u \in Versions : u # v => zset'[u] = zset[u]
        /\ zset'[v] = zset[v] \/ (zset'[v] = {} /\ v < active /\ active' = active)
        /\ fading' \subseteq fading \cup {active}
    <2> HIDE DEF v
    <2> QED BY <1>t, <1>1, <1>2, ScriptEffect
  <1>5. active \in Nat /\ v \in Nat /\ (active # 0 => active \in Versions)
    BY <1>t, <1>1, BoundsAssumption DEF TypeOK, Versions, Drawn
  <1>6. active' = active
    BY <1>1, <1>4, <1>5
  <1>7. Distinct' /\ Open' = Open
    <2>1. ~Opened(w) /\ ~(Opened(w)') /\ writer'[w].pc = "idle"
      BY <1>1, <1>3 DEF Opened, Free
    <2>2. \A u \in Writers : u # w =>
            /\ writer'[u].ver = writer[u].ver /\ (Opened(u)' <=> Opened(u))
            /\ (writer'[u].pc = "idle" <=> writer[u].pc = "idle")
      BY <1>3 DEF Opened
    <2>3. Distinct'
      BY <1>t, <2>1, <2>2 DEF Distinct
    <2> QED BY <2>1, <2>2, <2>3 DEF Open
  <1>8. Invisible'
    BY <1>t, <1>4, <1>6, <1>7 DEF Invisible
  <1>9. ActiveWhole'
    <2>1. active # 0 => zset'[active] = zset[active]
      BY <1>4, <1>5
    <2> QED BY <1>t, <1>2, <1>6, <2>1 DEF ActiveWhole
  <1>10. ReaderInv'
    <2>1. \A u \in Drawn \ Open :
            /\ u \notin Open'
            /\ zset'[u] = zset[u] \/ (zset'[u] = {} /\ u \in expired' \cup repeated')
      BY <1>1, <1>2, <1>4, <1>7
    <2> QED BY <1>2, <2>1, ReadersKept DEF Drawn
  <1> QED BY <1>3, <1>7, <1>8, <1>9, <1>10 DEF IInv

LEMMA WriterFailsStep ==
  ASSUME IInv, NEW w \in Writers, WriterFails(w)
  PROVE  IInv'
  <1> DEFINE v == writer[w].ver
  <1>t. TypeOK /\ WriterInv /\ Distinct /\ Invisible /\ ActiveWhole
    BY DEF IInv
  <1>1. /\ Opened(w) /\ v \in Open /\ v \in Drawn /\ v # active /\ Drawn \subseteq Versions
        /\ writer[w].todo \subseteq drawn[v] /\ writer[w] \in WriterType
        /\ active \in Nat /\ (active # 0 => active \in Versions)
    BY <1>t, BoundsAssumption
       DEF WriterFails, Opened, Open, WriterInv, Progress, Invisible, TypeOK, Drawn, Versions
  <1>2. /\ UNCHANGED <<drawn, active, fading, reader, update, expired, repeated>>
        /\ abandoned' = abandoned \cup {v} /\ writer' = [writer EXCEPT ![w] = Free]
    BY DEF WriterFails, Release
  <1>3. faults' \in 0 .. MaxFaults
    BY <1>t, BoundsAssumption DEF WriterFails, Fault, TypeOK
  <1>4. /\ writer' \in [Writers -> WriterType] /\ writer'[w] = Free
        /\ \A u \in Writers : u # w => writer'[u] = writer[u]
    <2>1. Free \in WriterType
      BY BoundsAssumption DEF Free, WriterType
    <2> QED BY <1>t, <1>2, <2>1, WriterAfter
  <1>5. /\ records' \subseteq Accounts /\ zset' \in [Versions -> SUBSET Accounts]
        /\ zset'[v] \subseteq drawn[v]
        /\ \A u \in Versions : u # v => zset'[u] = zset[u]
    <2>1. PICK some \in SUBSET writer[w].todo :
            \/ records' = records \cup some /\ UNCHANGED zset
            \/ Added(w, some) /\ UNCHANGED records
      BY DEF WriterFails
    <2>2. some \in SUBSET Accounts /\ some \subseteq drawn[v]
      BY <1>1 DEF WriterType
    <2>3. /\ records \subseteq Accounts /\ zset \in [Versions -> SUBSET Accounts]
          /\ zset[v] \subseteq drawn[v]
      BY <1>t, <1>1 DEF TypeOK
    <2>4. CASE records' = records \cup some /\ UNCHANGED zset
      BY <2>2, <2>3, <2>4
    <2>5. CASE Added(w, some) /\ UNCHANGED records
      BY <1>1, <2>2, <2>3, <2>5 DEF Added
    <2> QED BY <2>1, <2>4, <2>5
  <1>6. TypeOK'
    <2>1. \A u \in Versions : zset'[u] # {} => u \in Drawn /\ zset'[u] \subseteq drawn[u]
      BY <1>t, <1>1, <1>5 DEF TypeOK
    <2>2. abandoned' \subseteq Drawn
      BY <1>t, <1>1, <1>2 DEF TypeOK
    <2> HIDE DEF v
    <2> QED BY <1>t, <1>2, <1>3, <1>4, <1>5, <2>1, <2>2 DEF TypeOK, Drawn
  <1>7. WriterInv'
    <2>1. Progress(w)'
      BY <1>4 DEF Progress, Writes, Opened, Free
    <2>2. ASSUME NEW u \in Writers, u # w PROVE Progress(u)'
      <3>1. Opened(u) => writer[u].ver \in Versions /\ writer[u].ver # v
        BY <1>t, <1>1, <2>2 DEF WriterInv, Progress, Opened, Distinct
      <3> QED BY <1>1, <1>2, <1>4, <1>5, <2>2, <3>1, OthersKept DEF Drawn
    <2> QED BY <2>1, <2>2 DEF WriterInv
  <1>8. Distinct' /\ Open' = Open \ {v}
    <2>1. ~(Opened(w)') /\ writer'[w].pc = "idle"
      BY <1>4 DEF Opened, Free
    <2> QED BY <1>t, <1>1, <1>4, <2>1, Closed
  <1>9. Invisible' /\ ActiveWhole'
    BY <1>t, <1>1, <1>2, <1>5, <1>8 DEF Invisible, ActiveWhole
  <1>10. ReaderInv'
    <2>1. \A u \in Drawn \ Open : u \notin Open' /\ zset'[u] = zset[u]
      BY <1>1, <1>5, <1>8
    <2> QED BY <1>2, <2>1, ReadersKept DEF Drawn
  <1> QED BY <1>6, <1>7, <1>8, <1>9, <1>10 DEF IInv

(***************************************************************************)
(* The end of a grace period, and the steps of a reader.                   *)
(***************************************************************************)
LEMMA GraceEndsStep ==
  ASSUME IInv, NEW v \in Versions, GraceEnds(v)
  PROVE  IInv'
  <1>t. TypeOK /\ WriterInv /\ Distinct /\ Invisible /\ ActiveWhole
    BY DEF IInv
  <1>1. /\ UNCHANGED <<drawn, active, records, writer, reader, update, abandoned, repeated, faults>>
        /\ v \in fading /\ fading' = fading \ {v} /\ expired' = expired \cup {v}
    BY DEF GraceEnds, Calm
  <1>2. /\ zset' \in [Versions -> SUBSET Accounts] /\ zset'[v] = {}
        /\ \A u \in Versions : u # v => zset'[u] = zset[u]
    BY <1>t DEF GraceEnds, TypeOK
  <1>3. /\ v \in Drawn /\ v # active /\ v \notin Open /\ Drawn \subseteq Versions
        /\ active \in Nat /\ (active # 0 => active \in Versions)
    BY <1>t, <1>1, BoundsAssumption DEF TypeOK, Invisible, Drawn, Versions
  <1>4. TypeOK'
    <2>1. \A u \in Versions : zset'[u] # {} => u \in Drawn /\ zset'[u] \subseteq drawn[u]
      BY <1>t, <1>2 DEF TypeOK
    <2>2. expired' \subseteq Drawn
      BY <1>t, <1>1, <1>3 DEF TypeOK
    <2> QED BY <1>t, <1>1, <1>2, <2>1, <2>2 DEF TypeOK, Drawn
  <1>5. WriterInv'
    <2> SUFFICES ASSUME NEW u \in Writers PROVE Progress(u)'
      BY DEF WriterInv
    <2>1. Opened(u) => writer[u].ver \in Open /\ writer[u].ver \in Versions
      BY <1>t, <1>3 DEF WriterInv, Progress, Opened, Open
    <2> QED BY <1>1, <1>2, <1>3, <2>1, OthersKept DEF Drawn
  <1>6. Distinct' /\ Open' = Open
    BY <1>t, <1>1 DEF Distinct, Open, Opened
  <1>7. Invisible' /\ ActiveWhole'
    BY <1>t, <1>1, <1>2, <1>3, <1>6 DEF Invisible, ActiveWhole
  <1>8. ReaderInv'
    <2>1. \A u \in Drawn \ Open :
            /\ u \notin Open'
            /\ zset'[u] = zset[u] \/ (zset'[u] = {} /\ u \in expired' \cup repeated')
      BY <1>1, <1>2, <1>3, <1>6
    <2> QED BY <1>1, <2>1, ReadersKept DEF Drawn
  <1> QED BY <1>4, <1>5, <1>6, <1>7, <1>8 DEF IInv

\* A reader's step changes nothing else, so only what it has read matters.
LEMMA ReaderStepKeeps ==
  ASSUME IInv, NEW r \in Readers, NEW s \in ReaderType, reader' = [reader EXCEPT ![r] = s],
         UNCHANGED <<drawn, active, zset, fading, records, writer, update, faults>>,
         UNCHANGED <<abandoned, expired, repeated>>,
         Reading(r)'
  PROVE  IInv'
  <1>t. TypeOK /\ WriterInv /\ Distinct /\ Invisible /\ ActiveWhole /\ ReaderInv
    BY DEF IInv
  <1>1. /\ reader' \in [Readers -> ReaderType]
        /\ \A q \in Readers : q # r => reader'[q] = reader[q]
    BY <1>t, ReaderAfter
  <1>2. TypeOK'
    BY <1>t, <1>1 DEF TypeOK, Drawn
  <1>3. WriterInv'
    BY <1>t DEF WriterInv, Progress, Writes, Opened, Drawn
  <1>4. Distinct' /\ Open' = Open /\ Drawn' = Drawn
    BY <1>t DEF Distinct, Open, Opened, Drawn
  <1>5. Invisible' /\ ActiveWhole'
    BY <1>t, <1>4 DEF Invisible, ActiveWhole
  <1>6. ASSUME NEW q \in Readers PROVE Reading(q)'
    <2>1. CASE q = r
      BY <2>1
    <2>2. CASE q # r
      BY <1>t, <1>1, <1>4, <2>2 DEF ReaderInv, Reading, Reads
    <2> QED BY <2>1, <2>2
  <1>7. ReaderInv'
    BY <1>6 DEF ReaderInv
  <1> QED BY <1>2, <1>3, <1>4, <1>5, <1>7 DEF IInv

LEMMA ReadActiveStep ==
  ASSUME IInv, NEW r \in Readers, ReadActive(r)
  PROVE  IInv'
  <1> DEFINE s == [reader[r] EXCEPT !.pc = "range", !.ver = active]
  <1>t. TypeOK /\ Invisible /\ ActiveWhole
    BY DEF IInv
  <1>1. /\ UNCHANGED <<drawn, active, zset, fading, records, writer, update, faults>>
        /\ UNCHANGED <<abandoned, expired, repeated>>
        /\ active # 0
    BY DEF ReadActive, Calm, sets, history
  <1>2. reader' = [reader EXCEPT ![r] = s]
    BY <1>t DEF ReadActive, TypeOK
  <1>3. active \in Drawn /\ active \in 0 .. MaxVersion /\ active \notin Open
    BY <1>t, <1>1, BoundsAssumption DEF TypeOK, Drawn, Invisible
  <1>4. s \in ReaderType /\ s.pc = "range" /\ s.ver = active
    BY <1>t, <1>3 DEF TypeOK, ReaderType
  <1>5. reader'[r] = s
    BY <1>t, <1>2 DEF TypeOK
  <1>6. Reading(r)'
    <2>1. Open' = Open /\ Drawn' = Drawn
      BY <1>1 DEF Open, Opened, Drawn
    <2> HIDE DEF s
    <2> QED BY <1>t, <1>1, <1>3, <1>4, <1>5, <2>1 DEF Reading, Reads, ActiveWhole
  <1> QED BY <1>1, <1>2, <1>4, <1>6, ReaderStepKeeps

\* An answer ends a read.
LEMMA AnswerStep ==
  ASSUME IInv, NEW r \in Readers, NEW result \in SUBSET Accounts, Answer(r, result),
         UNCHANGED <<drawn, active, zset, fading, records, writer, update, faults>>,
         UNCHANGED <<abandoned, expired, repeated>>
  PROVE  IInv'
  <1> DEFINE s == [Resting EXCEPT !.result = result]
  <1>1. s \in ReaderType /\ s.pc = "idle" /\ s.ver = 0
    BY BoundsAssumption DEF Resting, ReaderType
  <1>2. reader' = [reader EXCEPT ![r] = s] /\ reader'[r] = s
    BY DEF Answer, IInv, TypeOK
  <1>3. Reading(r)'
    <2> HIDE DEF s
    <2> QED BY <1>1, <1>2 DEF Reading, Reads
  <1> QED BY <1>1, <1>2, <1>3, ReaderStepKeeps

LEMMA ReadMembersStep ==
  ASSUME IInv, NEW r \in Readers, ReadMembers(r)
  PROVE  IInv'
  <1> DEFINE ids == zset[reader[r].ver]
             s == [reader[r] EXCEPT !.pc = "records", !.ids = ids]
  <1>t. TypeOK /\ ReaderInv
    BY DEF IInv
  <1>1. /\ UNCHANGED <<drawn, active, zset, fading, records, writer, update, faults>>
        /\ UNCHANGED <<abandoned, expired, repeated>>
    BY DEF ReadMembers, Calm, sets, history
  <1>2. CASE ids = {}
    BY <1>1, <1>2, AnswerStep DEF ReadMembers, Miss
  <1>3. CASE ids # {}
    <2>1. reader' = [reader EXCEPT ![r] = s]
      BY <1>t, <1>3 DEF ReadMembers, TypeOK
    <2>2. /\ reader[r].ver \in Drawn /\ reader[r].ver \notin Open /\ ids = drawn[reader[r].ver]
      BY <1>t, <1>3 DEF ReadMembers, ReaderInv, Reading, Reads
    <2>3. ids \in SUBSET Accounts
      BY <1>t, <2>2, BoundsAssumption DEF TypeOK, Drawn, Versions
    <2>4. s \in ReaderType /\ s.pc = "records" /\ s.ver = reader[r].ver /\ s.ids = ids
      BY <1>t, <2>3 DEF TypeOK, ReaderType
    <2>5. reader'[r] = s
      BY <1>t, <2>1 DEF TypeOK
    <2>6. Reading(r)'
      <3>1. Open' = Open /\ Drawn' = Drawn
        BY <1>1 DEF Open, Opened, Drawn
      <3> HIDE DEF s, ids
      <3> QED BY <1>1, <2>2, <2>4, <2>5, <3>1 DEF Reading, Reads
    <2> QED BY <1>1, <2>1, <2>4, <2>6, ReaderStepKeeps
  <1> QED BY <1>2, <1>3

LEMMA ReadRecordsStep ==
  ASSUME IInv, NEW r \in Readers, ReadRecords(r)
  PROVE  IInv'
  <1>1. /\ UNCHANGED <<drawn, active, zset, fading, records, writer, update, faults>>
        /\ UNCHANGED <<abandoned, expired, repeated>>
    BY DEF ReadRecords, Calm, sets, history
  <1>2. reader[r].ids \in SUBSET Accounts /\ Miss \in SUBSET Accounts
    BY DEF IInv, TypeOK, ReaderType, Miss
  <1>3. Answer(r, reader[r].ids) \/ Answer(r, Miss)
    BY DEF ReadRecords
  <1> QED BY <1>1, <1>2, <1>3, AnswerStep

(***************************************************************************)
(* Everything together.                                                    *)
(***************************************************************************)
LEMMA QuietStep ==
  ASSUME IInv, UNCHANGED <<drawn, active, zset, fading, writer, reader, faults>>,
         UNCHANGED <<abandoned, expired, repeated>>,
         records' \subseteq Accounts, update' \in [Updaters -> SUBSET Accounts]
  PROVE  IInv'
  <1>1. TypeOK'
    BY DEF IInv, TypeOK, Drawn
  <1>2. WriterInv'
    BY DEF IInv, WriterInv, Progress, Writes, Opened, Drawn
  <1>3. Distinct' /\ Open' = Open /\ Drawn' = Drawn
    BY DEF IInv, Distinct, Open, Opened, Drawn
  <1>4. Invisible' /\ ActiveWhole'
    BY <1>3 DEF IInv, Invisible, ActiveWhole
  <1>5. ReaderInv'
    BY <1>3 DEF IInv, ReaderInv, Reading, Reads
  <1> QED BY <1>1, <1>2, <1>3, <1>4, <1>5 DEF IInv

LEMMA StepInv == IInv /\ [Next]_vars => IInv'
  <1> SUFFICES ASSUME IInv, [Next]_vars PROVE IInv'
    OBVIOUS
  <1>t. TypeOK
    BY DEF IInv
  <1>1. CASE \E w \in Writers :
               SetSnapshot(w) \/ WriterFails(w) \/ \E members \in Lists : Draw(w, members)
    BY <1>1, DrawStep, WriteAccountsStep, ZAddStep, ActivateStep, ActivateAgainStep,
       WriterFailsStep DEF SetSnapshot
  <1>2. CASE \E v \in Versions : GraceEnds(v)
    BY <1>2, GraceEndsStep
  <1>3. CASE \E r \in Readers : ReadActive(r) \/ ReadMembers(r) \/ ReadRecords(r)
    BY <1>3, ReadActiveStep, ReadMembersStep, ReadRecordsStep
  <1>4. CASE RecordStep
    BY <1>t, <1>4, RecordStepLeaves, QuietStep
  <1>5. CASE UNCHANGED vars
    <2>1. UNCHANGED <<drawn, active, zset, fading, records, writer, reader, update, faults>>
          /\ UNCHANGED <<abandoned, expired, repeated>>
      BY <1>5 DEF vars
    <2> QED BY <1>t, <2>1, QuietStep DEF TypeOK
  <1> QED BY <1>1, <1>2, <1>3, <1>4, <1>5 DEF Next, RecordStep

THEOREM Invariance == Spec => []IInv
  BY InitInv, StepInv, PTL DEF Spec

\* The keys of a bucket always have the shapes they are drawn with: the active version was
\* drawn and never fades, and a sorted set holds accounts of its own version only.
THEOREM TypeCorrect == Spec => []TypeOK
  BY Invariance, InvImplies, PTL

\* A reader that took the active version finds all of it, however many writers overtake
\* each other, until the grace period is over or an activation is sent a second time.
THEOREM ReadersKeepTheirSnapshots == Spec => []ReaderKeepsItsSnapshot
  BY Invariance, InvImplies, PTL

(***************************************************************************)
(* The bucket implements the register: the script that activates a newer   *)
(* version is the write, taking the version begins a read, and an answer   *)
(* ends it.                                                                *)
(***************************************************************************)
Seen(r) == [busy |-> ~Reads(r, "idle"), seen |-> List(reader[r].ver), result |-> reader[r].result]
Seens == [r \in Readers |-> Seen(r)]

\* What the register shows of a reader is the same while the reader rests, for a version
\* that was drawn keeps its list.
LEMMA SeensKept ==
  ASSUME IInv, reader' = reader, \A v \in Drawn : drawn'[v] = drawn[v]
  PROVE  Seens' = Seens
  <1> SUFFICES ASSUME NEW r \in Readers PROVE Seen(r)' = Seen(r)
    BY DEF Seens
  <1>1. reader[r].ver \in {0} \cup Drawn
    BY DEF IInv, ReaderInv, Reading, Reads
  <1>2. List(reader[r].ver)' = List(reader[r].ver)
    BY <1>1 DEF List
  <1>3. Reads(r, "idle")' <=> Reads(r, "idle")
    BY DEF Reads
  <1>4. Reads(r, "idle")' = Reads(r, "idle")
    BY <1>3 DEF Reads
  <1> QED BY <1>2, <1>4 DEF Seen

\* A step that leaves the readers and the active version alone is no step of the register.
LEMMA RegisterStutters ==
  ASSUME IInv, UNCHANGED <<active, reader>>, \A v \in Drawn : drawn'[v] = drawn[v]
  PROVE  UNCHANGED Register!vars
  <1>1. active \in {0} \cup Drawn
    BY DEF IInv, TypeOK
  <1>2. List(active)' = List(active)
    BY <1>1 DEF List
  <1>3. Seens' = Seens
    BY SeensKept
  <1> QED BY <1>2, <1>3 DEF Register!vars, Seens, Seen

LEMMA ScriptIsAWrite ==
  ASSUME IInv, NEW v \in Drawn, ActivateScript(v), v \notin fading \/ v <= active,
         UNCHANGED <<drawn, reader>>
  PROVE  [Register!Next]_(Register!vars)
  <1>1. active' \in {active, v} /\ active <= active'
    BY ScriptEffect DEF IInv
  <1>2. CASE active' = active
    BY <1>2, RegisterStutters
  <1>3. CASE active' # active
    <2>1. active' = v /\ active' > active
      BY <1>1, <1>3, BoundsAssumption DEF IInv, TypeOK, Drawn
    <2>2. List(active)' \in SUBSET Accounts
      BY <2>1 DEF IInv, TypeOK, List, Drawn
    <2>3. Seens' = Seens
      BY SeensKept
    <2>4. Register!Write
      BY <2>1, <2>2, <2>3 DEF Register!Write, Seens, Seen
    <2> QED BY <2>4 DEF Register!Next
  <1> QED BY <1>2, <1>3

\* The view of a reader's step.
LEMMA SeensAfter ==
  ASSUME IInv, NEW r \in Readers, NEW s \in ReaderType, reader' = [reader EXCEPT ![r] = s],
         drawn' = drawn
  PROVE  Seens' = [Seens EXCEPT ![r] = [busy |-> s.pc # "idle", seen |-> List(s.ver),
                                        result |-> s.result]]
  <1>1. reader'[r] = s /\ \A q \in Readers : q # r => reader'[q] = reader[q]
    BY ReaderAfter DEF IInv
  <1>2. ASSUME NEW q \in Readers, q # r PROVE Seen(q)' = Seen(q)
    <2>1. reader'[q] = reader[q]
      BY <1>1, <1>2
    <2>2. List(reader[q].ver)' = List(reader[q].ver)
      BY <2>1 DEF List
    <2> QED BY <2>1, <2>2 DEF Seen, Reads
  <1>3. Seen(r)' = [busy |-> s.pc # "idle", seen |-> List(s.ver), result |-> s.result]
    <2>1. List(reader[r].ver)' = List(s.ver)
      BY <1>1 DEF List
    <2> QED BY <1>1, <2>1 DEF Seen, Reads
  <1> QED BY <1>2, <1>3 DEF Seens

LEMMA ReadActiveBegins ==
  ASSUME IInv, NEW r \in Readers, ReadActive(r)
  PROVE  Register!Begin(r)
  <1> DEFINE s == [reader[r] EXCEPT !.pc = "range", !.ver = active]
  <1>1. /\ reader' = [reader EXCEPT ![r] = s] /\ drawn' = drawn /\ active' = active
        /\ Reads(r, "idle")
    BY DEF ReadActive, sets, IInv, TypeOK
  <1>2. active \in 0 .. MaxVersion
    BY BoundsAssumption DEF IInv, TypeOK, Drawn
  <1>3. s \in ReaderType /\ s.pc = "range" /\ s.ver = active /\ s.result = reader[r].result
    BY <1>2 DEF IInv, TypeOK, ReaderType
  <1>4. Seens' = [Seens EXCEPT ![r] = [busy |-> s.pc # "idle", seen |-> List(s.ver),
                                       result |-> s.result]]
    <2> HIDE DEF s
    <2> QED BY <1>1, <1>3, SeensAfter
  <1>5. Seens' = [Seens EXCEPT ![r] = Register!View(TRUE, List(active), @.result)]
    <2>1. Seens[r].result = reader[r].result
      BY DEF Seens, Seen
    <2>2. (s.pc # "idle") = TRUE
      BY <1>3
    <2> HIDE DEF s
    <2> QED BY <1>3, <1>4, <2>1, <2>2 DEF Register!View
  <1>6. List(active)' = List(active)
    BY <1>1 DEF List
  <1>7. ~Seens[r].busy
    BY <1>1 DEF Seens, Seen
  <1> QED BY <1>1, <1>5, <1>6, <1>7 DEF Register!Begin, Seens, Seen

LEMMA AnswerEnds ==
  ASSUME IInv, NEW r \in Readers, ~Reads(r, "idle"),
         NEW result \in {Miss, List(reader[r].ver)}, Answer(r, result),
         UNCHANGED <<drawn, active>>
  PROVE  Register!End(r)
  <1> DEFINE s == [Resting EXCEPT !.result = result]
  <1>1. List(reader[r].ver) \in SUBSET Accounts /\ Miss \in SUBSET Accounts
    BY DEF IInv, ReaderInv, Reading, TypeOK, List, Miss, Drawn
  <1>2. s \in ReaderType /\ s.pc = "idle" /\ s.ver = 0 /\ s.result = result
    BY <1>1, BoundsAssumption DEF Resting, ReaderType
  <1>3. Seens' = [Seens EXCEPT ![r] = [busy |-> s.pc # "idle", seen |-> List(s.ver),
                                       result |-> s.result]]
    <2>1. reader' = [reader EXCEPT ![r] = s]
      BY DEF Answer
    <2> HIDE DEF s
    <2> QED BY <1>2, <2>1, SeensAfter
  <1>4. Seens' = [Seens EXCEPT ![r] = [busy |-> FALSE, seen |-> {}, result |-> result]]
    <2>1. (s.pc # "idle") = FALSE
      BY <1>2
    <2>2. List(s.ver) = {}
      BY <1>2 DEF List
    <2> HIDE DEF s
    <2> QED BY <1>2, <1>3, <2>1, <2>2
  <1>5. Seens[r].busy /\ Seens[r].seen = List(reader[r].ver)
    BY DEF Seens, Seen
  <1>6. List(active)' = List(active)
    BY DEF List
  <1>7. result \in {Register!Miss, Seens[r].seen}
    BY <1>5 DEF Register!Miss, Miss
  <1> QED BY <1>4, <1>5, <1>6, <1>7 DEF Register!End, Register!View, Seens, Seen

LEMMA ReadMembersMaps ==
  ASSUME IInv, NEW r \in Readers, ReadMembers(r)
  PROVE  Register!End(r) \/ UNCHANGED Register!vars
  <1> DEFINE ids == zset[reader[r].ver]
             s == [reader[r] EXCEPT !.pc = "records", !.ids = ids]
  <1>1. drawn' = drawn /\ active' = active /\ ~Reads(r, "idle") /\ Reads(r, "range")
    BY DEF ReadMembers, sets, Reads
  <1>2. CASE ids = {}
    BY <1>1, <1>2, AnswerEnds DEF ReadMembers
  <1>3. CASE ids # {}
    <2>1. reader' = [reader EXCEPT ![r] = s]
      BY <1>3 DEF ReadMembers, IInv, TypeOK
    <2>2. ids \in SUBSET Accounts
      <3>1. reader[r].ver \in Drawn
        BY <1>1 DEF IInv, ReaderInv, Reading
      <3> QED BY <3>1, BoundsAssumption DEF IInv, TypeOK, Drawn, Versions
    <2>3. /\ s \in ReaderType /\ s.pc = "records" /\ s.ver = reader[r].ver
          /\ s.result = reader[r].result
      BY <2>2 DEF IInv, TypeOK, ReaderType
    <2>4. Seens' = [Seens EXCEPT ![r] = [busy |-> s.pc # "idle", seen |-> List(s.ver),
                                         result |-> s.result]]
      <3> HIDE DEF s
      <3> QED BY <1>1, <2>1, <2>3, SeensAfter
    <2>5. [busy |-> s.pc # "idle", seen |-> List(s.ver), result |-> s.result] = Seen(r)
      <3>1. (s.pc # "idle") = (~Reads(r, "idle"))
        BY <1>1, <2>3
      <3> HIDE DEF s
      <3> QED BY <2>3, <3>1 DEF Seen
    <2>6. Seens' = Seens
      BY <2>4, <2>5 DEF Seens
    <2>7. List(active)' = List(active)
      BY <1>1 DEF List
    <2> QED BY <1>1, <2>6, <2>7 DEF Register!vars, Seens, Seen
  <1> QED BY <1>2, <1>3

LEMMA ReadRecordsEnds ==
  ASSUME IInv, NEW r \in Readers, ReadRecords(r)
  PROVE  Register!End(r)
  <1>1. drawn' = drawn /\ active' = active /\ ~Reads(r, "idle") /\ Reads(r, "records")
    BY DEF ReadRecords, sets, Reads
  <1>2. reader[r].ids = List(reader[r].ver)
    BY <1>1 DEF IInv, ReaderInv, Reading, List, Drawn
  <1>3. Answer(r, List(reader[r].ver)) \/ Answer(r, Miss)
    BY <1>2 DEF ReadRecords
  <1> QED BY <1>1, <1>3, AnswerEnds

LEMMA InitRegister == Init => Register!Init
  <1> SUFFICES ASSUME Init PROVE Register!Init
    OBVIOUS
  <1>1. ASSUME NEW r \in Readers PROVE Seen(r) = Register!View(FALSE, {}, Register!Miss)
    <2>1. (~Reads(r, "idle")) = FALSE /\ reader[r].ver = 0 /\ reader[r].result = {}
      BY DEF Init, Reads, Resting, Miss
    <2> QED BY <2>1 DEF Seen, List, Register!View, Register!Miss
  <1>2. active = 0 /\ List(active) = {}
    BY DEF Init, List
  <1> QED BY <1>1, <1>2 DEF Register!Init, Seen

LEMMA StepRegister == IInv /\ [Next]_vars => [Register!Next]_(Register!vars)
  <1> SUFFICES ASSUME IInv, [Next]_vars PROVE [Register!Next]_(Register!vars)
    OBVIOUS
  <1>1. ASSUME NEW w \in Writers, SetSnapshot(w) PROVE [Register!Next]_(Register!vars)
    <2>1. CASE WriteAccounts(w) \/ ZAdd(w)
      BY <2>1, RegisterStutters DEF WriteAccounts, ZAdd, sets
    <2>2. CASE Activate(w) \/ ActivateAgain(w)
      <3> DEFINE v == writer[w].ver
      <3>1. ActivateScript(v) /\ UNCHANGED <<drawn, reader>> /\ writer[w].pc \in {"zadd", "again"}
        BY <2>2 DEF Activate, ActivateAgain, Writes
      <3>2. v \in Drawn
        BY <3>1 DEF IInv, WriterInv, Progress
      <3>3. v \notin fading \/ v <= active
        <4>1. CASE writer[w].pc = "zadd"
          BY <4>1 DEF IInv, Invisible, Open, Opened
        <4>2. CASE writer[w].pc = "again"
          BY <4>2 DEF IInv, WriterInv, Progress, Writes
        <4> QED BY <3>1, <4>1, <4>2
      <3> HIDE DEF v
      <3> QED BY <3>1, <3>2, <3>3, ScriptIsAWrite
    <2> QED BY <1>1, <2>1, <2>2 DEF SetSnapshot
  <1>2. ASSUME NEW w \in Writers, WriterFails(w) PROVE [Register!Next]_(Register!vars)
    BY <1>2, RegisterStutters DEF WriterFails
  <1>3. ASSUME NEW w \in Writers, NEW members \in Lists, Draw(w, members)
        PROVE  [Register!Next]_(Register!vars)
    <2>1. \A v \in Drawn : drawn'[v] = drawn[v]
      BY <1>3, DrawKeeps DEF Draw, IInv
    <2> QED BY <1>3, <2>1, RegisterStutters DEF Draw, sets
  <1>4. ASSUME NEW v \in Versions, GraceEnds(v) PROVE [Register!Next]_(Register!vars)
    BY <1>4, RegisterStutters DEF GraceEnds
  <1>5. ASSUME NEW r \in Readers, ReadActive(r) \/ ReadMembers(r) \/ ReadRecords(r)
        PROVE  [Register!Next]_(Register!vars)
    BY <1>5, ReadActiveBegins, ReadMembersMaps, ReadRecordsEnds DEF Register!Next
  <1>6. CASE RecordStep
    BY <1>6, RecordStepLeaves, RegisterStutters DEF IInv
  <1>7. CASE UNCHANGED vars
    BY <1>7, RegisterStutters DEF vars
  <1> QED BY <1>1, <1>2, <1>3, <1>4, <1>5, <1>6, <1>7 DEF Next, RecordStep

\* However readers and writers of a bucket interleave, what readers get is what the
\* register gives them: nothing, or the whole list that was current when the read began.
THEOREM BucketIsARegister == Spec => ImplementsRegister
  <1>1. Spec => []IInv
    BY Invariance
  <1> QED BY <1>1, InitRegister, StepRegister, PTL DEF Spec, ImplementsRegister, Register!Spec

=============================================================================
