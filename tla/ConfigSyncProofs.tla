-------------------------- MODULE ConfigSyncProofs --------------------------
(***************************************************************************)
(* CachedMeansApplied is not inductive: it says nothing of the sync that   *)
(* is writing.  Undisturbed, that sync is the only one past its fetch, it  *)
(* was given every key of its version, and the keys it has no longer to    *)
(* write hold that version, or what the gateway wrote there itself; so     *)
(* when it finishes the scheduler has what the cache has, unless the cache *)
(* has expired.  NeverGoesBack needs to know as well what that sync can    *)
(* overwrite: nothing newer than its version.                              *)
(***************************************************************************)
EXTENDS ConfigSync, TLAPS

\* A full sync asks for everything.
FullFromZero == \A t \in Forcers : At(t, "fetch") => sync[t].since = 0

\* Every response that is stored is a complete version.
Complete == \A t \in Threads : At(t, "store") => sync[t].todo = KeysOf(sync[t].got)

OneBusy == \A t, u \in Threads : Busy(t) /\ Busy(u) => t = u

Written(t) ==
  /\ cache \in {0, sync[t].got}
  /\ \A k \in KeysOf(sync[t].got) \ sync[t].todo : sched[k] \in {sync[t].got, Local}

Settled == \A k \in KeysOf(cache) : sched[k] \in {cache, Local}

Ordered ==
  Undisturbed =>
    /\ OneBusy
    /\ \A t \in Threads : At(t, "apply") => Written(t)
    /\ (\A t \in Threads : ~At(t, "apply")) => Settled

IInv == TypeOK /\ FullFromZero /\ Complete /\ Ordered

\* The invariant says what the run checks.
LEMMA InvImplies == IInv => TypeOK /\ CachedMeansApplied
  BY DEF IInv, Ordered, Settled, CachedMeansApplied, Busy, At

LEMMA InitInv == Init => IInv
  <1> SUFFICES ASSUME Init PROVE IInv
    OBVIOUS
  <1> USE DEF Init
  <1>1. TypeOK
    <2>1. /\ published \in Seq(SUBSET Keys) /\ Version = 0 /\ Versions = {0}
          /\ Version <= MaxVersion
      BY VersionBound DEF Versions, Version
    <2>2. sync \in [Threads -> SyncType]
      BY <2>1 DEF SyncType, Idle, Sync
    <2>3. \A t \in Threads : sync[t].todo \subseteq KeysOf(sync[t].got)
      BY DEF Idle, Sync
    <2>4. sched \in [Keys -> Versions \cup {Local}] /\ \A k \in Keys : sched[k] = 0
      BY <2>1
    <2>5. cache \in Versions /\ overlapped \in BOOLEAN
      BY <2>1
    <2>6. faults \in 0 .. MaxFaults
      BY FaultsBound
    <2> QED BY <2>1, <2>2, <2>3, <2>4, <2>5, <2>6 DEF TypeOK
  <1>2. FullFromZero /\ Complete
    BY DEF FullFromZero, Complete, At, Idle, Sync, Threads
  <1>3. Ordered
    BY DEF Ordered, OneBusy, Settled, Busy, At, Idle, Sync, KeysOf
  <1> QED BY <1>1, <1>2, <1>3 DEF IInv

\* The keys of a published version are a set of keys.
LEMMA KeysOfType ==
  ASSUME TypeOK, NEW v \in Versions
  PROVE  KeysOf(v) \subseteq Keys
  BY DEF TypeOK, Versions, Version, KeysOf

\* Put writes the keys it is given, and no others.
LEMMA PutWrites ==
  ASSUME NEW written, NEW version, Put(written, version)
  PROVE  /\ sched' = [k \in Keys |-> IF k \in written THEN version ELSE sched[k]]
         /\ \A k \in Keys : sched'[k] = IF k \in written THEN version ELSE sched[k]
  BY DEF Put

\* What a sync writes: the next key and records of accounts, all of its version.
LEMMA ApplyWrites ==
  ASSUME TypeOK, NEW t \in Threads, Apply(t)
  PROVE  \E k \in NextKeys(t), written \in SUBSET KeysOf(sync[t].got) :
           /\ k \in written
           /\ Put(written, sync[t].got)
           /\ Become(t, [sync[t] EXCEPT !.todo = @ \ {k}])
  <1>1. PICK k \in NextKeys(t), again \in SUBSET (Accounts \cap KeysOf(sync[t].got)) :
          /\ Put({k} \cup again, sync[t].got)
          /\ Become(t, [sync[t] EXCEPT !.todo = @ \ {k}])
    BY DEF Apply
  <1>2. k \in KeysOf(sync[t].got)
    BY DEF NextKeys, TypeOK
  <1> QED BY <1>1, <1>2

\* The gateway's own writes: whatever they take from the scheduler becomes Local.
LocalWrite == (\E b \in Buckets : LocalRebuild(b)) \/ \E a \in Accounts : LocalAccount(a)

LEMMA LocalWrites ==
  ASSUME LocalWrite
  PROVE  /\ \E written \in SUBSET Keys : Put(written, Local)
         /\ UNCHANGED <<published, cache, sync, faults, overlapped>>
  BY AccountsAreRecords DEF LocalWrite, LocalRebuild, LocalAccount, Calm, Keys

\* Publishing leaves the earlier versions alone.
LEMMA PublishKeeps ==
  ASSUME TypeOK, NEW l \in Layouts, Publish(l)
  PROVE  /\ Version' = Version + 1
         /\ published' \in Seq(SUBSET Keys)
         /\ Versions \subseteq Versions'
         /\ \A v \in Versions : KeysOf(v)' = KeysOf(v)
  <1>1. l \in SUBSET Keys
    BY LayoutsAreKeys
  <1>2. published' = Append(published, l) /\ published \in Seq(SUBSET Keys)
    BY DEF Publish, TypeOK
  <1>3. /\ Version' = Version + 1 /\ Version \in Nat
        /\ published' \in Seq(SUBSET Keys)
        /\ \A i \in 1 .. Version : published'[i] = published[i]
    BY <1>1, <1>2 DEF Version
  <1> QED BY <1>3 DEF Versions, KeysOf

\* What a fetch stores is complete: the poller goes on only for a newer version, and
\* a full sync asks from zero.
LEMMA ReplyIsComplete ==
  ASSUME TypeOK, FullFromZero, NEW t \in Threads, At(t, "fetch"), ~NothingNew(t)
  PROVE  ReplyKeys(sync[t].since) = KeysOf(Version)
  <1>1. sync[t].since \in Versions /\ Version \in Nat
    BY DEF TypeOK, SyncType, Version
  <1>2. CASE sync[t].since < Version
    BY <1>2 DEF ReplyKeys
  <1>3. CASE ~(sync[t].since < Version)
    <2>1. ReplyKeys(sync[t].since) = {} /\ Version <= sync[t].since
      BY <1>1, <1>3 DEF ReplyKeys, Versions
    <2>2. t \in Forcers
      BY <2>1 DEF NothingNew, Threads
    <2>3. Version = 0
      BY <2>1, <2>2, <1>1 DEF FullFromZero
    <2> QED BY <2>1, <2>3 DEF KeysOf
  <1> QED BY <1>2, <1>3

LEMMA TypeStep == IInv /\ [Next]_vars => TypeOK'
  <1> SUFFICES ASSUME IInv, [Next]_vars PROVE TypeOK'
    OBVIOUS
  <1> USE VersionBound, FaultsBound
  <1>t. TypeOK /\ Version \in Nat
    BY DEF IInv, TypeOK, Version
  <1>1. CASE \E l \in Layouts : Publish(l)
    <2> PICK l \in Layouts : Publish(l)
      BY <1>1
    <2>1. /\ Version' = Version + 1 /\ published' \in Seq(SUBSET Keys)
          /\ Versions \subseteq Versions'
          /\ \A v \in Versions : KeysOf(v)' = KeysOf(v)
      BY <1>t, PublishKeeps
    <2>2. cache' \in Versions' /\ sched' \in [Keys -> Versions' \cup {Local}] /\ Version' <= MaxVersion
      BY <1>t, <2>1 DEF TypeOK, Publish
    <2>3. \A k \in Keys : sched'[k] \notin {0, Local} => k \in published'[sched'[k]]
      <3> SUFFICES ASSUME NEW k \in Keys, sched'[k] \notin {0, Local}
                   PROVE  k \in published'[sched'[k]]
        OBVIOUS
      <3>1. sched'[k] = sched[k] /\ sched[k] \in Versions
        BY <1>t DEF TypeOK, Publish
      <3>2. k \in KeysOf(sched[k])
        BY <1>t, <3>1 DEF TypeOK, KeysOf
      <3> QED BY <2>1, <3>1, <3>2 DEF KeysOf
    <2>4. sync' \in [Threads -> SyncType']
      BY <1>t, <2>1 DEF TypeOK, Publish, SyncType
    <2>5. (\A t \in Threads : sync[t].todo \subseteq KeysOf(sync[t].got))'
      <3> SUFFICES ASSUME NEW t \in Threads
                   PROVE  (sync[t].todo \subseteq KeysOf(sync[t].got))'
        OBVIOUS
      <3>1. sync' = sync /\ sync[t].got \in Versions
            /\ sync[t].todo \subseteq KeysOf(sync[t].got)
        BY <1>t DEF TypeOK, SyncType, Publish
      <3>2. published'[sync[t].got] = published[sync[t].got] \/ sync[t].got = 0
        BY <2>1, <3>1 DEF KeysOf
      <3> QED BY <3>1, <3>2 DEF KeysOf
    <2>6. faults' \in 0 .. MaxFaults /\ overlapped' \in BOOLEAN
      BY <1>t DEF TypeOK, Publish, Calm
    <2> QED BY <2>1, <2>2, <2>3, <2>4, <2>5, <2>6 DEF TypeOK
  <1>2. ASSUME NEW t \in Threads, Progress(t) \/ BeginFull(t) \/ Abandon(t)
        PROVE  TypeOK'
    <2>1. UNCHANGED published
      BY <1>2 DEF Progress, ReadVersion, Fetch, Store, Apply, Finish, BeginFull, Abandon
    <2>2. Versions' = Versions /\ Version' = Version /\ \A v : KeysOf(v)' = KeysOf(v)
      BY <2>1 DEF Versions, Version, KeysOf
    <2>3. faults' \in 0 .. MaxFaults
      BY <1>t, <1>2 DEF TypeOK, Progress, ReadVersion, Fetch, Store, Apply, Finish,
                        BeginFull, Abandon, Calm, Fault
    <2>4. overlapped' \in BOOLEAN
      BY <1>t, <1>2 DEF TypeOK, Progress, ReadVersion, Fetch, Store, Apply, Finish,
                        BeginFull, Abandon
    <2>5. sync[t] \in SyncType /\ sync[t].todo \subseteq KeysOf(sync[t].got)
      BY <1>t DEF TypeOK
    <2>6. cache' \in Versions
      BY <1>t, <1>2, <2>5 DEF TypeOK, SyncType, Progress, ReadVersion, Fetch, Store,
                              Apply, Finish, BeginFull, Abandon
    <2>7. /\ sched' \in [Keys -> Versions \cup {Local}]
          /\ \A k \in Keys : sched'[k] \notin {0, Local} => k \in published[sched'[k]]
      <3>1. CASE UNCHANGED sched
        BY <1>t, <3>1 DEF TypeOK
      <3>2. CASE Apply(t)
        <4>1. PICK written \in SUBSET KeysOf(sync[t].got) : Put(written, sync[t].got)
          BY <1>t, <3>2, ApplyWrites
        <4>2. sync[t].got \in Versions
          BY <2>5 DEF SyncType
        <4>3. \A k \in written : k \in published[sync[t].got] \/ sync[t].got = 0
          BY DEF KeysOf
        <4> QED BY <1>t, <4>1, <4>2, <4>3, PutWrites DEF TypeOK
      <3> QED BY <1>2, <3>1, <3>2 DEF Progress, ReadVersion, Fetch, Store, Finish,
                                      BeginFull, Abandon
    <2>8. \E s \in SyncType : s.todo \subseteq KeysOf(s.got) /\ Become(t, s)
      <3>0. 0 \in Versions /\ Version \in Versions
        BY <1>t DEF Versions
      <3>1. CASE ReadVersion(t)
        <4>1. /\ Sync("fetch", cache, 0, {}) \in SyncType
              /\ Sync("fetch", 0, 0, {}) \in SyncType
          BY <1>t, <3>0 DEF TypeOK, SyncType, Sync
        <4> QED BY <3>1, <4>1 DEF ReadVersion, Sync
      <3>2. CASE Fetch(t)
        <4>1. ReplyKeys(sync[t].since) \subseteq KeysOf(Version)
          BY DEF ReplyKeys
        <4>2. Sync("store", sync[t].since, Version, ReplyKeys(sync[t].since)) \in SyncType
          BY <1>t, <2>5, <3>0, <4>1, KeysOfType DEF SyncType, Sync
        <4>3. Idle \in SyncType
          BY <3>0 DEF SyncType, Sync, Idle
        <4> QED BY <3>2, <4>1, <4>2, <4>3 DEF Fetch, Sync, Idle
      <3>3. CASE Store(t)
        <4>1. [sync[t] EXCEPT !.pc = "apply"] \in SyncType
          BY <2>5 DEF SyncType
        <4>2. Idle \in SyncType
          BY <3>0 DEF SyncType, Sync, Idle
        <4> QED BY <2>5, <3>3, <4>1, <4>2 DEF Store, SyncType, Sync, Idle
      <3>4. CASE Apply(t)
        <4> PICK k \in NextKeys(t) : Become(t, [sync[t] EXCEPT !.todo = @ \ {k}])
          BY <3>4 DEF Apply
        <4>1. [sync[t] EXCEPT !.todo = @ \ {k}] \in SyncType
          BY <2>5 DEF SyncType
        <4> QED BY <2>5, <4>1 DEF SyncType
      <3>5. CASE Finish(t)
        <4>1. Sync("done", 0, sync[t].got, {}) \in SyncType /\ Idle \in SyncType
          BY <2>5, <3>0 DEF SyncType, Sync, Idle
        <4> QED BY <3>5, <4>1 DEF Finish, Sync, Idle
      <3>6. CASE BeginFull(t) \/ Abandon(t)
        <4>1. Sync("fetch", 0, 0, {}) \in SyncType /\ Idle \in SyncType
          BY <3>0 DEF SyncType, Sync, Idle
        <4> QED BY <3>6, <4>1 DEF BeginFull, Abandon, Sync, Idle
      <3> QED BY <1>2, <3>1, <3>2, <3>3, <3>4, <3>5, <3>6 DEF Progress
    <2>9. /\ sync' \in [Threads -> SyncType]
          /\ \A u \in Threads : sync'[u].todo \subseteq KeysOf(sync'[u].got)
      BY <1>t, <2>8 DEF TypeOK, Become
    <2>10. SyncType' = SyncType
      BY <2>2 DEF SyncType
    <2>11. (\A u \in Threads : sync[u].todo \subseteq KeysOf(sync[u].got))'
      BY <2>1, <2>9 DEF KeysOf
    <2> QED BY <1>t, <2>1, <2>2, <2>3, <2>4, <2>6, <2>7, <2>9, <2>10, <2>11 DEF TypeOK
  <1>3. CASE Expire
    BY <1>t, <1>3 DEF TypeOK, Expire, Remaining, Calm, Versions, Version, SyncType, KeysOf
  <1>4. CASE UNCHANGED vars
    BY <1>t, <1>4 DEF TypeOK, vars, Versions, Version, SyncType, KeysOf
  <1>5. CASE LocalWrite
    <2>1. PICK written \in SUBSET Keys : Put(written, Local)
      BY <1>5, LocalWrites
    <2>2. /\ sched' \in [Keys -> Versions \cup {Local}]
          /\ \A k \in Keys : sched'[k] \notin {0, Local} => k \in published[sched'[k]]
      BY <1>t, <2>1, PutWrites DEF TypeOK
    <2>3. UNCHANGED <<published, cache, sync, faults, overlapped>>
      BY <1>5, LocalWrites
    <2> QED BY <1>t, <2>2, <2>3 DEF TypeOK, Versions, Version, SyncType, KeysOf
  <1> QED BY <1>1, <1>2, <1>3, <1>4, <1>5 DEF Next, LocalWrite

\* A full sync is only ever started from zero.
LEMMA FullFromZeroStep == IInv /\ [Next]_vars => FullFromZero'
  <1> SUFFICES ASSUME IInv, [Next]_vars, NEW u \in Forcers, At(u, "fetch")'
               PROVE  sync'[u].since = 0
    BY DEF FullFromZero
  <1>t. TypeOK /\ FullFromZero /\ u \in Threads
    BY DEF IInv, Threads
  <1>1. CASE \E t \in Threads : Progress(t) \/ BeginFull(t) \/ Abandon(t)
    <2> PICK t \in Threads : Progress(t) \/ BeginFull(t) \/ Abandon(t)
      BY <1>1
    <2>1. CASE u = t
      <3>1. ~ReadVersion(t)
        BY <2>1, ThreadsDisjoint DEF ReadVersion
      <3>2. sync'[t].pc = "fetch"
        BY <2>1 DEF At
      <3>3. sync[t] \in SyncType /\ \A s : Become(t, s) => sync'[t] = s
        BY <1>t DEF TypeOK, Become
      <3>4. ~Fetch(t)
        BY <3>2, <3>3 DEF Fetch, Sync, Idle
      <3>5. ~Store(t)
        BY <3>2, <3>3 DEF Store, SyncType, Sync, Idle
      <3>6. ~Apply(t)
        <4> SUFFICES ASSUME Apply(t) PROVE FALSE
          OBVIOUS
        <4> PICK k \in NextKeys(t) : Become(t, [sync[t] EXCEPT !.todo = @ \ {k}])
          BY DEF Apply
        <4>1. sync'[t].pc = sync[t].pc /\ sync[t].pc = "apply"
          BY <3>3 DEF Apply, At, SyncType
        <4> QED BY <3>2, <4>1
      <3>7. ~Finish(t) /\ ~Abandon(t)
        BY <3>2, <3>3 DEF Finish, Abandon, Sync, Idle
      <3>8. BeginFull(t)
        BY <3>1, <3>4, <3>5, <3>6, <3>7 DEF Progress
      <3> QED BY <2>1, <3>3, <3>8 DEF BeginFull, Sync
    <2>2. CASE u # t
      <3>1. sync'[u] = sync[u]
        BY <1>t, <2>2 DEF TypeOK, Become, Progress, ReadVersion, Fetch, Store, Apply,
                          Finish, BeginFull, Abandon
      <3> QED BY <1>t, <3>1 DEF FullFromZero, At
    <2> QED BY <2>1, <2>2
  <1>2. CASE ~\E t \in Threads : Progress(t) \/ BeginFull(t) \/ Abandon(t)
    <2>1. sync' = sync
      BY <1>2, LocalWrites DEF Next, vars, Publish, Expire, LocalWrite
    <2> QED BY <1>t, <2>1 DEF FullFromZero, At
  <1> QED BY <1>1, <1>2

\* A fetch is the only way to "store", and the version it got stays as it was.
LEMMA CompleteStep == IInv /\ [Next]_vars => Complete'
  <1> SUFFICES ASSUME IInv, [Next]_vars, NEW u \in Threads, At(u, "store")'
               PROVE  (sync[u].todo = KeysOf(sync[u].got))'
    BY DEF Complete
  <1>t. TypeOK /\ FullFromZero /\ Complete
    BY DEF IInv
  <1>0. sync[u].got \in Versions
    BY <1>t DEF TypeOK, SyncType
  <1>1. CASE \E l \in Layouts : Publish(l)
    <2> PICK l \in Layouts : Publish(l)
      BY <1>1
    <2>1. sync' = sync
      BY DEF Publish
    <2>2. sync[u].got # 0 => published'[sync[u].got] = published[sync[u].got]
      BY <1>t, <1>0, PublishKeeps DEF KeysOf
    <2>3. sync[u].todo = KeysOf(sync[u].got)
      BY <1>t, <2>1 DEF Complete, At
    <2> QED BY <2>1, <2>2, <2>3 DEF KeysOf
  <1>2. ASSUME NEW t \in Threads, Progress(t) \/ BeginFull(t) \/ Abandon(t)
        PROVE  (sync[u].todo = KeysOf(sync[u].got))'
    <2>0. published' = published
      BY <1>2 DEF Progress, ReadVersion, Fetch, Store, Apply, Finish, BeginFull, Abandon
    <2>1. CASE u # t
      <3>1. sync'[u] = sync[u]
        BY <1>t, <1>2, <2>1 DEF TypeOK, Become, Progress, ReadVersion, Fetch, Store, Apply,
                                Finish, BeginFull, Abandon
      <3> QED BY <1>t, <2>0, <3>1 DEF Complete, At, KeysOf
    <2>2. CASE u = t
      <3>1. Fetch(t) /\ ~NothingNew(t)
        BY <1>t, <1>2, <2>2 DEF TypeOK, SyncType, At, Become, Sync, Idle, Progress,
             ReadVersion, Fetch, Store, Apply, Finish, BeginFull, Abandon
      <3>2. sync'[t] = Sync("store", sync[t].since, Version, ReplyKeys(sync[t].since))
        BY <1>t, <3>1 DEF TypeOK, Fetch, Become
      <3>3. ReplyKeys(sync[t].since) = KeysOf(Version)
        BY <1>t, <3>1, ReplyIsComplete DEF Fetch
      <3> QED BY <2>0, <2>2, <3>2, <3>3 DEF Sync, KeysOf
    <2> QED BY <2>1, <2>2
  <1>3. CASE Expire \/ LocalWrite \/ UNCHANGED vars
    BY <1>t, <1>3, LocalWrites DEF Complete, At, Expire, vars, KeysOf
  <1> QED BY <1>1, <1>2, <1>3 DEF Next, LocalWrite

\* The condition never comes back, and under it no step fails.
LEMMA UndisturbedBefore ==
  ASSUME TypeOK, [Next]_vars, Undisturbed'
  PROVE  Undisturbed /\ ~Fault
  <1>t. faults \in Nat
    BY FaultsBound DEF TypeOK
  <1>1. ~Fault
    BY <1>t DEF Fault, Undisturbed
  <1>2. faults' = faults
    BY <1>1 DEF Next, vars, Publish, Progress, ReadVersion, Fetch, Store, Apply, Finish,
                BeginFull, Abandon, Expire, LocalRebuild, LocalAccount, Calm
  <1>3. overlapped => overlapped'
    BY DEF Next, vars, Publish, Progress, ReadVersion, Fetch, Store, Apply, Finish,
           BeginFull, Abandon, Expire, LocalRebuild, LocalAccount
  <1> QED BY <1>1, <1>2, <1>3 DEF Undisturbed

\* Undisturbed, one sync at a time goes from store to finish.
LEMMA OrderedStep == IInv /\ [Next]_vars => Ordered'
  <1> SUFFICES ASSUME IInv, [Next]_vars, Undisturbed'
               PROVE  (/\ OneBusy
                       /\ \A t \in Threads : At(t, "apply") => Written(t)
                       /\ (\A t \in Threads : ~At(t, "apply")) => Settled)'
    BY DEF Ordered
  <1>t. TypeOK /\ FullFromZero /\ Complete /\ Ordered /\ faults \in Nat
    BY FaultsBound DEF IInv, TypeOK
  <1>u. Undisturbed /\ ~Fault
    BY <1>t, UndisturbedBefore
  <1>o. /\ OneBusy
        /\ \A t \in Threads : At(t, "apply") => Written(t)
        /\ (\A t \in Threads : ~At(t, "apply")) => Settled
    BY <1>t, <1>u DEF Ordered
  <1>1. CASE \E l \in Layouts : Publish(l)
    <2> PICK l \in Layouts : Publish(l)
      BY <1>1
    <2>1. sync' = sync /\ sched' = sched /\ cache' = cache
      BY DEF Publish
    <2>2. \A v \in Versions : v # 0 => published'[v] = published[v]
      BY <1>t, PublishKeeps DEF KeysOf
    <2>3. cache \in Versions /\ \A t \in Threads : sync[t].got \in Versions
      BY <1>t DEF TypeOK, SyncType
    <2>4. OneBusy'
      BY <1>o, <2>1 DEF OneBusy, Busy
    <2>5. (\A t \in Threads : At(t, "apply") => Written(t))'
      BY <1>o, <2>1, <2>2, <2>3 DEF At, Written, KeysOf
    <2>6. ((\A t \in Threads : ~At(t, "apply")) => Settled)'
      BY <1>o, <2>1, <2>2, <2>3 DEF At, Settled, KeysOf
    <2> QED BY <2>4, <2>5, <2>6
  <1>2. ASSUME NEW t \in Threads,
               \/ ReadVersion(t) \/ BeginFull(t)
               \/ Fetch(t) /\ NothingNew(t)
        PROVE  (/\ OneBusy
                /\ \A u \in Threads : At(u, "apply") => Written(u)
                /\ (\A u \in Threads : ~At(u, "apply")) => Settled)'
    <2>1. /\ ~Busy(t)
          /\ published' = published /\ sched' = sched /\ cache' = cache
          /\ \A u \in Threads : u # t => sync'[u] = sync[u]
          /\ sync'[t].pc \in {"fetch", "idle"}
      BY <1>t, <1>2 DEF TypeOK, ReadVersion, BeginFull, Fetch, Become, Sync, Idle, At, Busy
    <2> QED BY <1>o, <2>1 DEF OneBusy, Busy, At, Written, Settled, KeysOf
  <1>3. ASSUME NEW t \in Threads, Fetch(t), ~NothingNew(t)
        PROVE  (/\ OneBusy
                /\ \A u \in Threads : At(u, "apply") => Written(u)
                /\ (\A u \in Threads : ~At(u, "apply")) => Settled)'
    <2>1. At(t, "fetch") /\ published' = published /\ sched' = sched /\ cache' = cache
      BY <1>3 DEF Fetch
    <2>2. /\ \A u \in Threads : u # t => sync'[u] = sync[u]
          /\ sync'[t].pc = "store"
      BY <1>t, <1>3 DEF TypeOK, Fetch, Become, Sync
    <2>3. \A u \in Threads : ~Busy(u)
      BY <1>3, <2>1 DEF Fetch, Busy, At, Undisturbed
    <2>4. \A u \in Threads : ~At(u, "apply") /\ ~At(u, "apply")'
      BY <2>2, <2>3 DEF Busy, At
    <2>5. Settled'
      BY <1>o, <2>1, <2>4 DEF Settled, KeysOf
    <2>6. OneBusy'
      BY <2>2, <2>3 DEF OneBusy, Busy
    <2> QED BY <2>4, <2>5, <2>6
  <1>4. ASSUME NEW t \in Threads, Store(t)
        PROVE  (/\ OneBusy
                /\ \A u \in Threads : At(u, "apply") => Written(u)
                /\ (\A u \in Threads : ~At(u, "apply")) => Settled)'
    <2>1. /\ At(t, "store") /\ cache' = sync[t].got /\ published' = published
          /\ sync' = [sync EXCEPT ![t] = [sync[t] EXCEPT !.pc = "apply"]]
      BY <1>u, <1>4 DEF Store, Become
    <2>2. \A u \in Threads : Busy(u) => u = t
      BY <1>o, <2>1 DEF OneBusy, Busy, At
    <2>3. /\ sync'[t].pc = "apply" /\ sync'[t].got = sync[t].got
          /\ sync'[t].todo = sync[t].todo
          /\ \A u \in Threads : u # t => sync'[u] = sync[u]
      BY <1>t, <2>1 DEF TypeOK, SyncType
    <2>4. sync[t].todo = KeysOf(sync[t].got)
      BY <1>t, <2>1 DEF Complete
    <2>5. Written(t)'
      BY <2>1, <2>3, <2>4 DEF Written, KeysOf
    <2> QED BY <2>2, <2>3, <2>5 DEF OneBusy, Busy, At
  <1>5. ASSUME NEW t \in Threads, Apply(t)
        PROVE  (/\ OneBusy
                /\ \A u \in Threads : At(u, "apply") => Written(u)
                /\ (\A u \in Threads : ~At(u, "apply")) => Settled)'
    <2>0. PICK k \in NextKeys(t), written \in SUBSET KeysOf(sync[t].got) :
            /\ k \in written
            /\ Put(written, sync[t].got)
            /\ Become(t, [sync[t] EXCEPT !.todo = @ \ {k}])
      BY <1>t, <1>5, ApplyWrites
    <2>1. At(t, "apply") /\ cache' = cache /\ published' = published
      BY <1>5 DEF Apply
    <2>2. \A u \in Threads : Busy(u) => u = t
      BY <1>o, <2>1 DEF OneBusy, Busy, At
    <2>3. /\ sync'[t].pc = "apply" /\ sync'[t].got = sync[t].got
          /\ sync'[t].todo = sync[t].todo \ {k}
          /\ \A u \in Threads : u # t => sync'[u] = sync[u]
      BY <1>t, <2>0, <2>1 DEF TypeOK, SyncType, Become, At
    <2>4. KeysOf(sync[t].got) \subseteq Keys
      BY <1>t, KeysOfType DEF TypeOK, SyncType
    <2>5. \A j \in Keys : sched'[j] = IF j \in written THEN sync[t].got ELSE sched[j]
      BY <2>0, PutWrites
    <2>6. Written(t)
      BY <1>o, <2>1
    <2>7. Written(t)'
      BY <2>0, <2>1, <2>3, <2>4, <2>5, <2>6 DEF Written, KeysOf
    <2> QED BY <2>2, <2>3, <2>7 DEF OneBusy, Busy, At
  <1>6. ASSUME NEW t \in Threads, Finish(t)
        PROVE  (/\ OneBusy
                /\ \A u \in Threads : At(u, "apply") => Written(u)
                /\ (\A u \in Threads : ~At(u, "apply")) => Settled)'
    <2>1. /\ At(t, "apply") /\ sync[t].todo = {}
          /\ cache' = cache /\ published' = published /\ sched' = sched
          /\ sync'[t].pc \in {"done", "idle"}
          /\ \A u \in Threads : u # t => sync'[u] = sync[u]
      BY <1>t, <1>6 DEF TypeOK, Finish, Applied, Become, Sync, Idle
    <2>2. \A u \in Threads : Busy(u) => u = t
      BY <1>o, <2>1 DEF OneBusy, Busy, At
    <2>3. Written(t)
      BY <1>o, <2>1
    <2>4. Settled'
      BY <2>1, <2>3 DEF Written, Settled, KeysOf
    <2> QED BY <2>1, <2>2, <2>4 DEF OneBusy, Busy, At
  <1>7. CASE Expire
    <2>1. sync' = sync /\ sched' = sched /\ published' = published /\ cache' = 0
      BY <1>7 DEF Expire, Remaining
    <2> QED BY <1>o, <2>1 DEF OneBusy, Busy, At, Written, Settled, KeysOf
  <1>8. CASE UNCHANGED vars
    BY <1>o, <1>8 DEF vars, OneBusy, Busy, At, Written, Settled, KeysOf
  <1>9. CASE LocalWrite
    <2>1. UNCHANGED <<published, cache, sync>>
      BY <1>9, LocalWrites
    <2>2. \A k \in Keys : sched'[k] \in {sched[k], Local}
      BY <1>9, LocalWrites, PutWrites
    <2>3. KeysOf(cache) \subseteq Keys /\ \A t \in Threads : KeysOf(sync[t].got) \subseteq Keys
      BY <1>t, KeysOfType DEF TypeOK, SyncType
    <2>4. OneBusy'
      BY <1>o, <2>1 DEF OneBusy, Busy
    <2>5. (\A t \in Threads : At(t, "apply") => Written(t))'
      BY <1>o, <2>1, <2>2, <2>3 DEF At, Written, KeysOf
    <2>6. ((\A t \in Threads : ~At(t, "apply")) => Settled)'
      BY <1>o, <2>1, <2>2, <2>3 DEF At, Settled, KeysOf
    <2> QED BY <2>4, <2>5, <2>6
  <1>10. \A t \in Threads : ~Abandon(t)
    BY <1>u DEF Abandon
  <1> QED BY <1>1, <1>2, <1>3, <1>4, <1>5, <1>6, <1>7, <1>8, <1>9, <1>10
          DEF Next, Progress, LocalWrite

LEMMA StepInv == IInv /\ [Next]_vars => IInv'
  BY TypeStep, FullFromZeroStep, CompleteStep, OrderedStep DEF IInv

\* Every reachable state satisfies the inductive invariant.
THEOREM Invariance == Spec => []IInv
  <1> QED BY InitInv, StepInv, PTL DEF Spec

\* The shapes hold, and a scheduler key that was synced holds a version that fills it.
THEOREM TypeCorrect == Spec => []TypeOK
  <1> QED BY Invariance, InvImplies, PTL

\* Until a call fails or two syncs overlap, the version in the cache is in the scheduler
\* whenever no sync is writing, but for what the gateway itself replaced there: skipping
\* a fetch is then safe.
THEOREM CachedIsApplied == Spec => []CachedMeansApplied
  <1> QED BY Invariance, InvImplies, PTL

\* Undisturbed, the one sync that is writing has a version no older than anything it
\* can overwrite: nobody has written since it fetched what was then the latest.
Newest ==
  Undisturbed =>
    \A t \in Threads : Busy(t) =>
      cache <= sync[t].got /\ \A k \in Keys : sched[k] <= sync[t].got

NInv == IInv /\ Newest

LEMMA NewestInit == Init => NInv
  <1> SUFFICES ASSUME Init PROVE NInv
    OBVIOUS
  <1>1. \A t \in Threads : ~Busy(t)
    BY DEF Init, Busy, Idle, Sync
  <1> QED BY <1>1, InitInv DEF NInv, Newest

\* What one step does to the numbers Newest compares.
LEMMA NewestStep ==
  ASSUME NInv, [Next]_vars, Undisturbed'
  PROVE  /\ Newest'
         /\ \A k \in Keys : sched'[k] # Local => sched'[k] >= sched[k]
         /\ cache' # 0 => cache' >= cache
  <1> DEFINE Goal == /\ Newest'
                     /\ \A k \in Keys : sched'[k] # Local => sched'[k] >= sched[k]
                     /\ cache' # 0 => cache' >= cache
  <1>t. TypeOK /\ Version \in Nat /\ Versions = 0 .. Version /\ cache \in 0 .. Version
    BY DEF NInv, IInv, TypeOK, Version, Versions
  <1>u. Undisturbed /\ ~Fault
    BY <1>t, UndisturbedBefore
  <1>n. \A t \in Threads : Busy(t) =>
          cache <= sync[t].got /\ \A k \in Keys : sched[k] <= sync[t].got
    BY <1>u DEF NInv, Newest
  <1>k. \A k \in Keys : sched[k] \in -1 .. Version
    BY <1>t DEF TypeOK, Local
  <1>g. \A t \in Threads : sync[t] \in SyncType /\ sync[t].got \in 0 .. Version
    BY <1>t DEF TypeOK, SyncType
  <1>o. OneBusy
    BY <1>u DEF NInv, IInv, Ordered
  <1>1. CASE \E l \in Layouts : Publish(l)
    <2>1. UNCHANGED <<cache, sched, sync>> /\ Version' = Version + 1
      BY <1>1, <1>t, PublishKeeps DEF Publish
    <2>2. Newest'
      BY <1>n, <2>1 DEF Newest, Busy
    <2> QED BY <1>t, <1>k, <2>1, <2>2
  <1>2. ASSUME NEW t \in Threads, Progress(t) \/ BeginFull(t) \/ Abandon(t)
        PROVE  Goal
    <2>o. \A u \in Threads : u # t => sync'[u] = sync[u]
      BY <1>2, <1>t DEF TypeOK, Become, Progress, ReadVersion, Fetch, Store, Apply, Finish,
                        BeginFull, Abandon
    <2>s. \A s : Become(t, s) => sync'[t] = s
      BY <1>t DEF TypeOK, Become
    <2>1. CASE UNCHANGED <<cache, sched>> /\ ~Busy(t)'
      <3>1. \A u \in Threads : Busy(u)' => Busy(u) /\ sync'[u] = sync[u]
        BY <2>1, <2>o DEF Busy
      <3>2. Newest'
        BY <1>n, <2>1, <3>1 DEF Newest
      <3> QED BY <1>t, <1>k, <2>1, <3>2
    <2>2. CASE Fetch(t) /\ ~NothingNew(t)
      <3>1. /\ UNCHANGED <<cache, sched>>
            /\ sync'[t] = Sync("store", sync[t].since, Version, ReplyKeys(sync[t].since))
        BY <2>2, <2>s DEF Fetch
      <3>2. \A u \in Threads : u # t => ~Busy(u)
        BY <2>2 DEF Fetch, Undisturbed
      <3>3. \A u \in Threads : Busy(u)' => u = t
        BY <2>o, <3>2 DEF Busy
      <3>4. sync'[t].got = Version
        BY <3>1 DEF Sync
      <3>5. Newest'
        BY <1>k, <1>t, <3>1, <3>3, <3>4 DEF Newest
      <3> QED BY <1>t, <1>k, <3>1, <3>5
    <2>3. CASE Store(t)
      <3>1. /\ Busy(t) /\ cache' = sync[t].got /\ UNCHANGED sched
            /\ sync'[t] = [sync[t] EXCEPT !.pc = "apply"]
        BY <2>3, <1>u, <2>s DEF Store, At, Busy
      <3>2. \A u \in Threads : Busy(u)' => u = t
        BY <1>o, <2>o, <3>1 DEF OneBusy, Busy
      <3>3. sync'[t].got = sync[t].got
        BY <1>g, <3>1 DEF SyncType
      <3>4. cache' = sync'[t].got /\ UNCHANGED sched
        BY <3>1, <3>3
      <3>5. cache <= sync[t].got /\ \A k \in Keys : sched[k] <= sync[t].got
        BY <1>n, <3>1
      <3>6. sync'[t].got \in 0 .. Version /\ \A k \in Keys : sched'[k] <= sync'[t].got
        BY <1>g, <3>3, <3>4, <3>5
      <3>7. Newest'
        BY <3>2, <3>4, <3>6 DEF Newest
      <3> QED BY <1>k, <1>t, <3>3, <3>4, <3>5, <3>7
    <2>4. CASE Apply(t)
      <3>1. PICK k \in NextKeys(t), written \in SUBSET KeysOf(sync[t].got) :
              /\ Put(written, sync[t].got)
              /\ Become(t, [sync[t] EXCEPT !.todo = @ \ {k}])
        BY <1>t, <2>4, ApplyWrites
      <3>2. Busy(t) /\ cache' = cache
        BY <2>4 DEF Apply, At, Busy
      <3>3. sync'[t] = [sync[t] EXCEPT !.todo = @ \ {k}]
        BY <2>s, <3>1
      <3>4. sync'[t].got = sync[t].got
        BY <1>g, <3>3 DEF SyncType
      <3>5. \A u \in Threads : Busy(u)' => u = t
        BY <1>o, <2>o, <3>2 DEF OneBusy, Busy
      <3>6. \A j \in Keys : sched'[j] = IF j \in written THEN sync[t].got ELSE sched[j]
        BY <3>1, PutWrites
      <3>7. \A j \in Keys : sched[j] <= sync[t].got
        BY <1>n, <3>2
      <3>8. \A j \in Keys : sched'[j] <= sync[t].got /\ sched'[j] >= sched[j]
        BY <1>k, <1>g, <3>6, <3>7
      <3>9. Newest'
        BY <1>n, <3>2, <3>4, <3>5, <3>8 DEF Newest
      <3> QED BY <1>t, <3>2, <3>8, <3>9
    <2>5. (ReadVersion(t) \/ BeginFull(t) \/ Finish(t) \/ (Fetch(t) /\ NothingNew(t))) =>
            UNCHANGED <<cache, sched>> /\ sync'[t].pc \in {"fetch", "idle", "done"}
      BY <2>s DEF ReadVersion, BeginFull, Finish, Fetch, Sync, Idle
    <2>6. ~Abandon(t)
      BY <1>u DEF Abandon
    <2> QED BY <1>2, <2>1, <2>2, <2>3, <2>4, <2>5, <2>6 DEF Progress, Busy
  <1>3. CASE Expire
    <2>1. UNCHANGED <<published, sched, sync>> /\ cache' = 0
      BY <1>3 DEF Expire, Remaining
    <2>2. \A t \in Threads : Busy(t)' => 0 <= sync[t].got /\ Busy(t)
      BY <1>g, <2>1 DEF Busy
    <2>3. Newest'
      BY <1>n, <2>1, <2>2 DEF Newest
    <2> QED BY <1>k, <2>1, <2>3
  <1>4. CASE UNCHANGED vars
    <2>1. UNCHANGED <<cache, sched, sync>>
      BY <1>4 DEF vars
    <2>2. Newest'
      BY <1>n, <2>1 DEF Newest, Busy
    <2> QED BY <1>k, <1>t, <2>1, <2>2
  <1>5. CASE LocalWrite
    <2>1. UNCHANGED <<cache, sync>>
      BY <1>5, LocalWrites
    <2>2. \A k \in Keys : sched'[k] \in {sched[k], Local}
      BY <1>5, LocalWrites, PutWrites
    <2>3. \A t \in Threads : Busy(t)' => Busy(t) /\ sync[t].got \in 0 .. Version
      BY <1>g, <2>1 DEF Busy
    <2>4. Newest'
      BY <1>n, <2>1, <2>2, <2>3 DEF Newest, Local
    <2> QED BY <1>k, <1>t, <2>1, <2>2, <2>4
  <1> QED BY <1>1, <1>2, <1>3, <1>4, <1>5 DEF Next, LocalWrite

LEMMA NewestInvariance == Spec => []NInv
  <1>1. NInv /\ [Next]_vars => NInv'
    <2> SUFFICES ASSUME NInv, [Next]_vars PROVE NInv'
      OBVIOUS
    <2>1. IInv'
      BY StepInv DEF NInv
    <2>2. CASE Undisturbed'
      BY <2>1, <2>2, NewestStep DEF NInv
    <2>3. CASE ~Undisturbed'
      BY <2>1, <2>3 DEF NInv, Newest
    <2> QED BY <2>2, <2>3
  <1> QED BY NewestInit, <1>1, PTL DEF Spec

\* As long as no call fails and no syncs overlap, neither a scheduler key nor the
\* cache ever goes back to an older version, though no write compares the numbers.
THEOREM VersionsNeverGoBack == Spec => NeverGoesBack
  <1>1. NInv /\ [Next]_vars =>
          [Undisturbed' => /\ \A k \in Keys : sched'[k] # Local => sched'[k] >= sched[k]
                           /\ cache' # 0 => cache' >= cache]_vars
    BY NewestStep
  <1> QED BY <1>1, NewestInvariance, PTL DEF Spec, NeverGoesBack

=============================================================================
