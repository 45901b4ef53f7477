----------------------------- MODULE ConfigSync -----------------------------
(***************************************************************************)
(* How a gateway's scheduler gets its configuration.  The control plane    *)
(* publishes versions of it.  A polling goroutine asks for what is newer   *)
(* than the version in the Redis config cache; an invalidation event or an *)
(* administrator makes other goroutines fetch everything.  Both then write *)
(* the cache, which lives for ten minutes, and after it the scheduler keys *)
(* one by one: the group and account records, then the bucket snapshots.   *)
(*                                                                         *)
(* Nothing orders these goroutines, nor those of several gateways on one   *)
(* Redis, nor the scheduler's own workers, which keep rebuilding buckets   *)
(* from the gateway's database for as long as the process lives.  A        *)
(* SetSnapshot is one step here: of two that overlap, the one that drew    *)
(* the higher number stays active, as if it had come second.               *)
(***************************************************************************)
EXTENDS Integers, Sequences, FiniteSets

CONSTANTS
  Records,     \* scheduler keys of groups and accounts
  Accounts,    \* those of accounts, which the gateway also writes itself
  Buckets,     \* scheduler buckets
  Layouts,     \* the sets of keys one version of the configuration can fill
  Pollers,     \* ConfigSyncer.run goroutines, one for each gateway
  Forcers,     \* goroutines that call SyncFull
  MaxVersion,  \* bound: versions the control plane publishes
  MaxFaults    \* bound: failed calls and crashes

Keys == Records \cup Buckets
Threads == Pollers \cup Forcers

ASSUME KeysDisjoint == Records \cap Buckets = {}
ASSUME AccountsAreRecords == Accounts \subseteq Records
ASSUME LayoutsAreKeys == Layouts \subseteq SUBSET Keys
ASSUME ThreadsDisjoint == Pollers \cap Forcers = {}
ASSUME VersionBound == MaxVersion \in Nat
ASSUME FaultsBound == MaxFaults \in Nat

VARIABLES
  published,  \* the keys each published version fills
  cache,      \* config:version and config:snapshot, 0 when they have expired
  sched,      \* the version each scheduler key was last written from, 0 if never, Local
              \* if the gateway itself wrote or deleted it last
  sync,       \* each goroutine: where it is, since, its response, the keys left
  faults,
  \* History: no action reads it.
  overlapped  \* did a sync fetch while another was between fetch and finish?

vars == <<published, cache, sched, sync, faults, overlapped>>

Version == Len(published)
Versions == 0 .. Version
Local == -1
KeysOf(v) == IF v = 0 THEN {} ELSE published[v]

Sync(pc, since, got, todo) == [pc |-> pc, since |-> since, got |-> got, todo |-> todo]
Idle == Sync("idle", 0, 0, {})
At(t, pc) == sync[t].pc = pc
Become(t, state) == sync' = [sync EXCEPT ![t] = state]
Busy(t) == sync[t].pc \in {"store", "apply"}

Put(keys, version) == sched' = [k \in Keys |-> IF k \in keys THEN version ELSE sched[k]]

Calm == UNCHANGED faults
Fault == faults < MaxFaults /\ faults' = faults + 1

(***************************************************************************)
(* The control plane.                                                      *)
(***************************************************************************)
Publish(l) ==
  /\ Version < MaxVersion
  /\ published' = Append(published, l)
  /\ Calm
  /\ UNCHANGED <<cache, sched, sync, overlapped>>

\* The current version, with everything in it or, when the caller has it, nothing.
ReplyKeys(since) == IF since < Version THEN KeysOf(Version) ELSE {}

(***************************************************************************)
(* syncOnce and SyncFull.                                                  *)
(***************************************************************************)
\* A version that cannot be read counts as none.
ReadVersion(t) ==
  /\ t \in Pollers /\ At(t, "idle")
  /\ \/ Calm /\ Become(t, Sync("fetch", cache, 0, {}))
     \/ Fault /\ Become(t, Sync("fetch", 0, 0, {}))
  /\ UNCHANGED <<published, cache, sched, overlapped>>

BeginFull(t) ==
  /\ t \in Forcers /\ sync[t].pc \in {"idle", "done"}
  /\ Become(t, Sync("fetch", 0, 0, {}))
  /\ Calm
  /\ UNCHANGED <<published, cache, sched, overlapped>>

\* Nothing new: not forced, no newer version, and nothing in the response.
NothingNew_OffByOne(t) == t \in Pollers /\ Version <= sync[t].since + 1
NothingNew(t) ==
  t \in Pollers /\ Version <= sync[t].since /\ ReplyKeys(sync[t].since) = {}

Fetch(t) ==
  /\ At(t, "fetch")
  /\ \/ /\ NothingNew(t)
        /\ Become(t, Idle)
        /\ UNCHANGED overlapped
     \/ /\ ~NothingNew(t)
        /\ Become(t, Sync("store", sync[t].since, Version, ReplyKeys(sync[t].since)))
        /\ overlapped' = (overlapped \/ \E u \in Threads \ {t} : Busy(u))
  /\ Calm
  /\ UNCHANGED <<published, cache, sched>>

\* The cache is written before the scheduler.  An error ends the sync there, also
\* one that only hid that Redis had executed the transaction.
Store(t) ==
  /\ At(t, "store")
  /\ cache' = sync[t].got
  /\ \/ Calm /\ Become(t, [sync[t] EXCEPT !.pc = "apply"])
     \/ Fault /\ Become(t, Idle)
  /\ UNCHANGED <<published, sched, overlapped>>

\* SetGroup, SetAccount, then SetSnapshot for each bucket of the version, in the
\* order of a map.  A SetSnapshot writes the records of its accounts again; which of
\* the version's they are is left open.
NextKeys_Everything(t) == Keys
NextKeys(t) ==
  IF sync[t].todo \cap Records # {} THEN sync[t].todo \cap Records ELSE sync[t].todo

Apply(t) ==
  /\ At(t, "apply")
  /\ \E k \in NextKeys(t) :
       /\ \E again \in SUBSET (Accounts \cap KeysOf(sync[t].got)) :
            /\ k \in Records => again = {}
            /\ Put({k} \cup again, sync[t].got)
       /\ Become(t, [sync[t] EXCEPT !.todo = @ \ {k}])
  /\ Calm
  /\ UNCHANGED <<published, cache, overlapped>>

Applied_RecordsOnly(t) == sync[t].todo \cap Records = {}
Applied(t) == sync[t].todo = {}

Finish(t) ==
  /\ At(t, "apply") /\ Applied(t)
  /\ Become(t, IF t \in Forcers THEN Sync("done", 0, sync[t].got, {}) ELSE Idle)
  /\ Calm
  /\ UNCHANGED <<published, cache, sched, overlapped>>

\* A fetch that fails or is rejected, a Redis error, a deadline, a restart: the keys
\* written so far stay written.
Abandon(t) ==
  /\ sync[t].pc \in {"fetch", "store", "apply"}
  /\ Fault
  /\ Become(t, Idle)
  /\ UNCHANGED <<published, cache, sched, overlapped>>

\* rebuildBucket of a scheduler worker, from the gateway's database: at the start, for
\* an outbox event, and again at every full_rebuild_interval.  Its SetSnapshot writes
\* the accounts it found too.
LocalRebuild(b) ==
  /\ \E found \in SUBSET Accounts : Put({b} \cup found, Local)
  /\ Calm
  /\ UNCHANGED <<published, cache, sync, overlapped>>

\* SetAccount or DeleteAccount outside a sync: an outbox event, a changed status, a
\* rate limit added to the copy of the account that a request holds.
LocalAccount(a) ==
  /\ Put({a}, Local)
  /\ Calm
  /\ UNCHANGED <<published, cache, sync, overlapped>>

\* defaultGatewayConfigTTL has passed since the cache was written.
Remaining_NoTTL == cache
Remaining == 0

Expire ==
  /\ cache # 0
  /\ cache' = Remaining
  /\ Calm
  /\ UNCHANGED <<published, sched, sync, overlapped>>

Init ==
  /\ published = <<>>
  /\ cache = 0
  /\ sched = [k \in Keys |-> 0]
  /\ sync = [t \in Threads |-> Idle]
  /\ faults = 0
  /\ overlapped = FALSE

Progress(t) == ReadVersion(t) \/ Fetch(t) \/ Store(t) \/ Apply(t) \/ Finish(t)

Next ==
  \/ \E l \in Layouts : Publish(l)
  \/ \E t \in Threads : Progress(t) \/ BeginFull(t) \/ Abandon(t)
  \/ \E b \in Buckets : LocalRebuild(b)
  \/ \E a \in Accounts : LocalAccount(a)
  \/ Expire

Spec == Init /\ [][Next]_vars

\* A poll follows every poll, and every call of a sync returns or times out.
\* Nothing says when, or that, anybody calls SyncFull.
FairSpec == Spec /\ \A t \in Threads : WF_vars(Progress(t))

(***************************************************************************)
(* Properties.                                                             *)
(***************************************************************************)
SyncType == [pc : {"idle", "fetch", "store", "apply", "done"},
             since : Versions, got : Versions, todo : SUBSET Keys]

\* Shapes; a scheduler key that was synced holds a published version that fills it.
TypeOK ==
  /\ published \in Seq(SUBSET Keys) /\ Version <= MaxVersion
  /\ cache \in Versions
  /\ sched \in [Keys -> Versions \cup {Local}]
  /\ \A k \in Keys : sched[k] \notin {0, Local} => k \in published[sched[k]]
  /\ sync \in [Threads -> SyncType]
  /\ \A t \in Threads : sync[t].todo \subseteq KeysOf(sync[t].got)
  /\ faults \in 0 .. MaxFaults
  /\ overlapped \in BOOLEAN

Undisturbed == faults = 0 /\ ~overlapped

\* As long as no call has failed and no two syncs have overlapped, a version in the
\* cache, which keeps the poller from fetching it again, has been written to every key
\* it fills, unless the sync that stored it is still writing: what is not there was
\* replaced by the gateway itself, never left behind.
CachedMeansApplied ==
  Undisturbed /\ (\A t \in Threads : ~Busy(t)) =>
    \A k \in KeysOf(cache) : sched[k] \in {cache, Local}

\* Under the same condition no older version overwrites a newer one: not in the
\* scheduler, key by key, nor in the cache, which only expires.  The numbers are never
\* compared when they are written; it is the order of the syncs alone that does it.
NeverGoesBack ==
  [][Undisturbed' => /\ \A k \in Keys : sched'[k] # Local => sched'[k] >= sched[k]
                     /\ cache' # 0 => cache' >= cache]_vars

\* The scheduler has the current version of every key that version fills, or what the
\* gateway wrote there itself.
NothingOlder == \A k \in KeysOf(Version) : sched[k] \in {Version, Local}

Current(k) == k \in KeysOf(Version) => sched[k] = Version

\* While nothing fails and no syncs overlap, polling alone brings the last version
\* to the scheduler, where only the gateway itself still replaces it.
PollingDelivers == []Undisturbed => <>[]NothingOlder

\* Whatever failed, crashed or overlapped before, older versions disappear from the
\* scheduler, and however often the gateway replaces a key, each key of the last version
\* gets it again and again, because the cache expires and the next poll then fetches
\* everything.  Without the expiry a version stored but not applied would never be
\* fetched again.
ExpiryRepairs ==
  WF_vars(Expire) => <>[]NothingOlder /\ \A k \in Keys : []<>Current(k)

=============================================================================
