# Verification of gateway-lite

TLA+ models, TLC checks and TLAPS proofs for the gateway-lite mode of this
repository, a regional node that serves LLM API requests against a lease in its
own Redis and reports usage to a control plane, and for the protocols of the
server it shares its scheduler, its concurrency limits and its operations with.

Paths below are relative to the repository root.

## 1. The system

### Components

| component | state | operations | properties that make it correct |
|---|---|---|---|
| Regional quota `internal/gatewaylite/redis_quota.go` | one lease hash per user and region (`allocated/reserved/spent_cents`, `expires_at`), one record per request (`status`, `actual_cents`, `corrected_actual_cents`), a micro-cent remainder per key | EnsureLease, LoadLease, Reserve, Commit, AdjustCommitted, Refund, AccumulateActualCostMicroCents | the counters equal what the records say; admission never overspends; a refund is free; a settlement is final; the charge is the last report |
| Request path `internal/server/middleware/gateway_lite_api_key_auth.go` | the request in flight | resolve key, reserve (local, else acquire/rebalance), serve, finalize (commit or refund), report | every admitted request is settled at most once and accounted for if it is never settled |
| Usage corrections `gateway_lite_usage_correction.go`, `context.go` | none | ReportUsageCorrection after each billed turn | the correction, not the placeholder, stands in the end |
| Usage queue `redis_usage_reporter.go` | stream, consumer group, pending list, dead stream | ReportUsage, worker loop, batch report, retry, dead letter, ack, trim | no event is lost silently, none is given up early, all settle |
| Config sync `redis_config_cache.go` and applier `internal/server/gateway_lite_config_applier.go` | `config:version`, `config:snapshot` with a TTL; scheduler keys | poll, full sync, apply | older versions leave the scheduler, and the last one reaches it whatever else writes there |
| Cache invalidation syncer `cache_invalidation_syncer.go` | a cursor in Redis | poll events, SyncFull or DeleteRegion, advance, ack | nobody acknowledges what he has not handled; stale entries go |
| Key cache `redis_key_cache.go` | key snapshots with a TTL | Get, Set, DeleteRegion | a revoked key is not served after its invalidation |
| Scheduler cache `internal/repository/scheduler_cache.go` | account records, versioned bucket snapshots, an active pointer | SetSnapshot, GetSnapshot, SetAccount | readers see one whole snapshot, never older than an active one |
| Scheduler outbox `internal/service/scheduler_snapshot_service.go`, `internal/repository/scheduler_outbox_repo.go` | outbox rows with a dedup key, a watermark and bucket locks in Redis | enqueue, poll, rebuild, mark, clean up, full rebuild, fallback | every committed change reaches the snapshot |
| Concurrency slots `internal/repository/concurrency_cache.go`, `internal/service/concurrency_service.go`, `internal/handler/gateway_helper.go` | a sorted set per account and user, wait counters | acquire, release, wait, clean up at start | never more running than allowed; slots come back |
| Idempotency coordinator `internal/service/idempotency.go`, `internal/repository/idempotency_repo.go` | one row per scope and key | claim, execute, mark, replay, reclaim | one execution per period, replays only of its response |
| System operation lock `internal/service/system_operation_lock_service.go` | a row of the same table | Acquire, renew, Release | one holder |
| Usage record pool `internal/service/usage_record_worker_pool.go` | a bounded pool | Submit, Stop, autoscale | what was accepted runs |
| User message queue `internal/repository/user_msg_queue_cache.go` | a lock per account | acquire, renew, release | one message at a time |
| Control-plane client, health monitors, runtime configuration | connection, intervals | HTTP calls | (inputs of the others) |

The rest of the repository is the full server this node was cut from: upstream
forwarding and failover, OpenAI WebSocket pooling, account scores, balance
billing, payments, OAuth, operations, the web console. `PROJECT.json` lists these
components with the reason each has no model.

### How they interact

A request is admitted in the middleware: it reads the lease hash, reserves one
cent by a Lua script, or first obtains a lease from the control plane and writes
it. The handlers take a slot of the user and of an account, wait in a counted
queue when there is none, read the scheduler's snapshots to choose the account and
serve; each billed turn hands a task to the usage pool whose last
step is `ReportUsageCorrection`. When the handlers return, the middleware commits
or refunds and starts a goroutine that reports a placeholder. Both kinds of
report go through `RedisUsageReporter.ReportUsage`: it adjusts the request's
record, then adds the event to the stream. The workers of all gateways on that
Redis drain the stream through one consumer group and report batches to the
control plane. Independently, a poller fetches configuration versions into the
config cache and the scheduler cache; invalidation events and an administrator
trigger full syncs of the same data from other goroutines, and events about keys
empty the key cache that requests fill.

On the full server the scheduler cache is filled from the database instead:
transactions write outbox rows, each server polls them and rebuilds the buckets
they name, and requests that miss a snapshot store one themselves. Those workers
also start in gateway-lite mode (`scheduler_snapshot_service.go:70-98` does not look at
the mode, although `GATEWAY_LITE_MVP.md:94-95` says they are disabled), and the full rebuild
comes back every 300 s by default; so in ConfigSync they write at any time and without a bound.

### What is hard

There is no lock across Redis calls. Requests, reports, workers, pollers and other
gateways interleave between any two of them; replies are lost and go-redis sends
commands again (`internal/repository/redis.go` leaves `MaxRetries` at its default);
processes die; hashes, records, slots, locks and caches expire under their
users; a correction can come before, after or without the commit it belongs to;
row ids are drawn before their transactions commit; a lock is released by whoever
gets there first. `PROJECT.json` "hazards" lists each of these at its line.

## 2. Plan

1. **RegionalQuota**, with the abstract **QuotaLedger** it implements: money first. *Done, proved
   with the refinement.*
2. **UsageQueue**: reports reach the control plane, and the abstract **UsageDelivery** it implements.
   *Done, proved with the refinement.*
3. **ConfigSync**: versions reach the scheduler. *Done*, with local writes that never end.
4. **CacheInvalidation**: events, the cursor that gateways of one prefix
   share, failing handlers; the key cache with its fill race. *Done, proved.*
5. **SchedulerCache**: SetSnapshot at the grain of its Redis calls, readers, and the
   register (**SnapshotRegister**) it implements. It justifies the one-step SetSnapshot
   of ConfigSync and SchedulerOutbox. *Done, proved with the refinement.*
6. **SchedulerOutbox**: how a change in the database reaches a snapshot. *Done, proved.*
7. **ConcurrencySlots**: slots with a TTL, the wait counter, sweeps at start. *Done, proved.*
8. **IdempotencyRecords**: the idempotency table under both of its users. *Done, proved.*
9. Next: **CostAccumulator** and **UsagePool** (the remainder arithmetic, resends, the
   local fallback, dropped tasks), **UserMessageQueue** (the lock with its renewal). Every
   invariant, action property and refinement of the runs is proved; the liveness properties stay with TLC.

## 3. The modules

### RegionalQuota (and QuotaLedger, MCRegionalQuota, RegionalQuotaProofs)

One lease hash and all requests that use it; hashes of different users or
regions share no key. Each Lua script is one operator (`ReserveScript`,
`CommitScript`, `RefundScript`, `AdjustCommittedScript`, `EnsureScript`) and one
atomic action, as Redis runs it. `pc` follows a request through
`gatewayLiteReserveQuota` (`LoadLease`, `ReserveLocal`, `AcquireOrRebalanceLease`,
`EnsureLease`, `ReserveLeased`, `Refuse`), the handlers (`SubmitCorrection`,
`HandlerReturns`), and `FinalizeUsage`; `reports` holds each `ReportUsage` call and how far
it got (`AdjustReport`, `EnqueueReport`, `DropReport`). `...Resent` actions execute a
command without moving its caller. `LeaseExpires`, `HashVanishes` and `RecordExpires`
are time. `Lost` is a panic (the middleware has no deferred finalize) or a crash.

`base`, `orphans`, `strays`, `drift` and `latest` are history variables: what the
hash was created with, which requests lost their hash, what they did to the
next one, and the last amount accepted for a request. No action reads them.

Data left out: identities of keys, users, models; the estimate is the constant
`EstimateCents` = 1, as in the middleware. Costs are a set. Micro-cents are not modelled.

QuotaLedger is the promise: entries that go from new to held to charged or
released, and an admission only if the budget covers it on top of everything
held and charged. It has no counters; `Remaining` is computed from the entries.

### UsageQueue and UsageDelivery (MCUsageQueue, UsageQueueProofs)

One stream. `log` keeps everything ever added, so that an id is a place in it;
`live` is what is still in the stream, `cursor` and `pel` are the group's
last-delivered id and pending list. `worker` is each process's worker with its
batch and its `ackIDs`. The actions are the Redis commands and control-plane calls
of `handleMessages` and `ack` in their order; `Outcome` says how often a command
executed and what its caller saw (done, failed, failed but executed, sent
twice). `ReportBatchFails` applies any part of the batch: the code cannot know. The
pause before a retry is not modelled (there is no time), nor which consumer a pending
message belongs to (nothing in the code asks).

UsageDelivery is the promise about each event: it waits until it is settled (reported, or given up after
enough failed reports) or dropped by the length limit, reports hold only events that wait or were dropped, and a
settled event that has left the queue does not come back. There are no ids, copies, workers or pending lists in it;
an event waits while the stream carries it. `Return` is what the code can do to an event that was dropped: a worker
that had read it requeues it.

### ConfigSync (MCConfigSync, ConfigSyncProofs)

`published` is the control plane's sequence of versions, each the set of scheduler
keys it fills (what `gatewayLiteBuildSchedulerBuckets` computes from its accounts).
`cache` is the version in `config:version`. `sched` maps each scheduler key to the version
it was last written from. `sync` is each goroutine: the pollers (one per gateway)
and the callers of SyncFull. `ReadVersion`, `Fetch`, `Store`, `Apply` (one key at a time,
records before buckets, any order within) and `Finish` are `syncWithVersion`; `Abandon` is a
failure or restart at any point; `Expire` is the ten-minute TTL. A SetSnapshot also writes the
records of its accounts (`Put`).

`LocalRebuild` is a bucket, with the accounts found for it, that a worker of the scheduler writes
from the gateway's own database: at the start, for an outbox event, and by `runFullRebuildWorker` for
as long as the process lives. `LocalAccount` is an account written or deleted outside a sync
(`UpdateAccountInCache`, the outbox). Both may come at any time, any number of times, and need never
come; what they leave is `Local` in `sched`, which belongs to no version.

External assumption: the control plane answers with its current version, complete
when the caller's is older, and empty otherwise.
`SetSnapshot` is one step; the version it draws orders overlapping writers the way
one step would, which is what SchedulerCache shows.

### CacheInvalidation (MCCacheInvalidation, CacheInvalidationProofs)

`events` is the control plane's numbered sequence, `key` each key's last change.
`cursor` is the id in Redis, `sync` each gateway's `syncOnce` with the page it fetched:
`ReadCursor`, `Fetch`, then for each event `Skip`, `Refresh` (SyncFull, or a scope that is
ignored) or `Scan` and `Del`, the two halves of `DeleteRegion`; then `SetCursor`, with the
acknowledgement. A handler that fails ends the poll before the cursor moves. `flight` is
`gatewayLiteResolveKey` through singleflight: `Lookup` (a miss), `Resolve` (the control plane's
answer), `Store`. `Expire` is the cache's TTL.

History: `handled` and `passed` say who has finished an event and who has moved the cursor over
it, `late` where a snapshot was stored that a deletion had just missed.
SyncFull is one step (ConfigSync has its inside). The cursor has no TTL worth a step.
External assumption: the control plane publishes a key's change and its event together
and returns the events after the cursor in order, a page at a time.

### SchedulerCache and SnapshotRegister (MCSchedulerCache, SchedulerCacheProofs)

One bucket. `Draw` is the INCR of `sched:ver`, `WriteAccounts` the records, `ZAdd` a chunk of
members under the new version's own key, `Activate` the script, which either makes the version active
and gives the previous one its grace TTL, or finds that it was overtaken and deletes the version's
set. `ActivateAgain` is the same script sent again later, after its reply was lost. A reader takes `active`,
then the members, then the records (`ReadActive`, `ReadMembers`, `ReadRecords`).
`SetAccount`, `DeleteAccount` and the read-and-write-back of UpdateLastUsed change records meanwhile.

SnapshotRegister is the promise: a register whose readers return the whole list that was current
when they began, or miss. It does not mention members, grace periods or records.

### SchedulerOutbox (MCSchedulerOutbox, SchedulerOutboxProofs)

One bucket and the table `scheduler_outbox`. `db` counts committed changes, `snapshot` is the count
the bucket's accounts were loaded at. `tx` is a session that changes accounts: most repositories
commit and then insert a row (`"changed"`), the billing repository inserts inside its
transaction (`"changing"`); `Insert` waits for an open row with the same dedup key and does nothing when a
visible one holds it. Ids are places in `rows`, so they are handed out before `Commit` makes
a row visible. `proc` is a poller, a full rebuild or a request that missed: `GetOutboxWatermark`,
`ListAfterAndReleaseDedup`, then `TryLockBucket`, `LoadAccountsFromDB`, `SetSnapshot`, `UnlockBucket`
(`rebuildBucket`), then `SetOutboxWatermark`, `CleanupConsumedOutbox`, `CheckOutboxLag`. A bucket whose
lock is taken counts as rebuilt. A lost reply to the lock's SETNX, a failed call that was
executed, and a crash at any call are faults; `LockExpires` is the lock's TTL, a fault only
when its holder is still at work.

History: `listed` are the rows some poll has returned; `lost` names the ways in which a change
can escape: `"unannounced"` (committed, but its row failed), `"swallowed"` (its insert found the dedup
key in another's row, and a poll released it before the change was committed), `"locked out"`, `"overwritten"` (an older load stored later), `"passed over"`
(the row became visible below rows already listed).

### ConcurrencySlots (MCConcurrencySlots, ConcurrencySlotsProofs)

One key. `slots` is the sorted set, `wait` the waiting counter, `req` each handler: `try` (the first
attempt), `queue` (before IncrementWaitCount), `wait` (the loop), `leave` (the deferred
decrement), `run`, `drain` (its client is gone, the slot already released). A script is one
action; it drops expired slots before it counts, so `SlotExpires` is a step
of its own and the set never holds expired ones. `Fault` in `AcquireSlot` is a reply lost after
the script ran: the client sends the same id again. A server's start is `SweepSlots` and
`SweepWaits`, which remove what other live servers use.

History: `leaked` are slots no handler knows of, `robbed` the handlers whose slot was dropped under
them, `skewed` what has upset the counter since it was last missing.

### IdempotencyRecords (MCIdempotencyRecords, IdempotencyRecordsProofs)

One row of `idempotency_records`, used either by `IdempotencyCoordinator.Execute` (`Calls`) or by the system
operation lock (`Operations`); `users` says which. Each SQL statement is one action:
`CreateProcessing` (INSERT ... ON CONFLICT DO NOTHING), `GetForCall` and `GetForLock` (the SELECT and what the
caller does with the row), `TryReclaim` (an UPDATE that compares id, status and
locked_until), `Mark` (MarkSucceeded, MarkFailedRetryable), `ExtendProcessingLock`, `DeleteExpired`.
Time is a counter; a client reads it once, at `Begin`, as the code does with `now`. A tick is the renewal
interval, so the lease is at least two. A claim or a renewal that lasts over a tick
is a fault, like a failed statement (which may have been executed) or a crash.

History: `ran` says who has executed and how that ended, `owner` who inserted or reclaimed the row
last, `lapses` which of four accidents have happened: a reclaim from another owner than the one read
(`"raced"`), someone who marks a row when his own period is over, or his lock lost (`"outran"`), a slow claim (`"slow"`), a missed renewal (`"unrenewed"`).
Responses are the client that produced them; scopes, payloads and size limits are left out.

## 4. Runs

| run | checks | bounds |
|---|---|---|
| RegionalQuota | TypeOK, ReservedExact, SpentExact, ChargeIsLatestReport, RefundIsFree, SettlementIsFinal | 2 requests, leases of 1 and of 3 (1 spent), cost 2, 1 correction each; the hash may vanish under its users; 2.9M states |
| RegionalQuotaLedger | ImplementsLedger | the same, but the hash outlives its users |
| UsageQueue | TypeOK, NoSilentLoss, NothingStranded, ImplementsDelivery | 2 events, 1 unparsable message, 2 workers, batches of 2, 2 attempts, stream limit 2, 1 fault of any kind; 3.1M states |
| UsageQueueLive | EventuallySettled | the same without faults and without a reachable limit |
| ConfigSync | TypeOK, CachedMeansApplied, PollingDelivers, ExpiryRepairs | 1 record, of an account, and 1 bucket, which only some versions fill; 1 poller, 2 full syncs, 2 versions, 1 fault, any number of local writes; 545k states |
| CacheInvalidation | TypeOK, NothingPassedUnhandled, StaleOnlyIfLate, InvalidationDelivers, ExpiryRepairs | 2 gateways of one region with one cursor, events for one or for both, 2 events, pages of 2, 1 key, 1 fault; 372k states |
| SchedulerCache | TypeOK, ReaderKeepsItsSnapshot, OldSnapshotsGo, ImplementsRegister | an empty list and one of 2 accounts, 2 writers, 1 reader, 1 last-used update, 3 versions, 1 fault; 347k states |
| SchedulerOutbox | TypeOK, OnlyConsumedRowsGo, NothingForgotten, OutboxDelivers, FullRebuildRepairs | 2 transactions, 1 poller with batches of 1, 1 full rebuild, 1 request that misses, 2 changes, 1 fault; 454k states |
| ConcurrencySlots | TypeOK, RunningWithinLimit, SlotsAccountedFor, WaitersCounted, SlotsComeBack, QuietRepairsCounter | 3 requests on 2 servers, 1 slot, a queue of 2, 1 fault, any number of starts; 54k states |
| IdempotencyRecords | TypeOK, OncePerPeriod, ReplayIsCurrent, LockExclusive | 4 calls (one with another request) or 4 operations, lease 2, TTL 3, 4 ticks, 1 fault; 1.3M states |
| RQCorrectionPrevails, SLRenewedWhileHeld | one property each, violated | section 6 |

Why these bounds show what they should:

* Two requests compete for the lease of one cent, and for the last cent of the
  larger one; a cost of 2 is above the estimate, so charges move the counters in both
  directions; one correction and the placeholder are two reports of one request in
  both orders. An orphan needs one expiry, which can happen any number of times.
* Two attempts are the smallest number with both a retry and a dead letter; batches
  of two put a good and a rejected event together; two workers split one stream;
  a limit of two is exceeded by the third message.
* Two versions, with a bucket that only one of them fills, are enough for an older
  version to overwrite a newer one; three goroutines let two overlap while a third polls. Local
  writes have no bound: a behaviour in which the full rebuild recurs for ever is among those checked.
* Two gateways are enough for one to move the other's cursor, forward or back; two
  events let a page fail in its middle; one key has the whole fill race. Three versions are the
  fewest with one active, one fading and one being written, and two writers can overtake
  each other in both directions.
* Two changes are enough for the second row to be visible before the first, or to find the dedup key of the
  first; a batch of one makes the poller come twice. The full rebuild stands for any other holder of the lock:
  a second poller would take the same steps on lock and snapshot, and moves the watermark only to a
  listed row. (A run of two pollers without the other workers also satisfies OutboxDelivers, and one of two pollers
  with all others the invariants, in 8M states; they are not kept, for their size. NothingForgotten is proved for
  any number of pollers.)
* One slot and three requests have one running and two waiting, of which one is on
  another server; one fault is a lost reply, and the resend keeps its id.
* Three calls of one fingerprint are what a raced reclaim takes; four ticks let two periods of three
  overlap and the first end. Four operations are what a lost lock takes: the second taker cannot
  renew the lease, a third takes the row over, the second releases it by its id, and a fourth takes it from the
  third. (With three, LockExclusive held even without its exception for `"outran"`.)

`CHECK_DEADLOCK FALSE` is set everywhere: all bounded runs come to rest once every
request, event, version or tick has been used up.

### Fairness

* UsageQueue: `WF(WorkerStep(w))`. A worker's loop waits for nothing but timers and
  calls with timeouts (`runWorker`, 2 s blocks, 10 s reports). Enqueue and crashes are not fair.
* ConfigSync: `WF(Progress(t))`. The timer of `run` fires again after every poll and a
  fetch has a 2 s timeout. Publishing, SyncFull, failures and local writes are not fair: they
  can happen for ever, or never. `ExpiryRepairs`
  also assumes `WF(Expire)`, in the property itself: it is the Redis TTL, and the only
  thing that repairs a version that was stored but not applied.
* CacheInvalidation: `WF(Poll(g))` for the same reason, and `WF(Resolve \/ Store)`: a lookup under way ends. Nobody
  has to send a request. The TTL is fair only in `ExpiryRepairs`.
* SchedulerCache: `WF(SetSnapshot(w))`, `WF(GraceEnds(v))`. Drawing a version is not fair, nor are readers.
* SchedulerOutbox: `WF(TxStep(t))` (a transaction commits or is rolled back), `WF(Rebuild(p) \/ Poll(p))` (a ticker and
  calls with timeouts), `WF(SetSnapshot(p))` of a request, `WF(LockExpires)`. The full rebuild need
  not run, its interval may be zero; it is fair only in `FullRebuildRepairs`.
* ConcurrencySlots: calls return (`WF` of the scripts), waiting ends after its maximum, TTLs end. A
  request need not end.
* RegionalQuota and IdempotencyRecords have no liveness property: a crashed request's reservation
  stays, and a call may always be refused.

## 5. Theorems

Proved by TLAPS for every value of the constants, under the constants' own
assumptions (`RequestsFinite`, `CostsNat`, `GrantsType`, ...: finite sets, naturals, disjointness).
Each module has one theorem `Invariance`, Spec => []IInv, from which the others follow.

**RegionalQuotaProofs**: TypeOK, ReservedExact, SpentExact, ChargeIsLatestReport, RefundIsFree,
SettlementIsFinal, and the refinement ImplementsLedger. ReservedExact is not inductive: a resent Reserve would count a settled
request again. `IInv` adds, on the Redis side, that records belong to the existing hash or are orphans, that strays
are settled, and what a record holds in each status; on the callers' side,
that Reserve is only sent for a request with no record or with its first reservation
(`CallerInv`). Each script preserves `QuotaInv` whoever runs it, so there is one lemma per
script and each action cites its script's. Charges are summed as the number of their cents (`ChargedCents`), a
set, so that SpentExact needs no recursion: one charge that changes moves that number by as much (`OneChargeMoves`).
ImplementsLedger is proved for OrphansAllowed = FALSE: then an orphan has no record, or its request has ended and no
report of it is under way (`OrphansIdle`), so nothing drifts, and what the hash has left is what the ledger has
left (`RemainingIsAvailable`).

**UsageQueueProofs**: TypeOK, NoSilentLoss, DeadLetterIsEarned (which ImplementsDelivery implies, so no run checks it
apart), NothingStranded, and the refinement ImplementsDelivery. A message a
worker is about to acknowledge does not carry its event, so NoSilentLoss needs the stronger
`Accounted`: each unsettled event has a live, undelivered or pending message that is in
nobody's `acks`. `Hands` says what a worker holds at each point, `Attempted` that a
message's counter never exceeds the failed reports of its event. The refinement needs `DInv`: two workers never hold the
same message (`Apart`), and what one has still to handle is pending, and in the stream unless its event was dropped
(`Holding`); so what a slow worker reports, requeues or gives up has not left the queue.

**ConfigSyncProofs**: TypeOK, CachedMeansApplied, NeverGoesBack (which no run checks apart). `Ordered` follows the one sync that is past its
fetch while nothing interferes: the keys it no longer has to write hold its version, or what the gateway itself wrote since, and
the cache holds that version or nothing. `Complete` says that a stored response has every
key of its version; it needs that a full sync asks from zero. NeverGoesBack, that no older version overwrites a
newer one, rests on `Newest`: nobody has written since the sync that is writing fetched what was then the latest, so
all it can overwrite is no newer. No write compares version numbers: with `faults = 0` alone as the condition, so
that two syncs may overlap, TLC finds a key going back, which is why the condition is in the statement.

**CacheInvalidationProofs**: TypeOK, NothingPassedUnhandled, StaleOnlyIfLate. `BehindHandled` says that a syncer in its
page has handled what is behind it, `Reached` that somebody has passed everything before its page;
together they carry the cursor write. `ScanSaw` says what a deletion knows between
its SCAN and its DEL: a stale snapshot is among the keys it found, or was stored late.

**SchedulerCacheProofs**: TypeOK, ReaderKeepsItsSnapshot, and the refinement ImplementsRegister. A version is *open*
until its writer tries to activate it. `Distinct` and `Invisible` say that each open version has one writer
and is neither active, nor fading, nor with a reader; `ActiveWhole` that the active set
is complete; `ReaderInv` that a reader's set is whole or has gone, whole. Then each step of a reader or writer is
a step of the register or a stutter.

**ConcurrencySlotsProofs**: TypeOK, RunningWithinLimit, SlotsAccountedFor, WaitersCounted. `HandlersKnow` ties each handler to the
slot its id names; running handlers that were not robbed have different members of a set that the
script keeps within `Max` (an injection). The counter needs an invariant of its own, `WInv`, that the waiting
handlers are a finite set whose size it is.

**SchedulerOutboxProofs**: TypeOK, OnlyConsumedRowsGo, NothingForgotten. A batch is a prefix of the visible rows above its
watermark, and that watermark is a row that was returned (`Marks`); so `Swept`: until a row is committed late, a
row below a returned one is not open, and was returned or is void. The bounds need `Counts`: changes that are not
committed, and changes without a row, are as many as the sessions at those stages, whose number each step moves by
one. NothingForgotten, the safety half of OutboxDelivers, has an invariant of its own, `FInv`. `Knows` is what a poller
may rely on between its load and the end of its poll: when what it loaded is no longer current, a later change is
unannounced or has a row above its batch, or a later load has been stored already (in which case storing its own
counts as lost). So the watermark and the cleanup of one poller never take what another still needs, although nothing
orders them. `HoldersWait` says that a row with its dedup key was not returned yet, which is what makes
relying on it sound.

**IdempotencyRecordsProofs**: TypeOK, OncePerPeriod, ReplayIsCurrent, LockExclusive. `LockKept`: a holder that renews owns
the row, whose lease and life are ahead of the clock by what one missing renewal costs, so nobody finds
it free or expired. `PeriodKept`: a call that has executed owns the row while its period lasts;
`ReclaimersKnow`: who wants to reclaim it read it before, or after the period. `Bodies` and `LateSee` tie a stored response to
the period of its call. LockExclusive is proved for a lease and a time to live of more than one renewal interval. With
a time to live of one the cleanup may delete the row before its renewal (`SystemOperationTTL` and `ProcessingTimeout`
are configured apart). With a lease of one, a `ProcessingTimeout` of a second, for which `renewInterval` is a second
too (`system_operation_lock_service.go:51-54`), another operation may take the lock just before the renewal: TLC
shows it when the run's lease is set to 1. The other theorems hold for every lease.

**Only model-checked**: every liveness
property (EventuallySettled, PollingDelivers, InvalidationDelivers, both ExpiryRepairs, OldSnapshotsGo,
OutboxDelivers, FullRebuildRepairs, SlotsComeBack, QuietRepairsCounter: fairness and ENABLED are out of the
prover's reach), and the two violated properties.

## 6. What the runs found

* **CorrectionPrevails** fails (run RQCorrectionPrevails). The placeholder report of a committed request can reach
  Redis after its correction and puts the estimate back (`redis_usage_reporter.go:80`), against
  `GATEWAY_LITE_MVP.md:80-81`.
* **RenewedWhileHeld** fails (run SLRenewedWhileHeld). Whoever takes over the row of the system operation lock keeps the
  first holder's fingerprint in it (`idempotency_repo.go:111`) and so cannot renew its lease (`:154`): after
  `ProcessingTimeout` the lock is free while its holder works. When he then releases it, by the row's id, he
  releases the row of whoever holds it by now. LockExclusive, which asks only about holders that
  still renew and stops where a lost lock is released, holds.

The models also show where the code does less than a text beside it says; these
are part of the models and the properties above are stated accordingly:

* A charge may pass the allocated budget (`redis_quota.go:347`); `types.go:33-34` speaks of commit decisions
  within it, but only admissions are.
* A message whose requeue failed stays pending, and workers only read new messages
  (`redis_usage_reporter.go:175`), against `GATEWAY_LITE_MVP.md:87`. NothingStranded holds only without faults.
* The trim described as a fallback for leftovers (`redis_usage_reporter.go:325`) also drops
  unread events. NoSilentLoss counts pending and trimmed events as not silently
  gone: the pending list and the stream length can be observed (`UsageQueueStats`).
* A bucket without accounts in the new version is not rewritten
  (`gateway_lite_config_applier.go:70`), against `API.md:404`. `NothingOlder` and `Current` ask only for the keys the version fills.
* `GATEWAY_LITE_MVP.md:94-95` lists the scheduler's startup rebuild, outbox worker and full rebuild as disabled. No
  code looks at the mode: `wire.go:236-246` starts them and `scheduler_snapshot_service.go:70-98` runs them, so a
  bucket that a sync wrote is replaced from the local database again at every interval (`:225-239`). The last version
  therefore never comes to *stay* in the scheduler: `<>[]` of Current fails under any fairness. ExpiryRepairs says
  what is left: in the end no older version remains, and every key of the last one gets it again and again. It
  does not say for how long, nor that a request meets it. PollingDelivers and CachedMeansApplied likewise count a key
  that the gateway itself wrote last as delivered.
* `scheduler_outbox_repo.go:111-114` says the ten seconds of grace let a slow transaction commit and its row be
  consumed before the cleanup deletes it. They delay the deletion, but polls only read rows above the watermark, so a
  row that was passed over before it was visible is never read and in the end removed unread. OnlyConsumedRowsGo exempts
  just these rows and NothingForgotten the changes they announce; only FullRebuildRepairs covers them.
* One idempotency key can execute twice in one period without any fault: two calls read the same expired row that had
  succeeded; one reclaims it, executes and succeeds; the other's `TryReclaim` (`idempotency.go:292`,
  `idempotency_repo.go:111-119`) compares only the status and the lock, which are back where they were, and takes the
  fresh row. OncePerPeriod exempts a row that was so `raced`.

## 7. Not modelled

Everything under "not_modelled" in `PROJECT.json`. Inside the modelled components: message
contents, conversions between API formats, logging, timings beyond their order, Redis failover (a
command that executed stays executed), prefixes, regions and codes that change at run time, the fields of account
records, which buckets an outbox event names, and the control plane itself, whose answers are inputs.
The micro-cent accumulator and the usage pool only appear through what
they do to a correction: its amount is a member of a set, and it may be dropped.

## 8. Running

    tlc -workers 2 -config RegionalQuota.cfg MCRegionalQuota.tla
    tlapm RegionalQuotaProofs.tla

Each `.cfg` names its run; the `MC` module of the same system gives sets as values. Operators
named `X_Something` next to an operator `X` are plausible mistakes in `X`, used to see that a
property notices them.
