---------------------------- MODULE RegionalQuota ----------------------------
(***************************************************************************)
(* The regional quota of a gateway-lite node: one lease hash in Redis, the *)
(* per-request reservation records beside it, the middleware that reserves,*)
(* serves and finalizes each request, and the usage reports that correct   *)
(* what a request was charged.                                             *)
(*                                                                         *)
(* A lease hash belongs to one (user, region) pair and no script touches   *)
(* two of them, so one hash with all the requests that use it is the whole *)
(* state that can interact.                                                *)
(*                                                                         *)
(* Every Redis script and MULTI block is one atomic action.  go-redis      *)
(* sends a command again when its reply is lost (redis.Options leaves      *)
(* MaxRetries at its default), so every such action has a "Resent" form in *)
(* which Redis has executed the command and the caller has not moved.      *)
(***************************************************************************)
EXTENDS Integers, FiniteSets

CONSTANTS
  Requests,       \* the billable requests of one user in one region
  Costs,          \* the real costs, in cents, a finished turn can have
  Grants,         \* the leases the control plane can hand out
  MaxTurns,       \* bound: usage corrections one request submits
  OrphansAllowed  \* may the hash vanish under requests that still use it?

ASSUME RequestsFinite == IsFiniteSet(Requests)
ASSUME CostsNat == Costs \subseteq Nat
ASSUME GrantsType == Grants \subseteq [allocated : Nat, reserved : Nat, spent : Nat]
ASSUME MaxTurnsNat == MaxTurns \in Nat
ASSUME OrphansBool == OrphansAllowed \in BOOLEAN

VARIABLES
  lease,    \* the lease hash (exists FALSE: the key is not in Redis)
  req,      \* the reservation record of each request
  pc,       \* where the middleware is with each request
  offer,    \* the lease the control plane returned to a request
  reports,  \* the ReportUsage calls made so far and how far each one got
  \* History: these only record what happened, no action reads them.
  base,     \* reserved and spent the current hash was created with
  orphans,  \* requests whose hash vanished after they reserved
  strays,   \* orphans that settled against a hash they had not reserved in
  drift,    \* cents orphans put on the current hash's spent counter
  latest    \* the last amount AdjustCommitted accepted for each request

redisVars == <<lease, req>>
historyVars == <<base, orphans, strays, drift, latest>>
vars == <<lease, req, pc, offer, reports, base, orphans, strays, drift, latest>>

EstimateCents == 1
NoCents == -1

Statuses == {"none", "reserved", "committed", "refunded", "leaked", "archived"}
Stages == {"adjust", "enqueue", "queued", "dropped"}
Admitting == {"start", "fast", "acquire", "ensure", "slow"}
Serving == {"serving", "commit", "refund"}
Ended == {"refused", "done", "lost"}

\* A placeholder report is turn 0, the corrections are turns 1, 2, ...
Turns == 0 .. MaxTurns
Reports == [req : Requests, turn : Turns, cents : Nat, stage : Stages]

NoLease == [exists |-> FALSE, expired |-> FALSE,
            allocated |-> 0, reserved |-> 0, spent |-> 0]
NoOffer == [allocated |-> 0, reserved |-> 0, spent |-> 0]
Record(s, a, c) == [status |-> s, actual |-> a, corrected |-> c]
NoRecord == Record("none", 0, NoCents)

(***************************************************************************)
(* Reading the hash and the records.                                       *)
(***************************************************************************)
AvailableCents(l) == l.allocated - l.reserved - l.spent

\* EXISTS req_key: a record is gone before its request reserved and after its TTL.
RecordExists(r) == req[r].status \in {"reserved", "committed", "refunded"}

Covered_IgnoresSpent(l) == l.allocated - l.reserved >= EstimateCents
Covered(l) == AvailableCents(l) >= EstimateCents

\* The part of the hash the scripts read for a new reservation.
LeaseUsable == lease.exists /\ ~lease.expired

(***************************************************************************)
(* HINCRBY on the hash, which the scripts do only when the key exists.     *)
(***************************************************************************)
LeaseAfter(dReserved, dSpent) ==
  IF lease.exists
  THEN [exists |-> TRUE, expired |-> lease.expired, allocated |-> lease.allocated,
        reserved |-> lease.reserved + dReserved, spent |-> lease.spent + dSpent]
  ELSE lease

Touch(r, dReserved, dSpent) ==
  /\ lease' = LeaseAfter(dReserved, dSpent)
  /\ strays' = IF lease.exists /\ r \in orphans /\ dReserved < 0
               THEN strays \cup {r} ELSE strays
  /\ drift' = IF lease.exists /\ r \in orphans THEN drift + dSpent ELSE drift
  /\ UNCHANGED <<base, orphans>>

\* HSET on the request's record.
Write(r, status, actual, corrected) ==
  req' = [req EXCEPT ![r] = Record(status, actual, corrected)]

UntouchedLease == UNCHANGED <<lease, strays, drift, base, orphans>>

(***************************************************************************)
(* The Lua scripts.  Each is the script's whole effect on Redis.           *)
(***************************************************************************)
ReserveGrants(r) == RecordExists(r) \/ (LeaseUsable /\ Covered(lease))

ReserveTakes(r) == ~RecordExists(r) /\ LeaseUsable /\ Covered(lease)

ReserveScript(r) ==
  \/ /\ ReserveTakes(r)
     /\ Touch(r, EstimateCents, 0)
     /\ Write(r, "reserved", 0, NoCents)
     /\ UNCHANGED latest
  \/ /\ ~ReserveTakes(r)
     /\ UntouchedLease
     /\ UNCHANGED <<req, latest>>

CommitAmount_IgnoresCorrection(r, cents) == cents
CommitAmount(r, cents) ==
  IF req[r].corrected # NoCents THEN req[r].corrected ELSE cents

\* The record must exist and be neither committed nor refunded.
CommitOpen_UnlessSettled(r) == req[r].status \notin {"none", "committed", "refunded"}
CommitOpen(r) == req[r].status = "reserved"

CommitScript(r, cents) ==
  \/ /\ CommitOpen(r)
     /\ Touch(r, -EstimateCents, CommitAmount(r, cents))
     /\ Write(r, "committed", CommitAmount(r, cents), req[r].corrected)
     /\ UNCHANGED latest
  \/ /\ ~CommitOpen(r)
     /\ UntouchedLease
     /\ UNCHANGED <<req, latest>>

RefundOpen(r) == req[r].status = "reserved"

RefundScript(r) ==
  \/ /\ RefundOpen(r)
     /\ Touch(r, -EstimateCents, 0)
     /\ Write(r, "refunded", req[r].actual, req[r].corrected)
     /\ UNCHANGED latest
  \/ /\ ~RefundOpen(r)
     /\ UntouchedLease
     /\ UNCHANGED <<req, latest>>

AdjustDelta_ChargesInFull(r, cents) == cents
AdjustDelta(r, cents) == cents - req[r].actual

AdjustOpen_AfterRefund(r) == req[r].status \in {"committed", "refunded"}
AdjustOpen(r) == req[r].status = "committed"

AdjustCommittedScript(r, cents) ==
  \/ /\ req[r].status = "reserved"
     /\ Write(r, "reserved", req[r].actual, cents)
     /\ latest' = [latest EXCEPT ![r] = cents]
     /\ UntouchedLease
  \/ /\ AdjustOpen(r)
     /\ Touch(r, 0, AdjustDelta(r, cents))
     /\ Write(r, req[r].status, cents, req[r].corrected)
     /\ latest' = [latest EXCEPT ![r] = cents]
  \/ /\ req[r].status # "reserved" /\ ~AdjustOpen(r)
     /\ UntouchedLease
     /\ UNCHANGED <<req, latest>>

(***************************************************************************)
(* EnsureLease writes the offered lease.  HSET replaces the allocation and *)
(* the expiry, HSETNX keeps the counters a live hash already has.          *)
(***************************************************************************)
LeaseFrom_Overwrites(g, e) ==
  [exists |-> TRUE, expired |-> e, allocated |-> g.allocated,
   reserved |-> g.reserved, spent |-> g.spent]
LeaseFrom(g, e) ==
  [exists |-> TRUE, expired |-> e, allocated |-> g.allocated,
   reserved |-> IF lease.exists THEN lease.reserved ELSE g.reserved,
   spent |-> IF lease.exists THEN lease.spent ELSE g.spent]

\* e: the offered expiry may have passed by the time the pipeline runs.
EnsureScript(g, e) ==
  /\ lease' = LeaseFrom(g, e)
  /\ base' = IF lease.exists THEN base
             ELSE [reserved |-> g.reserved, spent |-> g.spent]
  /\ UNCHANGED <<req, orphans, strays, drift, latest>>

(***************************************************************************)
(* The middleware.                                                         *)
(***************************************************************************)
Init ==
  /\ lease = NoLease
  /\ req = [r \in Requests |-> NoRecord]
  /\ pc = [r \in Requests |-> "start"]
  /\ offer = [r \in Requests |-> NoOffer]
  /\ reports = {}
  /\ base = [reserved |-> 0, spent |-> 0]
  /\ orphans = {}
  /\ strays = {}
  /\ drift = 0
  /\ latest = [r \in Requests |-> NoCents]

Goto(r, to) == pc' = [pc EXCEPT ![r] = to]
RedisUnchanged == UntouchedLease /\ UNCHANGED <<req, latest>>

\* A live lease with enough left sends the request to Reserve, anything else
\* to the control plane.
LoadLease(r) ==
  /\ pc[r] = "start"
  /\ Goto(r, IF LeaseUsable /\ Covered(lease) THEN "fast" ELSE "acquire")
  /\ RedisUnchanged
  /\ UNCHANGED <<offer, reports>>

\* The lease may have been used up or expired since LoadLease: then acquire.
ReserveLocal(r) ==
  /\ pc[r] = "fast"
  /\ ReserveScript(r)
  /\ Goto(r, IF ReserveGrants(r) THEN "serving" ELSE "acquire")
  /\ UNCHANGED <<offer, reports>>

\* The control plane's acquire or, failing that, rebalance; an offer that cannot
\* cover the estimate is a refusal.
AcquireOrRebalanceLease(r) ==
  /\ pc[r] = "acquire"
  /\ \E g \in Grants :
       /\ Covered(g)
       /\ offer' = [offer EXCEPT ![r] = g]
  /\ Goto(r, "ensure")
  /\ RedisUnchanged
  /\ UNCHANGED reports

EnsureLease(r) ==
  /\ pc[r] = "ensure"
  /\ \E e \in BOOLEAN : EnsureScript(offer[r], e)
  /\ Goto(r, "slow")
  /\ offer' = [offer EXCEPT ![r] = NoOffer]
  /\ UNCHANGED reports

ReserveLeased(r) ==
  /\ pc[r] = "slow"
  /\ ReserveScript(r)
  /\ Goto(r, IF ReserveGrants(r) THEN "serving" ELSE "refused")
  /\ UNCHANGED <<offer, reports>>

\* 401, 403, 429 or 503: a check failed, the control plane said no, or Redis did
\* not answer.  Nothing is given back, not even a reservation Redis had made.
Refuse(r) ==
  /\ pc[r] \in Admitting
  /\ Goto(r, "refused")
  /\ offer' = [offer EXCEPT ![r] = NoOffer]
  /\ RedisUnchanged
  /\ UNCHANGED reports

\* A finished turn hands the pool its usage record; the task's last step is
\* ReportUsageCorrection.
CorrectionsOf(r) == {x \in reports : x.req = r /\ x.turn > 0}

SubmitCorrection(r) ==
  /\ pc[r] = "serving"
  /\ Cardinality(CorrectionsOf(r)) < MaxTurns
  /\ \E c \in Costs :
       reports' = reports \cup
         {[req |-> r, turn |-> Cardinality(CorrectionsOf(r)) + 1,
           cents |-> c, stage |-> "adjust"]}
  /\ RedisUnchanged
  /\ UNCHANGED <<pc, offer>>

\* The handlers return: refund when aborted or the status is 400 or more.
HandlerReturns(r) ==
  /\ pc[r] = "serving"
  /\ \E to \in {"commit", "refund"} : Goto(r, to)
  /\ RedisUnchanged
  /\ UNCHANGED <<offer, reports>>

PlaceholderCents_Credit(r) == IF pc[r] = "refund" THEN -EstimateCents ELSE EstimateCents
PlaceholderCents(r) == IF pc[r] = "refund" THEN 0 ELSE EstimateCents

SettleScript(r) ==
  \/ pc[r] = "commit" /\ CommitScript(r, EstimateCents)
  \/ pc[r] = "refund" /\ RefundScript(r)

\* An error of the settling script is only logged: the report goes out all the same.
FinalizeUsage(r) ==
  /\ pc[r] \in {"commit", "refund"}
  /\ SettleScript(r) \/ RedisUnchanged
  /\ reports' = reports \cup
       {[req |-> r, turn |-> 0, cents |-> PlaceholderCents(r), stage |-> "adjust"]}
  /\ Goto(r, "done")
  /\ UNCHANGED offer

\* A panic in a handler unwinds the middleware, which has no deferred finalize;
\* the node can also die.  (Before "serving" that is the same as Refuse.)
Lost(r) ==
  /\ pc[r] \in Serving
  /\ Goto(r, "lost")
  /\ RedisUnchanged
  /\ UNCHANGED <<offer, reports>>

(***************************************************************************)
(* ReportUsage: AdjustCommitted first, then XADD to the usage stream.      *)
(***************************************************************************)
Advance(x, to) == reports' = (reports \ {x}) \cup {[x EXCEPT !.stage = to]}

AdjustReport(x) ==
  /\ x.stage = "adjust"
  /\ AdjustCommittedScript(x.req, x.cents)
  /\ Advance(x, "enqueue")
  /\ UNCHANGED <<pc, offer>>

EnqueueReport(x) ==
  /\ x.stage = "enqueue"
  /\ Advance(x, "queued")
  /\ RedisUnchanged
  /\ UNCHANGED <<pc, offer>>

\* The pool was full, the task panicked, Redis failed, or the node died.
DropReport(x) ==
  /\ x.stage \in {"adjust", "enqueue"}
  /\ Advance(x, "dropped")
  /\ RedisUnchanged
  /\ UNCHANGED <<pc, offer>>

(***************************************************************************)
(* Redis executed the command, the reply was lost, the client sends again. *)
(***************************************************************************)
ReserveResent(r) ==
  /\ pc[r] \in {"fast", "slow"}
  /\ ReserveScript(r)
  /\ UNCHANGED <<pc, offer, reports>>

EnsureResent(r) ==
  /\ pc[r] = "ensure"
  /\ \E e \in BOOLEAN : EnsureScript(offer[r], e)
  /\ UNCHANGED <<pc, offer, reports>>

SettleResent(r) ==
  /\ SettleScript(r)
  /\ UNCHANGED <<pc, offer, reports>>

AdjustResent(x) ==
  /\ x.stage = "adjust"
  /\ AdjustCommittedScript(x.req, x.cents)
  /\ UNCHANGED <<pc, offer, reports>>

(***************************************************************************)
(* Time.                                                                   *)
(***************************************************************************)
LeaseExpires ==
  /\ lease.exists /\ ~lease.expired
  /\ lease' = [exists |-> TRUE, expired |-> TRUE, allocated |-> lease.allocated,
               reserved |-> lease.reserved, spent |-> lease.spent]
  /\ UNCHANGED <<strays, drift, base, orphans, req, latest, pc, offer, reports>>

\* Still able to change the hash: a request on its way to settle, or a report
\* on its way to adjust.
Unfinished(r) ==
  \/ RecordExists(r) /\ pc[r] \notin Ended
  \/ \E x \in reports : x.req = r /\ x.stage = "adjust"

\* The key's TTL is an hour past the expiry of the last lease that had one; a lease
\* that never expires does not move it.  OrphansAllowed FALSE says every lease has an
\* expiry and that hour is long enough for everything under way.
HashVanishes ==
  /\ lease.exists
  /\ OrphansAllowed \/ (lease.expired /\ \A r \in Requests : ~Unfinished(r))
  /\ lease' = NoLease
  /\ orphans' = orphans \cup {r \in Requests : req[r].status # "none"}
  /\ strays' = {}
  /\ drift' = 0
  /\ UNCHANGED <<base, req, latest, pc, offer, reports>>

\* reservationTTL, a day after the reservation: far longer than a resend.  A refunded
\* record may go too, but the scripts treat it as they treat none.
RecordExpires(r) ==
  /\ req[r].status \in {"reserved", "committed"}
  /\ pc[r] \notin {"fast", "slow"}
  /\ Write(r, IF req[r].status = "reserved" THEN "leaked" ELSE "archived",
           req[r].actual, req[r].corrected)
  /\ UntouchedLease
  /\ UNCHANGED <<latest, pc, offer, reports>>

RequestStep(r) ==
  \/ LoadLease(r) \/ ReserveLocal(r) \/ AcquireOrRebalanceLease(r)
  \/ EnsureLease(r) \/ ReserveLeased(r) \/ Refuse(r)
  \/ SubmitCorrection(r) \/ HandlerReturns(r) \/ FinalizeUsage(r) \/ Lost(r)
  \/ ReserveResent(r) \/ EnsureResent(r) \/ SettleResent(r)
  \/ RecordExpires(r)

ReportStep(x) ==
  AdjustReport(x) \/ EnqueueReport(x) \/ DropReport(x) \/ AdjustResent(x)

Next ==
  \/ \E r \in Requests : RequestStep(r)
  \/ \E x \in reports : ReportStep(x)
  \/ LeaseExpires
  \/ HashVanishes

Spec == Init /\ [][Next]_vars

(***************************************************************************)
(* Properties.                                                             *)
(***************************************************************************)
LeaseType ==
  [exists : BOOLEAN, expired : BOOLEAN, allocated : Nat, reserved : Int, spent : Int]
OfferType == [allocated : Nat, reserved : Nat, spent : Nat]
CentsOrNone == Nat \cup {NoCents}

\* The shapes of the hash, the records and the reports; an amount handed to
\* ReportUsage is never negative (AdjustCommitted rejects one that is).
TypeOK ==
  /\ lease \in LeaseType
  /\ req \in [Requests -> [status : Statuses, actual : Nat, corrected : CentsOrNone]]
  /\ pc \in [Requests -> Admitting \cup Serving \cup Ended]
  /\ offer \in [Requests -> OfferType]
  /\ reports \subseteq Reports
  /\ base \in [reserved : Nat, spent : Nat]
  /\ orphans \subseteq Requests
  /\ strays \subseteq orphans
  /\ drift \in Int
  /\ latest \in [Requests -> CentsOrNone]

\* Requests whose reservation is still counted in the current hash.
Counted == {r \in Requests : req[r].status \in {"reserved", "leaked"}}

\* reserved_cents is exactly what the hash started with plus one cent for each
\* reservation made in it and never given back, less one for every orphan that
\* settled against it: no interleaving, resend, lost request or expired record
\* moves it otherwise.
ReservedExact ==
  lease.exists =>
    lease.reserved = base.reserved + EstimateCents * Cardinality(Counted \ orphans)
                     - EstimateCents * Cardinality(strays)

\* Each cent that a request which is not an orphan is charged.
ChargedCents == UNION {{r} \X (1 .. req[r].actual) : r \in Requests \ orphans}

\* spent_cents is exactly what the hash started with plus the charge standing on
\* every request that reserved in it, whatever the order of commit, corrections
\* and resends; orphans account for the rest.
SpentExact ==
  lease.exists =>
    lease.spent = base.spent + drift + Cardinality(ChargedCents)

\* A committed request is charged the last amount any report gave, also when the
\* report came before the commit; only an unreported one keeps the estimate.
ChargeIsLatestReport ==
  \A r \in Requests :
    req[r].status = "committed" =>
      req[r].actual = IF latest[r] = NoCents THEN EstimateCents ELSE latest[r]

\* A refunded request costs nothing: no late correction, resend or commit
\* charges it again.
RefundIsFree ==
  \A r \in Requests : req[r].status = "refunded" => req[r].actual = 0

\* Once settled or expired a record never goes back to holding a reservation,
\* and a refund and a commit never replace one another.
SettlementIsFinal ==
  [][\A r \in Requests :
       /\ req[r].status \in {"committed", "archived"} =>
            req'[r].status \in {"committed", "archived"}
       /\ req[r].status \in {"refunded", "leaked"} => req'[r].status = req[r].status]_vars

\* MVP doc: "real-cost corrections update local `spent_cents`".  Once every report
\* of a committed request has reached Redis, the charge is its correction.
CorrectionPrevails ==
  \A r \in Requests :
    \A x \in CorrectionsOf(r) :
      (/\ req[r].status = "committed"
       /\ \A y \in reports : y.req = r => y.stage = "queued")
      => req[r].actual = x.cents

(***************************************************************************)
(* The abstract ledger.  An entry is read off a request's record, and the  *)
(* counters of the hash appear only in the budget's starting point.        *)
(***************************************************************************)
EntryOf(r) ==
  CASE r \in orphans -> "closed"
    [] r \notin orphans /\ req[r].status = "none" -> "new"
    [] r \notin orphans /\ r \in Counted -> "held"
    [] r \notin orphans /\ req[r].status = "refunded" -> "released"
    [] OTHER -> "charged"

QL == INSTANCE QuotaLedger WITH
  Estimate <- EstimateCents,
  budget <- IF lease.exists
            THEN [open |-> TRUE, allocated |-> lease.allocated,
                  used |-> base.reserved + base.spent]
            ELSE [open |-> FALSE, allocated |-> 0, used |-> 0],
  entry <- [r \in Requests |-> EntryOf(r)],
  charge <- [r \in Requests |-> IF r \in orphans THEN 0 ELSE req[r].actual]

\* Admission never overspends: every admitted request was covered by the lease
\* after all the reservations and charges standing in it, and every charge,
\* refund and correction is one the ledger allows.
ImplementsLedger == QL!Ledger

=============================================================================
