-------------------------- MODULE CacheInvalidation --------------------------
(***************************************************************************)
(* How a change at the control plane reaches the keys a region has cached. *)
(* The control plane numbers its invalidation events.  Each gateway polls  *)
(* for those after a cursor kept in Redis, handles the ones addressed to   *)
(* it, moves the cursor and acknowledges; gateways that share a Redis      *)
(* prefix share the cursor and, in one region, the key cache.  Meanwhile   *)
(* requests fill that cache: look up, ask the control plane, store.        *)
(***************************************************************************)
EXTENDS Integers, Sequences, FiniteSets

CONSTANTS
  Gateways,       \* gateway processes on one Redis prefix
  GatewayOf,      \* the configured gateway code of each
  RegionOf,       \* the configured region of each
  Everyone,       \* an event field left empty
  Notices,        \* events the control plane can publish
  Keys,           \* API keys
  Limit,          \* events in one response
  MaxEvents,      \* bound: events published
  MaxFaults       \* bound: failed calls and crashes

Regions == {RegionOf[g] : g \in Gateways}
Scopes == {"config:snapshot", "key:snapshot", "other"}

ASSUME IdentitiesAssumption ==
  GatewayOf \in [Gateways -> {GatewayOf[g] : g \in Gateways}] /\ RegionOf \in [Gateways -> Regions]
ASSUME NoticesAssumption == \A n \in Notices : n.scope \in Scopes
ASSUME BoundsAssumption == Limit \in Nat \ {0} /\ MaxEvents \in Nat /\ MaxFaults \in Nat

VARIABLES
  events,   \* the control plane's events; an event's id is its place
  key,      \* each API key: the id of its last change, and whether it is active
  cursor,   \* config:invalidation:last_id, 0 when missing
  sync,     \* each gateway's syncOnce
  cache,    \* by region and key: the change the cached snapshot reflects, or None
  flight,   \* by gateway and key: the resolve that singleflight lets through
  faults,
  \* History: no guard reads it.
  handled,  \* <<gateway, id>>: its handler has finished
  passed,   \* <<gateway, id>>: it has moved the cursor over the event
  late      \* regions where a snapshot was stored that a deletion had just missed

vars == <<events, key, cursor, sync, cache, flight, faults, handled, passed, late>>
history == <<handled, passed, late>>
plane == <<events, key>>

None == -1
Ids == 1 .. Len(events)

Page(pc, since, next, latest) ==
  [pc |-> pc, since |-> since, next |-> next, latest |-> latest, found |-> {}]
Waiting == Page("idle", 0, 0, 0)
Landed == [pc |-> "idle", got |-> None]
At(g, pc) == sync[g].pc = pc
Become(g, state) == sync' = [sync EXCEPT ![g] = state]
Flying(g, k, pc) == flight[g][k].pc = pc
Fly(g, k, state) == flight' = [flight EXCEPT ![g][k] = state]
Calm == UNCHANGED faults
Fault == faults < MaxFaults /\ faults' = faults + 1

(***************************************************************************)
(* The control plane.  A change of a key and its event appear together.    *)
(***************************************************************************)
Announce(n) ==
  /\ Len(events) < MaxEvents /\ n.scope # "key:snapshot"
  /\ events' = Append(events, n)
  /\ Calm /\ UNCHANGED <<key, cursor, sync, cache, flight, history>>

ChangeKey(k, active, n) ==
  /\ Len(events) < MaxEvents /\ n.scope = "key:snapshot"
  /\ events' = Append(events, n)
  /\ key' = [key EXCEPT ![k] = [rev |-> Len(events) + 1, active |-> active]]
  /\ Calm /\ UNCHANGED <<cursor, sync, cache, flight, history>>

\* The last event of a page that starts after since.
PageEnd_Overshoots(since) == since + Limit
PageEnd(since) == IF since + Limit < Len(events) THEN since + Limit ELSE Len(events)

(***************************************************************************)
(* syncOnce                                                                *)
(***************************************************************************)
ReadCursor(g) ==
  /\ At(g, "idle")
  /\ Become(g, Page("fetch", cursor, 0, 0))
  /\ Calm /\ UNCHANGED <<plane, cursor, cache, flight, history>>

\* With nothing new there is no cursor to move and nothing to acknowledge.
Fetch(g) ==
  /\ At(g, "fetch")
  /\ LET since == sync[g].since IN
       Become(g, IF PageEnd(since) > since
                 THEN Page("handle", since, since + 1, PageEnd(since))
                 ELSE Waiting)
  /\ Calm /\ UNCHANGED <<plane, cursor, cache, flight, history>>

Concerns(g, id) ==
  /\ events[id].gateway \in {Everyone, GatewayOf[g]}
  /\ events[id].region \in {Everyone, RegionOf[g]}

Event(g) == events[sync[g].next]
Handling(g) == At(g, "handle") /\ sync[g].next <= sync[g].latest

\* After a handler: the next event, or, when it failed, the next poll.
Handled(g) == handled' = handled \cup {<<g, sync[g].next>>}
Proceed(g) == Become(g, [sync[g] EXCEPT !.pc = "handle", !.next = @ + 1, !.found = {}])
GiveUp_NextEvent(g) == Proceed(g)
GiveUp(g) == Become(g, Waiting)

Skip(g) ==
  /\ Handling(g) /\ ~Concerns(g, sync[g].next)
  /\ Proceed(g)
  /\ Calm /\ UNCHANGED <<plane, cursor, cache, flight, history>>

\* SyncFull, or a scope that is ignored.
Refresh(g) ==
  /\ Handling(g) /\ Concerns(g, sync[g].next) /\ Event(g).scope # "key:snapshot"
  /\ \/ Calm /\ Proceed(g) /\ Handled(g)
     \/ Event(g).scope = "config:snapshot" /\ Fault /\ GiveUp(g) /\ UNCHANGED handled
  /\ UNCHANGED <<plane, cursor, cache, flight, passed, late>>

\* DeleteRegion, first half: SCAN the keys of the gateway's region.
Scan(g) ==
  /\ Handling(g) /\ Concerns(g, sync[g].next) /\ Event(g).scope = "key:snapshot"
  /\ \/ /\ Calm
        /\ LET r == RegionOf[g] IN
             Become(g, [sync[g] EXCEPT !.pc = "del", !.found = {k \in Keys : cache[r][k] # None}])
     \/ Fault /\ GiveUp(g)
  /\ UNCHANGED <<plane, cursor, cache, flight, history>>

\* Second half: DEL what was found, whatever it holds by now.  An error may hide that
\* the DEL was executed.
Deleted_OnlyActive(g) == {k \in sync[g].found : key[k].active}
Deleted(g) == sync[g].found

Del(g) ==
  /\ At(g, "del")
  /\ \/ cache' = [cache EXCEPT ![RegionOf[g]] =
                    [k \in Keys |-> IF k \in Deleted(g) THEN None ELSE @[k]]]
        /\ \/ Calm /\ Proceed(g) /\ Handled(g)
           \/ Fault /\ GiveUp(g) /\ UNCHANGED handled
     \/ Fault /\ GiveUp(g) /\ UNCHANGED <<cache, handled>>
  /\ UNCHANGED <<plane, cursor, flight, passed, late>>

\* A plain SET: a gateway that was slower puts the cursor back.  The acknowledgement
\* after it changes nothing here, and its failure is only logged.
Batch(g) == {g} \X ((sync[g].since + 1) .. sync[g].latest)

SetCursor(g) ==
  /\ At(g, "handle") /\ sync[g].next > sync[g].latest
  /\ \/ /\ cursor' = sync[g].latest
        /\ passed' = passed \cup Batch(g)
        /\ (Calm \/ Fault)
     \/ Fault /\ UNCHANGED <<cursor, passed>>
  /\ Become(g, Waiting)
  /\ UNCHANGED <<plane, cache, flight, handled, late>>

(***************************************************************************)
(* gatewayLiteResolveKey                                                   *)
(***************************************************************************)
\* A miss; a hit serves what is cached and changes nothing.
Lookup(g, k) ==
  /\ Flying(g, k, "idle") /\ cache[RegionOf[g]][k] = None
  /\ Fly(g, k, [pc |-> "resolve", got |-> None])
  /\ Calm /\ UNCHANGED <<plane, cursor, sync, cache, history>>

\* Only an active key is stored.
Resolve(g, k) ==
  /\ Flying(g, k, "resolve")
  /\ Fly(g, k, IF key[k].active THEN [pc |-> "store", got |-> key[k].rev] ELSE Landed)
  /\ Calm /\ UNCHANGED <<plane, cursor, sync, cache, history>>

\* Some deletion for the event has begun, so it may not see what is stored now.
Clearing(r, id) ==
  \E g \in Gateways :
    /\ RegionOf[g] = r
    /\ \/ <<g, id>> \in handled
       \/ At(g, "del") /\ sync[g].next = id

Store(g, k) ==
  /\ Flying(g, k, "store")
  /\ LET r == RegionOf[g]  got == flight[g][k].got IN
       /\ cache' = [cache EXCEPT ![r][k] = got]
       /\ late' = IF got < key[k].rev /\ Clearing(r, key[k].rev) THEN late \cup {r} ELSE late
  /\ Fly(g, k, Landed)
  /\ (Calm \/ Fault)
  /\ UNCHANGED <<plane, cursor, sync, handled, passed>>

\* CacheTTLSecond has passed.
Remaining_NoTTL(r, k) == cache[r][k]
Remaining(r, k) == None

Expire(r, k) ==
  /\ cache[r][k] # None
  /\ cache' = [cache EXCEPT ![r][k] = Remaining(r, k)]
  /\ Calm /\ UNCHANGED <<plane, cursor, sync, flight, history>>

(***************************************************************************)
(* A failed fetch or read; a failed request; a restart.                    *)
(***************************************************************************)
SyncFails(g) ==
  /\ ~At(g, "idle") /\ Fault /\ GiveUp(g)
  /\ UNCHANGED <<plane, cursor, cache, flight, history>>

FlightFails(g, k) ==
  /\ ~Flying(g, k, "idle") /\ Fault /\ Fly(g, k, Landed)
  /\ UNCHANGED <<plane, cursor, sync, cache, history>>

Init ==
  /\ events = <<>>
  /\ key = [k \in Keys |-> [rev |-> 0, active |-> TRUE]]
  /\ cursor = 0
  /\ sync = [g \in Gateways |-> Waiting]
  /\ cache = [r \in Regions |-> [k \in Keys |-> None]]
  /\ flight = [g \in Gateways |-> [k \in Keys |-> Landed]]
  /\ faults = 0
  /\ handled = {} /\ passed = {} /\ late = {}

Poll(g) ==
  \/ ReadCursor(g) \/ Fetch(g) \/ Skip(g) \/ Refresh(g)
  \/ Scan(g) \/ Del(g) \/ SetCursor(g)

Request(g, k) == Lookup(g, k) \/ Resolve(g, k) \/ Store(g, k)

Next ==
  \/ \E n \in Notices : Announce(n) \/ \E k \in Keys, active \in BOOLEAN : ChangeKey(k, active, n)
  \/ \E g \in Gateways :
       \/ Poll(g) \/ SyncFails(g)
       \/ \E k \in Keys : Request(g, k) \/ FlightFails(g, k)
  \/ \E r \in Regions, k \in Keys : Expire(r, k)

Spec == Init /\ [][Next]_vars

\* A poll follows every poll and its calls return or time out.  Nobody has to send a
\* request, but one that was sent finishes.
FairSpec ==
  /\ Spec
  /\ \A g \in Gateways : WF_vars(Poll(g))
  /\ \A g \in Gateways, k \in Keys : WF_vars(Resolve(g, k) \/ Store(g, k))

(***************************************************************************)
(* Properties.                                                             *)
(***************************************************************************)
SyncType == [pc : {"idle", "fetch", "handle", "del"}, since : 0 .. MaxEvents,
             next : 0 .. MaxEvents + 1, latest : 0 .. MaxEvents, found : SUBSET Keys]

\* Shapes, and no counter ahead of the control plane: a syncer works inside the page
\* it fetched, and nobody knows a change of a key before it happened.
TypeOK ==
  /\ events \in Seq(Notices) /\ Len(events) <= MaxEvents
  /\ key \in [Keys -> [rev : 0 .. Len(events), active : BOOLEAN]]
  /\ cursor \in 0 .. Len(events)
  /\ sync \in [Gateways -> SyncType]
  /\ \A g \in Gateways : sync[g].latest <= Len(events) /\ sync[g].next <= sync[g].latest + 1
  /\ cache \in [Regions -> [Keys -> {None} \cup (0 .. Len(events))]]
  /\ flight \in [Gateways -> [Keys -> [pc : {"idle", "resolve", "store"},
                                       got : {None} \cup (0 .. Len(events))]]]
  /\ \A r \in Regions, k \in Keys : cache[r][k] <= key[k].rev
  /\ faults \in 0 .. MaxFaults
  /\ handled \subseteq Gateways \X Ids /\ passed \subseteq Gateways \X Ids
  /\ late \subseteq Regions

\* Whoever moves the shared cursor over an event, and so acknowledges it, has handled
\* it if it was addressed to that gateway, whatever failed and was fetched again in
\* between; and the cursor is nowhere that nobody moved it.  (A gateway can still miss
\* an event because another one moved the cursor over it.)
NothingPassedUnhandled ==
  /\ \A p \in passed : Concerns(p[1], p[2]) => p \in handled
  /\ \A id \in 1 .. cursor : \E g \in Gateways : <<g, id>> \in passed

\* Some gateway of the region has finished handling the event.
HandledIn(r, id) == \E g \in Gateways : RegionOf[g] = r /\ <<g, id>> \in handled

\* Once a region has handled the event of a key's last change, its cache holds no
\* older snapshot of the key, except one that a request had fetched before and stored
\* after the deletion had looked.
StaleOnlyIfLate ==
  \A r \in Regions, k \in Keys :
    /\ cache[r][k] \notin {None, key[k].rev}
    /\ key[k].rev > 0 /\ HandledIn(r, key[k].rev)
    => r \in late

Fresh == \A r \in Regions, k \in Keys : cache[r][k] \in {None, key[k].rev}

\* Nobody moved the cursor over an event that was not for it, and no request stored
\* what a deletion had just missed.
Undisturbed == late = {} /\ \A p \in passed : Concerns(p[1], p[2])

\* Polling alone, with whatever faults, in the end clears every cached snapshot that
\* a change made stale.
InvalidationDelivers == []Undisturbed => <>[]Fresh

\* Also what a racing request stored, or what the gateway missed because of another's
\* cursor, is not served for ever: it expires.
ExpiryRepairs == (\A r \in Regions, k \in Keys : WF_vars(Expire(r, k))) => <>[]Fresh

=============================================================================
