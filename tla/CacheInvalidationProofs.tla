----------------------- MODULE CacheInvalidationProofs -----------------------
(***************************************************************************)
(* Neither invariant is inductive.  That nothing is passed unhandled needs *)
(* what a syncer in the middle of its page has done: the events before the *)
(* one it is at are handled, and everything up to where the page starts    *)
(* has been passed before.  That only late stores are stale needs what a   *)
(* deletion has seen between its SCAN and its DEL, and that a request only *)
(* carries what the control plane has said.                                *)
(***************************************************************************)
EXTENDS CacheInvalidation, TLAPS

\* A syncer is inside the page it fetched.
Inside ==
  \A g \in Gateways :
    /\ sync[g].pc \in {"handle", "del"} => sync[g].since < sync[g].next
    /\ At(g, "del") => sync[g].next <= sync[g].latest

\* A request carries no change of a key that has not happened.
FlightBehind == \A g \in Gateways, k \in Keys : flight[g][k].got <= key[k].rev

\* The event of a key's last change is one that clears keys.
KeyEvents ==
  \A k \in Keys : key[k].rev > 0 =>
    key[k].rev \in Ids /\ events[key[k].rev].scope = "key:snapshot"

\* Everything below the place a syncer starts from has been passed by somebody.
Reached ==
  /\ \A id \in 1 .. cursor : \E g \in Gateways : <<g, id>> \in passed
  /\ \A h \in Gateways : \A id \in 1 .. sync[h].since : \E g \in Gateways : <<g, id>> \in passed

\* In its page a syncer has handled what concerns it and is behind it.
BehindHandled ==
  \A g \in Gateways :
    sync[g].pc \in {"handle", "del"} =>
      \A id \in (sync[g].since + 1) .. (sync[g].next - 1) :
        Concerns(g, id) => <<g, id>> \in handled

PassedHandled == \A p \in passed : Concerns(p[1], p[2]) => p \in handled

\* A stale snapshot that the SCAN for its event has not found was stored after it.
ScanSaw ==
  \A g \in Gateways, k \in Keys :
    /\ At(g, "del") /\ key[k].rev = sync[g].next
    /\ cache[RegionOf[g]][k] \notin {None, key[k].rev}
    => k \in sync[g].found \/ RegionOf[g] \in late

IInv ==
  /\ TypeOK /\ Inside /\ FlightBehind /\ KeyEvents
  /\ Reached /\ BehindHandled /\ PassedHandled
  /\ ScanSaw /\ StaleOnlyIfLate

LEMMA InvImplies == IInv => TypeOK /\ NothingPassedUnhandled /\ StaleOnlyIfLate
  BY DEF IInv, Reached, PassedHandled, NothingPassedUnhandled

LEMMA InitInv == Init => IInv
  <1> SUFFICES ASSUME Init PROVE IInv
    OBVIOUS
  <1> USE DEF Init
  <1>1. Len(events) = 0 /\ events \in Seq(Notices) /\ Len(events) <= MaxEvents
    BY BoundsAssumption
  <1>2. TypeOK
    BY <1>1, BoundsAssumption DEF TypeOK, SyncType, Waiting, Page, Landed, None, Ids
  <1>3. Inside /\ FlightBehind /\ KeyEvents /\ Reached /\ BehindHandled /\ PassedHandled
    BY DEF Inside, At, FlightBehind, KeyEvents, Reached, BehindHandled, PassedHandled, Waiting, Page,
           Landed, None
  <1>4. ScanSaw /\ StaleOnlyIfLate
    BY DEF ScanSaw, StaleOnlyIfLate, At, Waiting, Page
  <1> QED BY <1>2, <1>3, <1>4 DEF IInv

(***************************************************************************)
(* What the steps of a syncer do to its record, field by field.            *)
(***************************************************************************)
LEMMA Others ==
  ASSUME TypeOK, NEW g \in Gateways, NEW s, Become(g, s)
  PROVE  sync'[g] = s /\ \A h \in Gateways : h # g => sync'[h] = sync[h]
  BY DEF TypeOK, Become

LEMMA ProceedEffect ==
  ASSUME TypeOK, NEW g \in Gateways, Proceed(g)
  PROVE  /\ sync'[g].pc = "handle" /\ sync'[g].found = {}
         /\ sync'[g].since = sync[g].since
         /\ sync'[g].next = sync[g].next + 1 /\ sync'[g].latest = sync[g].latest
         /\ sync[g].next + 1 \in 0 .. MaxEvents + 1 => sync'[g] \in SyncType
         /\ \A h \in Gateways : h # g => sync'[h] = sync[h]
  <1>1. sync[g] \in SyncType
    BY DEF TypeOK
  <1>2. sync'[g] = [sync[g] EXCEPT !.pc = "handle", !.next = @ + 1, !.found = {}]
    BY Others DEF Proceed
  <1>3. \A h \in Gateways : h # g => sync'[h] = sync[h]
    BY Others DEF Proceed
  <1> QED BY <1>1, <1>2, <1>3 DEF SyncType

LEMMA GiveUpEffect ==
  ASSUME TypeOK, NEW g \in Gateways, Become(g, Waiting)
  PROVE  /\ sync'[g] \in SyncType
         /\ sync'[g].pc = "idle" /\ sync'[g].since = 0
         /\ sync'[g].next = 0 /\ sync'[g].latest = 0
         /\ \A h \in Gateways : h # g => sync'[h] = sync[h]
  BY Others, BoundsAssumption DEF Waiting, Page, SyncType

LEMMA ReadCursorEffect ==
  ASSUME TypeOK, NEW g \in Gateways, ReadCursor(g)
  PROVE  /\ sync'[g] \in SyncType
         /\ sync'[g].pc = "fetch" /\ sync'[g].since = cursor
         /\ sync'[g].next = 0 /\ sync'[g].latest = 0
         /\ \A h \in Gateways : h # g => sync'[h] = sync[h]
  <1>1. cursor \in 0 .. MaxEvents
    BY BoundsAssumption DEF TypeOK
  <1>2. /\ sync'[g] = Page("fetch", cursor, 0, 0)
        /\ \A h \in Gateways : h # g => sync'[h] = sync[h]
    BY Others DEF ReadCursor
  <1> QED BY <1>1, <1>2, BoundsAssumption DEF Page, SyncType

\* Either there is nothing new, or the page begins right after since.
LEMMA FetchEffect ==
  ASSUME TypeOK, NEW g \in Gateways, Fetch(g)
  PROVE  \/ Become(g, Waiting)
         \/ /\ sync'[g] \in SyncType
            /\ sync'[g].pc = "handle" /\ sync'[g].since = sync[g].since
            /\ sync'[g].next = sync[g].since + 1
            /\ sync'[g].latest <= Len(events) /\ sync'[g].latest > sync[g].since
            /\ \A h \in Gateways : h # g => sync'[h] = sync[h]
  <1> DEFINE since == sync[g].since
  <1>1. since \in 0 .. MaxEvents /\ Len(events) \in Nat /\ Len(events) <= MaxEvents
    BY DEF TypeOK, SyncType
  <1>2. CASE PageEnd(since) > since
    <2>1. PageEnd(since) \in 0 .. MaxEvents /\ PageEnd(since) <= Len(events)
      BY <1>1, <1>2, BoundsAssumption DEF PageEnd
    <2>2. /\ sync'[g] = Page("handle", since, since + 1, PageEnd(since))
          /\ \A h \in Gateways : h # g => sync'[h] = sync[h]
      BY <1>2, Others DEF Fetch
    <2>3. /\ since \in 0 .. MaxEvents /\ since + 1 \in 0 .. MaxEvents + 1
          /\ PageEnd(since) \in 0 .. MaxEvents
      BY <1>1, <2>1, BoundsAssumption
    <2>4. sync'[g] \in SyncType
      BY <2>2, <2>3 DEF Page, SyncType
    <2> QED BY <1>1, <1>2, <2>1, <2>2, <2>4 DEF Page
  <1>3. CASE ~(PageEnd(since) > since)
    BY <1>3 DEF Fetch
  <1> QED BY <1>2, <1>3

LEMMA ScanEffect ==
  ASSUME TypeOK, NEW g \in Gateways, Scan(g), ~Become(g, Waiting)
  PROVE  /\ sync'[g] \in SyncType
         /\ sync'[g].pc = "del" /\ sync'[g].since = sync[g].since
         /\ sync'[g].next = sync[g].next /\ sync'[g].latest = sync[g].latest
         /\ sync'[g].found = {k \in Keys : cache[RegionOf[g]][k] # None}
         /\ \A h \in Gateways : h # g => sync'[h] = sync[h]
  <1>1. sync[g] \in SyncType
    BY DEF TypeOK
  <1>2. Become(g, [sync[g] EXCEPT !.pc = "del",
                                  !.found = {k \in Keys : cache[RegionOf[g]][k] # None}])
    BY DEF Scan, GiveUp
  <1>3. /\ sync'[g] = [sync[g] EXCEPT !.pc = "del",
                                      !.found = {k \in Keys : cache[RegionOf[g]][k] # None}]
        /\ \A h \in Gateways : h # g => sync'[h] = sync[h]
    BY <1>2, Others
  <1> QED BY <1>1, <1>3 DEF SyncType

\* Every step of a syncer is one of six moves.
Moves(g) ==
  \/ Become(g, Waiting)
  \/ ReadCursor(g)
  \/ Fetch(g)
  \/ (Handling(g) \/ At(g, "del")) /\ Proceed(g)
  \/ Scan(g)

LEMMA SyncerMoves ==
  ASSUME NEW g \in Gateways, Poll(g) \/ SyncFails(g)
  PROVE  Moves(g)
  <1>1. CASE SyncFails(g)
    BY <1>1 DEF SyncFails, GiveUp, Moves
  <1>2. CASE Skip(g)
    BY <1>2 DEF Skip, Moves
  <1>3. CASE Refresh(g)
    BY <1>3 DEF Refresh, GiveUp, Moves
  <1>4. CASE Del(g)
    BY <1>4 DEF Del, GiveUp, Moves
  <1>5. CASE SetCursor(g)
    BY <1>5 DEF SetCursor, Moves
  <1>6. CASE ReadCursor(g) \/ Fetch(g) \/ Scan(g)
    BY <1>6 DEF Moves
  <1> QED BY <1>1, <1>2, <1>3, <1>4, <1>5, <1>6 DEF Poll

\* The variables nobody but a syncer, or nobody but a request, writes.
LEMMA SyncerLeaves ==
  ASSUME NEW g \in Gateways, Poll(g) \/ SyncFails(g)
  PROVE  UNCHANGED <<events, key, flight, late>>
  BY DEF Poll, SyncFails, ReadCursor, Fetch, Skip, Refresh, Scan, Del, SetCursor, plane, history

RequestStep(g, k) == Request(g, k) \/ FlightFails(g, k)

LEMMA RequestLeaves ==
  ASSUME NEW g \in Gateways, NEW k \in Keys, RequestStep(g, k)
  PROVE  UNCHANGED <<events, key, cursor, sync, handled, passed>>
  BY DEF RequestStep, Request, Lookup, Resolve, Store, FlightFails, plane, history

(***************************************************************************)
(* Type correctness, and where a syncer is in its page.                    *)
(***************************************************************************)
\* A new event leaves the earlier ones as they are.
LEMMA AppendKeeps ==
  ASSUME TypeOK, NEW n \in Notices, Len(events) < MaxEvents, events' = Append(events, n)
  PROVE  /\ events' \in Seq(Notices) /\ Len(events)' = Len(events) + 1
         /\ Len(events) \in Nat /\ Len(events') <= MaxEvents
         /\ Ids \subseteq Ids' /\ Len(events) + 1 \in Ids' /\ Len(events) + 1 \notin Ids
         /\ \A id \in Ids : events'[id] = events[id]
         /\ events'[Len(events) + 1] = n
         /\ \A g, id : id \in Ids => (Concerns(g, id)' <=> Concerns(g, id))
  <1>1. events \in Seq(Notices) /\ Len(events) \in Nat
    BY DEF TypeOK
  <1>2. /\ events' \in Seq(Notices) /\ Len(events') = Len(events) + 1
        /\ \A id \in 1 .. Len(events) : events'[id] = events[id]
        /\ events'[Len(events) + 1] = n
    BY <1>1
  <1> QED BY <1>1, <1>2, BoundsAssumption DEF Ids, Concerns

LEMMA TypeStep == IInv /\ [Next]_vars => TypeOK'
  <1> SUFFICES ASSUME IInv, [Next]_vars PROVE TypeOK'
    OBVIOUS
  <1> USE BoundsAssumption
  <1>t. TypeOK /\ Inside /\ FlightBehind /\ Len(events) \in Nat
    BY DEF IInv, TypeOK
  <1>k. \A k \in Keys : key[k].rev \in 0 .. Len(events) /\ key[k].active \in BOOLEAN
    BY <1>t DEF TypeOK
  <1>f. faults' \in 0 .. MaxFaults
    <2>1. CASE Calm \/ Fault
      BY <1>t, <2>1 DEF TypeOK, Calm, Fault
    <2>2. ASSUME NEW g \in Gateways, Poll(g) \/ SyncFails(g) PROVE Calm \/ Fault
      BY <2>2 DEF Poll, SyncFails, ReadCursor, Fetch, Skip, Refresh, Scan, Del, SetCursor
    <2>3. ASSUME NEW g \in Gateways, NEW k \in Keys, RequestStep(g, k) PROVE Calm \/ Fault
      BY <2>3 DEF RequestStep, Request, Lookup, Resolve, Store, FlightFails
    <2>4. CASE UNCHANGED vars
      BY <2>4, <2>1 DEF vars, Calm
    <2> QED BY <2>1, <2>2, <2>3, <2>4 DEF Next, RequestStep, Announce, ChangeKey, Expire
  <1>1. ASSUME NEW n \in Notices,
               Announce(n) \/ \E k \in Keys, active \in BOOLEAN : ChangeKey(k, active, n)
        PROVE  TypeOK'
    <2>1. Len(events) < MaxEvents /\ events' = Append(events, n)
      BY <1>1 DEF Announce, ChangeKey
    <2>2. /\ events' \in Seq(Notices) /\ Len(events') = Len(events) + 1
          /\ Len(events') <= MaxEvents /\ Ids \subseteq Ids'
      BY <1>t, <2>1, AppendKeeps
    <2>3. UNCHANGED <<cursor, sync, cache, flight, handled, passed, late>>
      BY <1>1 DEF Announce, ChangeKey, history
    <2>4. /\ key' \in [Keys -> [rev : 0 .. Len(events'), active : BOOLEAN]]
          /\ \A k \in Keys : key'[k].rev >= key[k].rev
      <3>1. CASE Announce(n)
        BY <1>t, <1>k, <2>2, <3>1 DEF TypeOK, Announce
      <3>2. ASSUME NEW k \in Keys, NEW active \in BOOLEAN, ChangeKey(k, active, n)
            PROVE  <2>4!1 /\ <2>4!2
        <4>1. key' = [key EXCEPT ![k] = [rev |-> Len(events) + 1, active |-> active]]
          BY <3>2 DEF ChangeKey
        <4>2. \A j \in Keys : key'[j] = IF j = k THEN [rev |-> Len(events) + 1, active |-> active]
                                        ELSE key[j]
          BY <1>t, <4>1 DEF TypeOK
        <4>3. \A j \in Keys : key'[j] \in [rev : 0 .. Len(events'), active : BOOLEAN]
          <5>1. \A j \in Keys : key[j] \in [rev : 0 .. Len(events'), active : BOOLEAN]
            BY <1>t, <2>2 DEF TypeOK
          <5>2. [rev |-> Len(events) + 1, active |-> active] \in
                  [rev : 0 .. Len(events'), active : BOOLEAN]
            BY <1>t, <2>2
          <5> QED BY <4>2, <5>1, <5>2
        <4>4. key' \in [Keys -> [rev : 0 .. Len(events'), active : BOOLEAN]]
          BY <1>t, <4>1, <4>3 DEF TypeOK
        <4> QED BY <1>k, <1>t, <4>2, <4>4
      <3> QED BY <1>1, <3>1, <3>2
    <2>5. /\ cursor' \in 0 .. Len(events') /\ sync' \in [Gateways -> SyncType]
          /\ \A g \in Gateways : sync'[g].latest <= Len(events')
                                 /\ sync'[g].next <= sync'[g].latest + 1
      BY <1>t, <2>2, <2>3 DEF TypeOK, SyncType
    <2>6. /\ cache' \in [Regions -> [Keys -> {None} \cup (0 .. Len(events'))]]
          /\ flight' \in [Gateways -> [Keys -> [pc : {"idle", "resolve", "store"},
                                                got : {None} \cup (0 .. Len(events'))]]]
      <3>1. 0 .. Len(events) \subseteq 0 .. Len(events')
        BY <1>t, <2>2
      <3> QED BY <1>t, <2>3, <3>1 DEF TypeOK
    <2>7. \A r \in Regions, k \in Keys : cache'[r][k] <= key'[k].rev
      <3> SUFFICES ASSUME NEW r \in Regions, NEW k \in Keys PROVE cache'[r][k] <= key'[k].rev
        OBVIOUS
      <3>1. cache[r][k] <= key[k].rev /\ cache[r][k] \in {None} \cup (0 .. Len(events))
        BY <1>t DEF TypeOK
      <3> QED BY <1>k, <2>2, <2>3, <2>4, <3>1 DEF None
    <2>8. handled' \subseteq Gateways \X Ids' /\ passed' \subseteq Gateways \X Ids'
          /\ late' \subseteq Regions
      BY <1>t, <2>2, <2>3 DEF TypeOK
    <2> QED BY <1>f, <2>2, <2>4, <2>5, <2>6, <2>7, <2>8 DEF TypeOK, SyncType
  <1>2. ASSUME NEW g \in Gateways, Poll(g) \/ SyncFails(g) PROVE TypeOK'
    <2>1. UNCHANGED <<events, key, flight, late>>
      BY <1>2, SyncerLeaves
    <2>2. sync[g] \in SyncType /\ sync[g].latest <= Len(events)
          /\ sync[g].next <= sync[g].latest + 1
      BY <1>t DEF TypeOK
    <2>3. /\ sync'[g] \in SyncType /\ sync'[g].latest <= Len(events)
          /\ sync'[g].next <= sync'[g].latest + 1
          /\ \A h \in Gateways : h # g => sync'[h] = sync[h]
      <3>1. CASE Become(g, Waiting)
        BY <1>t, <3>1, GiveUpEffect
      <3>2. CASE ReadCursor(g)
        BY <1>t, <3>2, ReadCursorEffect
      <3>3. CASE Fetch(g)
        <4>1. CASE Become(g, Waiting)
          BY <3>1, <4>1
        <4>2. CASE ~Become(g, Waiting)
          <5>1. /\ sync'[g] \in SyncType /\ sync'[g].latest <= Len(events)
                /\ sync'[g].next = sync[g].since + 1 /\ sync'[g].latest > sync[g].since
                /\ \A h \in Gateways : h # g => sync'[h] = sync[h]
            BY <1>t, <3>3, <4>2, FetchEffect
          <5> QED BY <2>2, <5>1 DEF SyncType
        <4> QED BY <4>1, <4>2
      <3>4. CASE (Handling(g) \/ At(g, "del")) /\ Proceed(g)
        <4>1. sync[g].next <= sync[g].latest
          BY <1>t, <3>4 DEF Handling, Inside
        <4>2. sync[g].next + 1 \in 0 .. MaxEvents + 1
          BY <2>2, <4>1 DEF SyncType
        <4> QED BY <1>t, <2>2, <3>4, <4>1, <4>2, ProceedEffect DEF SyncType
      <3>5. CASE Scan(g) /\ ~Become(g, Waiting)
        BY <1>t, <2>2, <3>5, ScanEffect
      <3> QED BY <1>2, <3>1, <3>2, <3>3, <3>4, <3>5, SyncerMoves DEF Moves
    <2>4. sync' \in [Gateways -> SyncType]
      <3>1. DOMAIN sync' = Gateways /\ sync' = [h \in Gateways |-> sync'[h]]
        BY <1>t, <1>2 DEF TypeOK, Become, Poll, SyncFails, ReadCursor, Fetch, Skip, Refresh, Scan,
                          Del, SetCursor, Proceed, GiveUp
      <3> QED BY <1>t, <2>3, <3>1 DEF TypeOK
    <2>5. \A h \in Gateways : sync'[h].latest <= Len(events) /\ sync'[h].next <= sync'[h].latest + 1
      BY <1>t, <2>3 DEF TypeOK
    <2>6. cursor' \in 0 .. Len(events)
      BY <1>t, <1>2, <2>2 DEF TypeOK, SyncType, Poll, SyncFails, ReadCursor, Fetch, Skip, Refresh,
                              Scan, Del, SetCursor
    <2>7. /\ cache' \in [Regions -> [Keys -> {None} \cup (0 .. Len(events))]]
          /\ \A r \in Regions, k \in Keys : cache'[r][k] <= key[k].rev
      <3>1. CASE UNCHANGED cache
        BY <1>t, <3>1 DEF TypeOK
      <3>2. CASE cache' = [cache EXCEPT ![RegionOf[g]] =
                             [k \in Keys |-> IF k \in Deleted(g) THEN None ELSE @[k]]]
        <4>1. \A r \in Regions, k \in Keys : cache'[r][k] \in {None, cache[r][k]}
          BY <1>t, <3>2 DEF TypeOK
        <4>2. cache' \in [Regions -> [Keys -> {None} \cup (0 .. Len(events))]]
          <5>1. RegionOf[g] \in Regions
            BY DEF Regions
          <5>2. [k \in Keys |-> IF k \in Deleted(g) THEN None ELSE cache[RegionOf[g]][k]]
                  \in [Keys -> {None} \cup (0 .. Len(events))]
            BY <1>t, <5>1 DEF TypeOK
          <5> QED BY <1>t, <3>2, <5>1, <5>2 DEF TypeOK
        <4>3. \A r \in Regions, k \in Keys : cache[r][k] <= key[k].rev
          BY <1>t DEF TypeOK
        <4> QED BY <1>k, <4>1, <4>2, <4>3 DEF None
      <3> QED BY <1>2, <3>1, <3>2 DEF Poll, SyncFails, ReadCursor, Fetch, Skip, Refresh, Scan, Del,
                                      SetCursor
    <2>8. handled' \subseteq Gateways \X Ids
      <3>1. CASE UNCHANGED handled
        BY <1>t, <3>1 DEF TypeOK
      <3>2. CASE (Handling(g) \/ At(g, "del")) /\ Handled(g)
        <4>1. sync[g].since < sync[g].next /\ sync[g].next <= sync[g].latest
          BY <1>t, <3>2 DEF Handling, Inside, At
        <4>2. sync[g].next \in Ids
          BY <1>t, <2>2, <4>1 DEF Ids, SyncType
        <4> QED BY <1>t, <3>2, <4>2 DEF Handled, TypeOK
      <3>3. UNCHANGED handled \/ ((Handling(g) \/ At(g, "del")) /\ Handled(g))
        <4>1. CASE Refresh(g)
          BY <4>1 DEF Refresh
        <4>2. CASE Del(g)
          BY <4>2 DEF Del
        <4>3. CASE ReadCursor(g) \/ Fetch(g)
          BY <4>3 DEF ReadCursor, Fetch, history
        <4>4. CASE Skip(g) \/ Scan(g) \/ SetCursor(g) \/ SyncFails(g)
          BY <4>4 DEF Skip, Scan, SetCursor, SyncFails, history
        <4> QED BY <1>2, <4>1, <4>2, <4>3, <4>4 DEF Poll
      <3> QED BY <3>1, <3>2, <3>3
    <2>9. passed' \subseteq Gateways \X Ids
      <3>1. Batch(g) \subseteq Gateways \X Ids
        BY <1>t, <2>2 DEF Batch, Ids, SyncType
      <3>2. passed' \in {passed, passed \cup Batch(g)}
        BY <1>2 DEF Poll, SyncFails, ReadCursor, Fetch, Skip, Refresh, Scan, Del, SetCursor, history
      <3> QED BY <1>t, <3>1, <3>2 DEF TypeOK
    <2> QED BY <1>t, <1>f, <2>1, <2>4, <2>5, <2>6, <2>7, <2>8, <2>9 DEF TypeOK, SyncType, Ids
  <1>3. ASSUME NEW g \in Gateways, NEW k \in Keys, RequestStep(g, k) PROVE TypeOK'
    <2>1. UNCHANGED <<events, key, cursor, sync, handled, passed>>
      BY <1>3, RequestLeaves
    <2>2. RegionOf[g] \in Regions
      BY DEF Regions
    <2>3. flight[g][k] \in [pc : {"idle", "resolve", "store"}, got : {None} \cup (0 .. Len(events))]
          /\ flight[g][k].got <= key[k].rev
      BY <1>t DEF TypeOK, FlightBehind
    <2>4. /\ Landed \in [pc : {"idle", "resolve", "store"}, got : {None} \cup (0 .. Len(events))]
          /\ [pc |-> "resolve", got |-> None] \in
               [pc : {"idle", "resolve", "store"}, got : {None} \cup (0 .. Len(events))]
          /\ [pc |-> "store", got |-> key[k].rev] \in
               [pc : {"idle", "resolve", "store"}, got : {None} \cup (0 .. Len(events))]
      BY <1>k DEF Landed
    <2>5. flight' \in [Gateways -> [Keys -> [pc : {"idle", "resolve", "store"},
                                             got : {None} \cup (0 .. Len(events))]]]
      <3>1. \E f \in [pc : {"idle", "resolve", "store"}, got : {None} \cup (0 .. Len(events))] :
              Fly(g, k, f)
        BY <1>3, <2>4 DEF RequestStep, Request, Lookup, Resolve, Store, FlightFails
      <3> QED BY <1>t, <3>1 DEF TypeOK, Fly
    <2>6. /\ cache' \in [Regions -> [Keys -> {None} \cup (0 .. Len(events))]]
          /\ \A r \in Regions, j \in Keys : cache'[r][j] <= key[j].rev
      <3>1. CASE UNCHANGED cache
        BY <1>t, <3>1 DEF TypeOK
      <3>2. CASE cache' = [cache EXCEPT ![RegionOf[g]][k] = flight[g][k].got]
        BY <1>t, <2>2, <2>3, <3>2 DEF TypeOK
      <3> QED BY <1>3, <3>1, <3>2 DEF RequestStep, Request, Lookup, Resolve, Store, FlightFails
    <2>7. late' \subseteq Regions
      BY <1>t, <1>3, <2>2 DEF TypeOK, RequestStep, Request, Lookup, Resolve, Store, FlightFails,
                              history
    <2> QED BY <1>t, <1>f, <2>1, <2>5, <2>6, <2>7 DEF TypeOK, SyncType, Ids
  <1>4. ASSUME NEW r \in Regions, NEW k \in Keys, Expire(r, k) PROVE TypeOK'
    <2>1. /\ cache' = [cache EXCEPT ![r][k] = None]
          /\ UNCHANGED <<events, key, cursor, sync, flight, handled, passed, late>>
      BY <1>4 DEF Expire, Remaining, plane, history
    <2>2. /\ cache' \in [Regions -> [Keys -> {None} \cup (0 .. Len(events))]]
          /\ \A q \in Regions, j \in Keys : cache'[q][j] \in {None, cache[q][j]}
      BY <1>t, <2>1 DEF TypeOK
    <2>3. \A q \in Regions, j \in Keys : cache'[q][j] <= key[j].rev
      BY <1>t, <1>k, <2>2 DEF TypeOK, None
    <2> QED BY <1>t, <1>f, <2>1, <2>2, <2>3 DEF TypeOK, SyncType, Ids
  <1>5. CASE UNCHANGED vars
    BY <1>t, <1>5 DEF TypeOK, vars, SyncType, Ids
  <1> QED BY <1>1, <1>2, <1>3, <1>4, <1>5 DEF Next, RequestStep

\* What announcing and changing a key leave alone.
LEMMA PlaneLeaves ==
  ASSUME NEW n \in Notices,
         Announce(n) \/ \E k \in Keys, active \in BOOLEAN : ChangeKey(k, active, n)
  PROVE  /\ Len(events) < MaxEvents /\ events' = Append(events, n)
         /\ UNCHANGED <<cursor, sync, cache, flight, handled, passed, late>>
  BY DEF Announce, ChangeKey, history

LEMMA ExpireLeaves ==
  ASSUME NEW r \in Regions, NEW k \in Keys, Expire(r, k)
  PROVE  UNCHANGED <<events, key, cursor, sync, flight, handled, passed, late>>
  BY DEF Expire, plane, history

\* A page is entered at its first event and left after its last.
LEMMA InsideStep == IInv /\ [Next]_vars => Inside'
  <1> SUFFICES ASSUME IInv, [Next]_vars PROVE Inside'
    OBVIOUS
  <1>t. TypeOK /\ Inside
    BY DEF IInv
  <1>1. CASE UNCHANGED sync
    BY <1>t, <1>1 DEF Inside, At
  <1>2. ASSUME NEW g \in Gateways, Poll(g) \/ SyncFails(g) PROVE Inside'
    <2>1. CASE Become(g, Waiting)
      BY <1>t, <2>1, GiveUpEffect DEF Inside, At
    <2>2. CASE ReadCursor(g)
      BY <1>t, <2>2, ReadCursorEffect DEF Inside, At
    <2>3. CASE Fetch(g) /\ ~Become(g, Waiting)
      <3>1. sync[g].since \in Nat
        BY <1>t DEF TypeOK, SyncType
      <3> QED BY <1>t, <2>3, <3>1, FetchEffect DEF Inside, At
    <2>4. CASE (Handling(g) \/ At(g, "del")) /\ Proceed(g)
      <3>1. sync[g].since \in Nat /\ sync[g].next \in Nat /\ sync[g].since < sync[g].next
        BY <1>t, <2>4 DEF TypeOK, SyncType, Inside, Handling, At
      <3>2. /\ sync'[g].pc = "handle" /\ sync'[g].since < sync'[g].next
            /\ \A h \in Gateways : h # g => sync'[h] = sync[h]
        BY <1>t, <2>4, <3>1, ProceedEffect
      <3> QED BY <1>t, <3>2 DEF Inside, At
    <2>5. CASE Scan(g) /\ ~Become(g, Waiting)
      <3>1. sync[g].since < sync[g].next /\ sync[g].next <= sync[g].latest
        BY <1>t, <2>5 DEF Inside, Scan, Handling, At
      <3> QED BY <1>t, <2>5, <3>1, ScanEffect DEF Inside, At
    <2> QED BY <1>2, <2>1, <2>2, <2>3, <2>4, <2>5, SyncerMoves DEF Moves
  <1> QED BY <1>1, <1>2, PlaneLeaves, RequestLeaves, ExpireLeaves DEF Next, vars, RequestStep

\* Keys only change forward, and a request is answered with the current change.
LEMMA FlightStep == IInv /\ [Next]_vars => FlightBehind'
  <1> SUFFICES ASSUME IInv, [Next]_vars PROVE FlightBehind'
    OBVIOUS
  <1>t. TypeOK /\ FlightBehind
    BY DEF IInv
  <1>k. /\ Len(events) \in Nat
        /\ \A k \in Keys : key[k].rev \in 0 .. Len(events)
        /\ \A g \in Gateways, k \in Keys : flight[g][k].got \in {None} \cup (0 .. Len(events))
    BY <1>t DEF TypeOK
  <1>1. ASSUME UNCHANGED flight, \A k \in Keys : key'[k].rev \in {key[k].rev, Len(events) + 1}
        PROVE  FlightBehind'
    BY <1>t, <1>k, <1>1 DEF FlightBehind, None
  <1>2. ASSUME NEW n \in Notices,
               Announce(n) \/ \E k \in Keys, active \in BOOLEAN : ChangeKey(k, active, n)
        PROVE  FlightBehind'
    <2>1. UNCHANGED flight
      BY <1>2, PlaneLeaves
    <2>2. \A k \in Keys : key'[k].rev \in {key[k].rev, Len(events) + 1}
      BY <1>t, <1>2 DEF TypeOK, Announce, ChangeKey
    <2> QED BY <1>1, <2>1, <2>2
  <1>3. ASSUME NEW g \in Gateways, NEW k \in Keys, RequestStep(g, k) PROVE FlightBehind'
    <2>1. UNCHANGED key
      BY <1>3, RequestLeaves
    <2>2. \E f : f.got <= key[k].rev /\ Fly(g, k, f)
      <3>1. CASE Lookup(g, k)
        BY <1>k, <3>1 DEF Lookup, None
      <3>2. CASE Resolve(g, k)
        BY <1>k, <3>2 DEF Resolve, Landed, None
      <3>3. CASE Store(g, k) \/ FlightFails(g, k)
        BY <1>k, <3>3 DEF Store, FlightFails, Landed, None
      <3> QED BY <1>3, <3>1, <3>2, <3>3 DEF RequestStep, Request
    <2>3. PICK f : f.got <= key[k].rev /\ flight' = [flight EXCEPT ![g][k] = f]
      BY <2>2 DEF Fly
    <2>4. \A h \in Gateways, j \in Keys : flight'[h][j] = IF h = g /\ j = k THEN f ELSE flight[h][j]
      BY <1>t, <2>3 DEF TypeOK
    <2> QED BY <1>t, <2>1, <2>3, <2>4 DEF FlightBehind
  <1>4. CASE UNCHANGED flight /\ UNCHANGED key
    BY <1>1, <1>4
  <1> QED BY <1>2, <1>3, <1>4, SyncerLeaves, ExpireLeaves DEF Next, vars, RequestStep

\* A key changes only together with an event that clears keys.
LEMMA KeyEventsStep == IInv /\ [Next]_vars => KeyEvents'
  <1> SUFFICES ASSUME IInv, [Next]_vars PROVE KeyEvents'
    OBVIOUS
  <1>t. TypeOK /\ KeyEvents
    BY DEF IInv
  <1>1. CASE UNCHANGED <<events, key>>
    BY <1>t, <1>1 DEF KeyEvents, Ids
  <1>2. ASSUME NEW n \in Notices,
               Announce(n) \/ \E k \in Keys, active \in BOOLEAN : ChangeKey(k, active, n)
        PROVE  KeyEvents'
    <2>1. /\ Ids \subseteq Ids' /\ Len(events) + 1 \in Ids'
          /\ \A id \in Ids : events'[id] = events[id]
          /\ events'[Len(events) + 1] = n
      BY <1>t, <1>2, PlaneLeaves, AppendKeeps
    <2>2. \A k \in Keys :
            \/ key'[k] = key[k]
            \/ key'[k].rev = Len(events) + 1 /\ n.scope = "key:snapshot"
      BY <1>t, <1>2 DEF TypeOK, Announce, ChangeKey
    <2> QED BY <1>t, <2>1, <2>2 DEF KeyEvents
  <1> QED BY <1>1, <1>2, SyncerLeaves, RequestLeaves, ExpireLeaves DEF Next, vars, RequestStep

(***************************************************************************)
(* Nothing is passed unhandled.                                            *)
(***************************************************************************)
\* The cursor, and with it the start of a page, is only ever what somebody has passed.
LEMMA ReachedStep == IInv /\ [Next]_vars => Reached'
  <1> SUFFICES ASSUME IInv, [Next]_vars PROVE Reached'
    OBVIOUS
  <1>t. TypeOK /\ Reached
    BY DEF IInv
  <1>1. CASE UNCHANGED <<cursor, sync, passed>>
    BY <1>t, <1>1 DEF Reached
  <1>2. ASSUME NEW g \in Gateways, Poll(g) \/ SyncFails(g) PROVE Reached'
    <2>1. passed \subseteq passed'
      <3>1. CASE SetCursor(g)
        BY <3>1 DEF SetCursor
      <3>2. CASE ~SetCursor(g)
        BY <1>2, <3>2 DEF Poll, SyncFails, ReadCursor, Fetch, Skip, Refresh, Scan, Del, history
      <3> QED BY <3>1, <3>2
    <2>2. \A id \in 1 .. cursor' : \E h \in Gateways : <<h, id>> \in passed'
      <3>1. CASE UNCHANGED cursor
        BY <1>t, <2>1, <3>1 DEF Reached
      <3>2. CASE SetCursor(g) /\ cursor' # cursor
        <4>1. cursor' = sync[g].latest /\ passed' = passed \cup Batch(g)
          BY <3>2 DEF SetCursor
        <4> SUFFICES ASSUME NEW id \in 1 .. sync[g].latest
                     PROVE  \E h \in Gateways : <<h, id>> \in passed'
          BY <4>1
        <4>2. sync[g].since \in Nat /\ sync[g].latest \in Nat
          BY <1>t DEF TypeOK, SyncType
        <4>3. CASE id \in 1 .. sync[g].since
          BY <1>t, <2>1, <4>3 DEF Reached
        <4>4. CASE id \notin 1 .. sync[g].since
          BY <4>1, <4>2, <4>4 DEF Batch
        <4> QED BY <4>3, <4>4
      <3> QED BY <1>2, <3>1, <3>2 DEF Poll, SyncFails, ReadCursor, Fetch, Skip, Refresh, Scan, Del
    <2>3. /\ \A h \in Gateways : h # g => sync'[h] = sync[h]
          /\ sync'[g].since \in {0, cursor, sync[g].since}
      <3>1. CASE Become(g, Waiting)
        BY <1>t, <3>1, GiveUpEffect
      <3>2. CASE ReadCursor(g)
        BY <1>t, <3>2, ReadCursorEffect
      <3>3. CASE Fetch(g) /\ ~Become(g, Waiting)
        BY <1>t, <3>3, FetchEffect
      <3>4. CASE Proceed(g)
        BY <1>t, <3>4, ProceedEffect
      <3>5. CASE Scan(g) /\ ~Become(g, Waiting)
        BY <1>t, <3>5, ScanEffect
      <3> QED BY <1>2, <3>1, <3>2, <3>3, <3>4, <3>5, SyncerMoves DEF Moves
    <2>4. \A h \in Gateways : \A id \in 1 .. sync'[h].since :
            \E i \in Gateways : <<i, id>> \in passed'
      BY <1>t, <2>1, <2>3 DEF Reached
    <2> QED BY <2>2, <2>4 DEF Reached
  <1> QED BY <1>1, <1>2, PlaneLeaves, RequestLeaves, ExpireLeaves DEF Next, vars, RequestStep

\* A syncer goes on to the next event only after a skip or a finished handler.
LEMMA BehindStep == IInv /\ [Next]_vars => BehindHandled'
  <1> SUFFICES ASSUME IInv, [Next]_vars PROVE BehindHandled'
    OBVIOUS
  <1>t. TypeOK /\ BehindHandled /\ Inside
    BY DEF IInv
  <1>0. \A g \in Gateways : sync[g].pc \in {"handle", "del"} =>
          \A id \in (sync[g].since + 1) .. (sync[g].next - 1) : id \in Ids
    <2> SUFFICES ASSUME NEW g \in Gateways,
                        NEW id \in (sync[g].since + 1) .. (sync[g].next - 1)
                 PROVE  id \in Ids
      OBVIOUS
    <2>1. sync[g].since \in Nat /\ sync[g].next \in Nat /\ sync[g].latest \in Nat
          /\ Len(events) \in Nat
      BY <1>t DEF TypeOK, SyncType
    <2>2. sync[g].next <= sync[g].latest + 1 /\ sync[g].latest <= Len(events)
      BY <1>t DEF TypeOK
    <2> QED BY <2>1, <2>2 DEF Ids
  <1>1. CASE UNCHANGED <<events, sync, handled>>
    BY <1>t, <1>1 DEF BehindHandled, Concerns
  <1>2. ASSUME NEW n \in Notices,
               Announce(n) \/ \E k \in Keys, active \in BOOLEAN : ChangeKey(k, active, n)
        PROVE  BehindHandled'
    <2>1. UNCHANGED <<sync, handled>>
      BY <1>2, PlaneLeaves
    <2>2. \A g, id : id \in Ids => (Concerns(g, id)' <=> Concerns(g, id))
      BY <1>t, <1>2, PlaneLeaves, AppendKeeps
    <2> QED BY <1>t, <1>0, <2>1, <2>2 DEF BehindHandled
  <1>3. ASSUME NEW g \in Gateways, Poll(g) \/ SyncFails(g) PROVE BehindHandled'
    <2>1. UNCHANGED events
      BY <1>3, SyncerLeaves
    <2>2. handled \subseteq handled'
      BY <1>3 DEF Poll, SyncFails, ReadCursor, Fetch, Skip, Refresh, Scan, Del, SetCursor, Handled,
                  history
    <2>3. ASSUME \A h \in Gateways : h # g => sync'[h] = sync[h],
                 sync'[g].pc \in {"handle", "del"} =>
                   \A id \in (sync'[g].since + 1) .. (sync'[g].next - 1) :
                     Concerns(g, id) => <<g, id>> \in handled'
          PROVE  BehindHandled'
      <3> SUFFICES ASSUME NEW h \in Gateways, sync'[h].pc \in {"handle", "del"},
                          NEW id \in (sync'[h].since + 1) .. (sync'[h].next - 1),
                          Concerns(h, id)'
                   PROVE  <<h, id>> \in handled'
        BY DEF BehindHandled
      <3>1. Concerns(h, id)
        BY <2>1 DEF Concerns
      <3> QED BY <1>t, <2>2, <2>3, <3>1 DEF BehindHandled
    <2>4. CASE Become(g, Waiting)
      BY <1>t, <2>3, <2>4, GiveUpEffect
    <2>5. CASE ReadCursor(g)
      BY <1>t, <2>3, <2>5, ReadCursorEffect
    <2>6. CASE Fetch(g) /\ ~Become(g, Waiting)
      <3>1. sync[g].since \in Nat
        BY <1>t DEF TypeOK, SyncType
      <3>2. (sync'[g].since + 1) .. (sync'[g].next - 1) = {}
        BY <1>t, <2>6, <3>1, FetchEffect
      <3> QED BY <1>t, <2>3, <2>6, <3>2, FetchEffect
    <2>7. CASE (Handling(g) \/ At(g, "del")) /\ Proceed(g)
      <3>1. Concerns(g, sync[g].next) => <<g, sync[g].next>> \in handled'
        <4>1. Skip(g) => ~Concerns(g, sync[g].next)
          BY DEF Skip
        <4>2. (Refresh(g) \/ Del(g)) /\ ~Become(g, Waiting) => Handled(g)
          BY DEF Refresh, Del, GiveUp
        <4>3. ~Become(g, Waiting) /\ ~ReadCursor(g) /\ ~Fetch(g) /\ ~Scan(g)
          <5>1. sync'[g].pc = "handle" /\ sync'[g].next = sync[g].next + 1
            BY <1>t, <2>7, ProceedEffect
          <5>2. sync[g].pc \in {"handle", "del"}
            BY <2>7 DEF Handling, At
          <5>3. ~Become(g, Waiting) /\ ~ReadCursor(g) /\ ~Fetch(g)
            BY <1>t, <5>1, <5>2, GiveUpEffect DEF ReadCursor, Fetch, At
          <5> QED BY <1>t, <5>1, <5>3, ScanEffect
        <4>4. Skip(g) \/ Refresh(g) \/ Del(g)
          BY <1>3, <4>3 DEF Poll, SyncFails, SetCursor, GiveUp
        <4> QED BY <4>1, <4>2, <4>3, <4>4 DEF Handled
      <3>2. sync[g].since \in Nat /\ sync[g].next \in Nat /\ sync[g].pc \in {"handle", "del"}
        BY <1>t, <2>7 DEF TypeOK, SyncType, Handling, At
      <3>3. \A id \in (sync[g].since + 1) .. sync[g].next :
              Concerns(g, id) => <<g, id>> \in handled'
        BY <1>t, <2>2, <3>1, <3>2 DEF BehindHandled
      <3>4. sync'[g].next - 1 = sync[g].next /\ sync'[g].since = sync[g].since
            /\ \A h \in Gateways : h # g => sync'[h] = sync[h]
        BY <1>t, <2>7, <3>2, ProceedEffect
      <3> QED BY <2>3, <3>3, <3>4
    <2>8. CASE Scan(g) /\ ~Become(g, Waiting)
      <3>1. sync[g].pc = "handle"
        BY <2>8 DEF Scan, Handling, At
      <3> QED BY <1>t, <2>2, <2>3, <2>8, <3>1, ScanEffect DEF BehindHandled
    <2> QED BY <1>3, <2>4, <2>5, <2>6, <2>7, <2>8, SyncerMoves DEF Moves
  <1> QED BY <1>1, <1>2, <1>3, RequestLeaves, ExpireLeaves DEF Next, vars, RequestStep

\* The cursor moves over a page whose events are all behind.
LEMMA PassedStep == IInv /\ [Next]_vars => PassedHandled'
  <1> SUFFICES ASSUME IInv, [Next]_vars PROVE PassedHandled'
    OBVIOUS
  <1>t. TypeOK /\ BehindHandled /\ PassedHandled
    BY DEF IInv
  <1>1. CASE UNCHANGED <<events, handled, passed>>
    BY <1>t, <1>1 DEF PassedHandled, Concerns
  <1>2. ASSUME NEW n \in Notices,
               Announce(n) \/ \E k \in Keys, active \in BOOLEAN : ChangeKey(k, active, n)
        PROVE  PassedHandled'
    <2>1. UNCHANGED <<passed, handled>>
      BY <1>2, PlaneLeaves
    <2>2. \A g, id : id \in Ids => (Concerns(g, id)' <=> Concerns(g, id))
      BY <1>t, <1>2, PlaneLeaves, AppendKeeps
    <2>3. \A p \in passed : p[2] \in Ids
      BY <1>t DEF TypeOK
    <2> QED BY <1>t, <2>1, <2>2, <2>3 DEF PassedHandled
  <1>3. ASSUME NEW g \in Gateways, Poll(g) \/ SyncFails(g) PROVE PassedHandled'
    <2>1. UNCHANGED events
      BY <1>3, SyncerLeaves
    <2>2. handled \subseteq handled'
      BY <1>3 DEF Poll, SyncFails, ReadCursor, Fetch, Skip, Refresh, Scan, Del, SetCursor, Handled,
                  history
    <2>3. CASE UNCHANGED passed
      BY <1>t, <2>1, <2>2, <2>3 DEF PassedHandled, Concerns
    <2>4. CASE SetCursor(g)
      <3>1. passed' \subseteq passed \cup Batch(g)
        BY <2>4 DEF SetCursor
      <3>2. \A id \in (sync[g].since + 1) .. sync[g].latest :
              Concerns(g, id) => <<g, id>> \in handled
        <4>1. sync[g].since \in Nat /\ sync[g].next \in Nat /\ sync[g].latest \in Nat
              /\ sync[g].pc = "handle" /\ sync[g].latest <= sync[g].next - 1
          BY <1>t, <2>4 DEF TypeOK, SyncType, SetCursor, At
        <4> QED BY <1>t, <4>1 DEF BehindHandled
      <3>3. \A p \in Batch(g) : Concerns(p[1], p[2]) => p \in handled
        BY <3>2 DEF Batch
      <3> QED BY <1>t, <2>1, <2>2, <3>1, <3>3 DEF PassedHandled, Concerns
    <2> QED BY <1>3, <2>3, <2>4 DEF Poll, SyncFails, ReadCursor, Fetch, Skip, Refresh, Scan, Del,
                                    history
  <1> QED BY <1>1, <1>2, <1>3, RequestLeaves, ExpireLeaves DEF Next, vars, RequestStep

(***************************************************************************)
(* Only what was stored late is stale.                                     *)
(***************************************************************************)
\* A syncer only ever empties entries of the key cache.
LEMMA SyncerClears ==
  ASSUME TypeOK, NEW g \in Gateways, Poll(g) \/ SyncFails(g)
  PROVE  \A r \in Regions, k \in Keys : cache'[r][k] \in {None, cache[r][k]}
  <1>1. CASE UNCHANGED cache
    BY <1>1
  <1>2. CASE cache' = [cache EXCEPT ![RegionOf[g]] =
                         [k \in Keys |-> IF k \in Deleted(g) THEN None ELSE @[k]]]
    BY <1>2 DEF TypeOK
  <1> QED BY <1>1, <1>2 DEF Poll, SyncFails, ReadCursor, Fetch, Skip, Refresh, Scan, Del, SetCursor

\* A request changes one entry, and is late when what it stores is older than a change
\* whose event some deletion has got to.
LEMMA RequestStores ==
  ASSUME TypeOK, FlightBehind, NEW g \in Gateways, NEW k \in Keys, RequestStep(g, k)
  PROVE  /\ late \subseteq late'
         /\ \A r \in Regions, j \in Keys :
              \/ cache'[r][j] = cache[r][j]
              \/ /\ j = k /\ cache'[r][k] \in {None} \cup (0 .. Len(events))
                 /\ cache'[r][k] # key[k].rev /\ Clearing(r, key[k].rev) => r \in late'
  <1>1. CASE UNCHANGED <<cache, late>>
    BY <1>1
  <1>2. CASE Store(g, k)
    <2> DEFINE q == RegionOf[g]
               got == flight[g][k].got
    <2>1. /\ cache' = [cache EXCEPT ![q][k] = got]
          /\ late' = IF got < key[k].rev /\ Clearing(q, key[k].rev) THEN late \cup {q} ELSE late
      BY <1>2 DEF Store
    <2>2. q \in Regions
      BY DEF Regions
    <2>3. got <= key[k].rev /\ got \in {None} \cup (0 .. Len(events)) /\ key[k].rev \in Nat
      BY DEF TypeOK, FlightBehind
    <2>4. \A r \in Regions, j \in Keys :
            cache'[r][j] = IF r = q /\ j = k THEN got ELSE cache[r][j]
      BY <2>1, <2>2 DEF TypeOK
    <2>5. got # key[k].rev => got < key[k].rev
      BY <2>3 DEF None, TypeOK
    <2> QED BY <2>1, <2>3, <2>4, <2>5
  <1> QED BY <1>1, <1>2 DEF RequestStep, Request, Lookup, Resolve, FlightFails, history

\* After a key's change its event is a new one, which nobody has handled.
LEMMA ChangeIsNew ==
  ASSUME TypeOK, NEW n \in Notices,
         Announce(n) \/ \E k \in Keys, active \in BOOLEAN : ChangeKey(k, active, n)
  PROVE  \A k \in Keys : key'[k] = key[k] \/ key'[k].rev = Len(events) + 1
  BY DEF TypeOK, Announce, ChangeKey

LEMMA ScanStep == IInv /\ [Next]_vars => ScanSaw'
  <1> SUFFICES ASSUME IInv, [Next]_vars PROVE ScanSaw'
    OBVIOUS
  <1>t. TypeOK /\ Inside /\ FlightBehind /\ ScanSaw
    BY DEF IInv
  <1>r. \A g \in Gateways : RegionOf[g] \in Regions
    BY DEF Regions
  <1>1. CASE UNCHANGED <<key, sync, cache, late>>
    BY <1>t, <1>1 DEF ScanSaw, At
  <1>2. ASSUME NEW n \in Notices,
               Announce(n) \/ \E k \in Keys, active \in BOOLEAN : ChangeKey(k, active, n)
        PROVE  ScanSaw'
    <2>1. UNCHANGED <<sync, cache, late>>
      BY <1>2, PlaneLeaves
    <2>2. \A g \in Gateways : At(g, "del") => sync[g].next # Len(events) + 1
      <3>1. Len(events) \in Nat
        BY <1>t DEF TypeOK
      <3>2. \A g \in Gateways : sync[g].latest <= Len(events) /\ sync[g] \in SyncType
        BY <1>t DEF TypeOK
      <3> QED BY <1>t, <3>1, <3>2 DEF Inside, SyncType
    <2>3. \A k \in Keys : key'[k] = key[k] \/ key'[k].rev = Len(events) + 1
      BY <1>t, <1>2, ChangeIsNew
    <2> QED BY <1>t, <2>1, <2>2, <2>3 DEF ScanSaw, At
  <1>3. ASSUME NEW h \in Gateways, Poll(h) \/ SyncFails(h) PROVE ScanSaw'
    <2>1. UNCHANGED <<key, late>>
      BY <1>3, SyncerLeaves
    <2>2. \A r \in Regions, k \in Keys : cache'[r][k] \in {None, cache[r][k]}
      BY <1>t, <1>3, SyncerClears
    <2>3. CASE Scan(h) /\ ~Become(h, Waiting)
      <3>1. UNCHANGED cache
        BY <2>3 DEF Scan
      <3> QED BY <1>t, <1>r, <2>1, <2>3, <3>1, ScanEffect DEF ScanSaw, At
    <2>4. CASE sync'[h].pc # "del" /\ \A g \in Gateways : g # h => sync'[g] = sync[g]
      BY <1>t, <1>r, <2>1, <2>2, <2>4 DEF ScanSaw, At
    <2>5. CASE Become(h, Waiting)
      BY <1>t, <2>4, <2>5, GiveUpEffect
    <2>6. CASE ReadCursor(h)
      BY <1>t, <2>4, <2>6, ReadCursorEffect
    <2>7. CASE Fetch(h) /\ ~Become(h, Waiting)
      BY <1>t, <2>4, <2>7, FetchEffect
    <2>8. CASE Proceed(h)
      BY <1>t, <2>4, <2>8, ProceedEffect
    <2> QED BY <1>3, <2>3, <2>5, <2>6, <2>7, <2>8, SyncerMoves DEF Moves
  <1>4. ASSUME NEW h \in Gateways, NEW j \in Keys, RequestStep(h, j) PROVE ScanSaw'
    <2> SUFFICES ASSUME NEW g \in Gateways, NEW k \in Keys, At(g, "del")',
                        key'[k].rev = sync'[g].next,
                        cache'[RegionOf[g]][k] \notin {None, key'[k].rev}
                 PROVE  k \in sync'[g].found \/ RegionOf[g] \in late'
      BY DEF ScanSaw
    <2>1. sync' = sync /\ key' = key
      BY <1>4, RequestLeaves
    <2>2. Clearing(RegionOf[g], key[k].rev)
      BY <2>1 DEF Clearing, At
    <2> QED BY <1>t, <1>r, <1>4, <2>1, <2>2, RequestStores DEF ScanSaw, At
  <1>5. ASSUME NEW q \in Regions, NEW j \in Keys, Expire(q, j) PROVE ScanSaw'
    <2>1. UNCHANGED <<key, sync, late>> /\ cache' = [cache EXCEPT ![q][j] = None]
      BY <1>5 DEF Expire, Remaining, plane, history
    <2>2. \A r \in Regions, k \in Keys : cache'[r][k] \in {None, cache[r][k]}
      BY <1>t, <2>1 DEF TypeOK
    <2> QED BY <1>t, <1>r, <2>1, <2>2 DEF ScanSaw, At
  <1> QED BY <1>1, <1>2, <1>3, <1>4, <1>5 DEF Next, vars, RequestStep

LEMMA StaleStep == IInv /\ [Next]_vars => StaleOnlyIfLate'
  <1> SUFFICES ASSUME IInv, [Next]_vars PROVE StaleOnlyIfLate'
    OBVIOUS
  <1>t. TypeOK /\ Inside /\ FlightBehind /\ KeyEvents /\ ScanSaw /\ StaleOnlyIfLate
    BY DEF IInv
  <1>1. CASE UNCHANGED <<key, cache, handled, late>>
    BY <1>t, <1>1 DEF StaleOnlyIfLate, HandledIn
  <1>2. ASSUME NEW n \in Notices,
               Announce(n) \/ \E k \in Keys, active \in BOOLEAN : ChangeKey(k, active, n)
        PROVE  StaleOnlyIfLate'
    <2>1. UNCHANGED <<cache, handled, late>>
      BY <1>2, PlaneLeaves
    <2>2. \A r : ~HandledIn(r, Len(events) + 1)
      <3>1. Len(events) + 1 \notin Ids
        BY <1>t DEF TypeOK, Ids
      <3>2. \A p \in handled : p[2] \in Ids
        BY <1>t DEF TypeOK
      <3> QED BY <3>1, <3>2 DEF HandledIn
    <2>3. \A k \in Keys : key'[k] = key[k] \/ key'[k].rev = Len(events) + 1
      BY <1>t, <1>2, ChangeIsNew
    <2> QED BY <1>t, <2>1, <2>2, <2>3 DEF StaleOnlyIfLate, HandledIn
  <1>3. ASSUME NEW g \in Gateways, Poll(g) \/ SyncFails(g) PROVE StaleOnlyIfLate'
    <2> SUFFICES ASSUME NEW r \in Regions, NEW k \in Keys,
                        cache'[r][k] \notin {None, key'[k].rev}, key'[k].rev > 0,
                        HandledIn(r, key[k].rev)'
                 PROVE  r \in late'
      BY DEF StaleOnlyIfLate, HandledIn
    <2>1. events' = events /\ key' = key /\ late' = late
      BY <1>3, SyncerLeaves
    <2>2. cache[r][k] = cache'[r][k]
      BY <1>t, <1>3, SyncerClears
    <2>3. CASE HandledIn(r, key[k].rev)
      BY <1>t, <2>1, <2>2, <2>3 DEF StaleOnlyIfLate
    <2>4. CASE ~HandledIn(r, key[k].rev)
      <3>1. PICK h \in Gateways : RegionOf[h] = r /\ <<h, key[k].rev>> \in handled'
        BY <2>1 DEF HandledIn
      <3>2. <<h, key[k].rev>> \notin handled
        BY <2>4, <3>1 DEF HandledIn
      <3>3. Handled(g) /\ (Refresh(g) \/ Del(g))
        BY <1>3, <3>1, <3>2 DEF Poll, SyncFails, ReadCursor, Fetch, Skip, Refresh, Scan, Del,
                                SetCursor, history
      <3>4. h = g /\ sync[g].next = key[k].rev
        BY <3>1, <3>2, <3>3 DEF Handled
      <3>5. events[sync[g].next].scope = "key:snapshot"
        BY <1>t, <2>1, <3>4 DEF KeyEvents
      <3>6. Del(g)
        BY <3>3, <3>5 DEF Refresh, Event
      <3>7. At(g, "del") /\ cache' = [cache EXCEPT ![RegionOf[g]] =
                              [j \in Keys |-> IF j \in Deleted(g) THEN None ELSE @[j]]]
        BY <3>1, <3>2, <3>6 DEF Del
      <3>8. k \notin sync[g].found
        BY <1>t, <2>2, <3>1, <3>4, <3>7 DEF TypeOK, Deleted
      <3> QED BY <1>t, <2>1, <2>2, <3>1, <3>4, <3>7, <3>8 DEF ScanSaw
    <2> QED BY <2>3, <2>4
  <1>4. ASSUME NEW g \in Gateways, NEW j \in Keys, RequestStep(g, j) PROVE StaleOnlyIfLate'
    <2> SUFFICES ASSUME NEW r \in Regions, NEW k \in Keys,
                        cache'[r][k] \notin {None, key'[k].rev}, key'[k].rev > 0,
                        HandledIn(r, key[k].rev)'
                 PROVE  r \in late'
      BY DEF StaleOnlyIfLate, HandledIn
    <2>1. key' = key /\ handled' = handled
      BY <1>4, RequestLeaves
    <2>2. HandledIn(r, key[k].rev)
      BY <2>1 DEF HandledIn
    <2>3. Clearing(r, key[k].rev)
      BY <2>2 DEF Clearing, HandledIn
    <2> QED BY <1>t, <1>4, <2>1, <2>2, <2>3, RequestStores DEF StaleOnlyIfLate
  <1>5. ASSUME NEW q \in Regions, NEW j \in Keys, Expire(q, j) PROVE StaleOnlyIfLate'
    <2>1. UNCHANGED <<key, handled, late>> /\ cache' = [cache EXCEPT ![q][j] = None]
      BY <1>5 DEF Expire, Remaining, plane, history
    <2>2. \A r \in Regions, k \in Keys : cache'[r][k] \in {None, cache[r][k]}
      BY <1>t, <2>1 DEF TypeOK
    <2> QED BY <1>t, <2>1, <2>2 DEF StaleOnlyIfLate, HandledIn
  <1> QED BY <1>1, <1>2, <1>3, <1>4, <1>5 DEF Next, vars, RequestStep

LEMMA StepInv == IInv /\ [Next]_vars => IInv'
  BY TypeStep, InsideStep, FlightStep, KeyEventsStep, ReachedStep, BehindStep, PassedStep,
     ScanStep, StaleStep DEF IInv

\* Every reachable state satisfies the inductive invariant.
THEOREM Invariance == Spec => []IInv
  <1> QED BY InitInv, StepInv, PTL DEF Spec

\* The shapes hold, and nobody is ahead of the control plane.
THEOREM TypeCorrect == Spec => []TypeOK
  <1> QED BY Invariance, InvImplies, PTL

\* Whoever moves the shared cursor over an event addressed to it has handled it.
THEOREM NothingIsPassedUnhandled == Spec => []NothingPassedUnhandled
  <1> QED BY Invariance, InvImplies, PTL

\* Where the event of a key's last change is handled, only what a request stored behind
\* the deletion's back is older.
THEOREM StaleIsLate == Spec => []StaleOnlyIfLate
  <1> QED BY Invariance, InvImplies, PTL

=============================================================================
