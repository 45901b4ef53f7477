----------------------------- MODULE UsageQueue -----------------------------
(***************************************************************************)
(* The regional usage queue: ReportUsage adds an event to a Redis stream,  *)
(* every gateway process runs one worker that reads the stream through a   *)
(* consumer group, reports its batch to the control plane, and then either *)
(* acknowledges the messages, adds them again for a later attempt, or      *)
(* moves them to the dead stream.                                          *)
(*                                                                         *)
(* The workers of all processes of a region share the stream and the group *)
(* (each calls itself worker-0; reads with ">" and XACK do not look at the *)
(* name, so who a delivered message belongs to is not modelled).  Streams  *)
(* of different prefixes do not interact: this is one of them.             *)
(*                                                                         *)
(* Each Redis command is one atomic action.  It can fail outright, execute *)
(* with the caller seeing an error, or be sent twice by go-redis.          *)
(***************************************************************************)
EXTENDS Integers, Sequences, FiniteSets

CONSTANTS
  Events,       \* the usage events of the region
  Garbage,      \* stream messages no worker can parse (left by other versions)
  Workers,      \* the gateway processes, one worker each
  BatchSize,    \* defaultUsageBatchSize
  MaxAttempts,  \* maxUsageReportAttempts
  StreamMaxLen, \* defaultUsageStreamMaxLen
  FaultKinds,   \* which of "crash", "error", "resend" can happen
  MaxFaults     \* bound: how many of them happen

ASSUME MessagesDisjoint == Events \cap Garbage = {}
ASSUME BatchSizePos == BatchSize \in Nat \ {0}
ASSUME MaxAttemptsPos == MaxAttempts \in Nat \ {0}
ASSUME StreamMaxLenNat == StreamMaxLen \in Nat
ASSUME FaultBound == FaultKinds \subseteq {"crash", "error", "resend"} /\ MaxFaults \in Nat

VARIABLES
  log,      \* every message ever added, in order: its place is its stream id
  live,     \* the ids still in the stream
  group,    \* does the consumer group exist?
  cursor,   \* the group's last delivered id
  pel,      \* the group's pending list: delivered and not acknowledged
  worker,   \* each worker: where it is, its batch, the ids it will acknowledge
  accepted, \* events added to the stream
  reported, \* events the control plane has applied
  dead,     \* messages in the dead stream
  faults,   \* faults so far
  \* History: no action reads these.
  trimmed,  \* messages XTRIM removed before a worker had settled them
  failures  \* for each event, the failed reports of a batch that held it

redisVars == <<log, live, group, cursor, pel>>
outcomeVars == <<reported, dead, trimmed, failures>>
vars == <<log, live, group, cursor, pel, worker, accepted, reported, dead, faults,
          trimmed, failures>>

Messages == Events \cup Garbage
Ids == 1 .. Len(log)

Worker(pc, batch, acks) == [pc |-> pc, batch |-> batch, acks |-> acks]
Down == Worker("down", {}, {})
Idle == Worker("idle", {}, {})
Become(w, state) == worker' = [worker EXCEPT ![w] = state]
At(w, pc) == worker[w].pc = pc

(***************************************************************************)
(* Faults.                                                                 *)
(***************************************************************************)
Calm == UNCHANGED faults
Fault(kind) ==
  /\ kind \in FaultKinds
  /\ faults < MaxFaults
  /\ faults' = faults + 1

\* How often Redis executes a command and whether its caller sees success.
Outcome(copies, ok) ==
  \/ copies = 1 /\ ok /\ Calm
  \/ copies \in {0, 1} /\ ~ok /\ Fault("error")
  \/ copies = 2 /\ ok /\ Fault("resend")

\* A command that does the same when executed twice.
Executes(done, ok) ==
  \/ done /\ ok /\ Calm
  \/ ~ok /\ Fault("error")

(***************************************************************************)
(* The stream.                                                             *)
(***************************************************************************)
XAdd(copies, m, attempts) ==
  /\ log' = log \o [k \in 1 .. copies |-> [msg |-> m, attempts |-> attempts]]
  /\ live' = live \cup (Len(log) + 1 .. Len(log) + copies)

Unread_Everything == live
Unread == {i \in live : i > cursor}

\* XREADGROUP ... COUNT BatchSize with ">": the oldest messages not delivered yet.
Delivered ==
  {i \in Unread : Cardinality({j \in Unread : j < i}) < BatchSize}

(***************************************************************************)
(* Producers.                                                              *)
(***************************************************************************)
\* ReportUsage's XADD, when Redis executes it; otherwise the event is not queued.
Enqueue(e) ==
  /\ e \notin accepted
  /\ accepted' = accepted \cup {e}
  /\ \E copies \in {1, 2}, ok \in BOOLEAN : Outcome(copies, ok) /\ XAdd(copies, e, 0)
  /\ UNCHANGED <<group, cursor, pel, worker, outcomeVars>>

\* A message of another version, or of none.
Strange(m) ==
  /\ \A i \in Ids : log[i].msg # m
  /\ XAdd(1, m, 0)
  /\ Calm
  /\ UNCHANGED <<group, cursor, pel, worker, accepted, outcomeVars>>

(***************************************************************************)
(* A worker.                                                               *)
(***************************************************************************)
\* XGROUP CREATE ... 0: a new group starts at the oldest message.
StartCursor_FromNow == Len(log)
StartCursor == 0

\* ensureGroup, then the goroutine; if the group cannot be created the process
\* runs on without a worker.
StartWorker(w) ==
  /\ At(w, "down")
  /\ \E done, ok \in BOOLEAN :
       /\ Executes(done, ok)
       /\ group' = (group \/ done)
       /\ cursor' = IF done /\ ~group THEN StartCursor ELSE cursor
       /\ Become(w, IF ok THEN Idle ELSE Worker("off", {}, {}))
  /\ UNCHANGED <<log, live, pel, accepted, outcomeVars>>

\* The messages are pending from here on.  If the reply is lost nobody handles
\* them, and the worker goes on to the next ones.
ReadGroup(w) ==
  /\ At(w, "idle") /\ group /\ Unread # {}
  /\ pel' = pel \cup Delivered
  /\ cursor' \in Delivered
  /\ \A i \in Delivered : i <= cursor'
  /\ \/ Calm /\ Become(w, Worker("handle", Delivered, {}))
     \/ (Fault("error") \/ Fault("resend")) /\ UNCHANGED worker
  /\ UNCHANGED <<log, live, group, accepted, outcomeVars>>

Malformed(w) == {i \in worker[w].batch : log[i].msg \in Garbage}

\* handleMessages' first loop: dead-letter what does not parse, and acknowledge
\* it even if that failed.
DiscardMalformed(w) ==
  /\ At(w, "handle")
  /\ \E i \in Malformed(w), copies \in 0 .. 2, ok \in BOOLEAN :
       /\ \A j \in Malformed(w) : i <= j
       /\ Outcome(copies, ok)
       /\ dead' = IF copies > 0 THEN dead \cup {log[i].msg} ELSE dead
       /\ Become(w, Worker("handle", worker[w].batch \ {i}, worker[w].acks \cup {i}))
  /\ UNCHANGED <<redisVars, accepted, reported, trimmed, failures>>

EventsOf(batch) == {log[i].msg : i \in batch}

ReportBatch(w) ==
  /\ At(w, "handle") /\ Malformed(w) = {} /\ worker[w].batch # {}
  /\ reported' = reported \cup EventsOf(worker[w].batch)
  /\ Become(w, Worker("ack", {}, worker[w].acks \cup worker[w].batch))
  /\ Calm
  /\ UNCHANGED <<redisVars, accepted, dead, trimmed, failures>>

\* An error, a rejection or the 10s timeout: the control plane may have applied
\* any of the batch.
ReportBatchFails(w) ==
  /\ At(w, "handle") /\ Malformed(w) = {} /\ worker[w].batch # {}
  /\ \E applied \in SUBSET EventsOf(worker[w].batch) : reported' = reported \cup applied
  /\ failures' = [e \in Events |->
       IF e \in EventsOf(worker[w].batch) THEN failures[e] + 1 ELSE failures[e]]
  /\ Become(w, Worker("retry", worker[w].batch, worker[w].acks))
  /\ Calm
  /\ UNCHANGED <<redisVars, accepted, dead, trimmed>>

\* item.Attempts++, then the limit.
Attempts(i) == log[i].attempts + 1
Exhausted_OffByOne(i) == Attempts(i) > MaxAttempts
Exhausted(i) == Attempts(i) >= MaxAttempts

AckedIf_Always(ok, i) == {i}
AckedIf_RetriedOnly(ok, i) == IF ok /\ ~Exhausted(i) THEN {i} ELSE {}
AckedIf(ok, i) == IF ok THEN {i} ELSE {}

\* The next item of a failed batch: to the dead stream, or after its delay to
\* the end of the stream.  It stays pending if that fails.
SettleItem(w) ==
  /\ At(w, "retry")
  /\ \E i \in worker[w].batch, copies \in 0 .. 2, ok \in BOOLEAN :
       /\ \A j \in worker[w].batch : i <= j
       /\ Outcome(copies, ok)
       /\ \/ /\ Exhausted(i)
             /\ dead' = IF copies > 0 THEN dead \cup {log[i].msg} ELSE dead
             /\ UNCHANGED <<log, live>>
          \/ /\ ~Exhausted(i)
             /\ XAdd(copies, log[i].msg, Attempts(i))
             /\ UNCHANGED dead
       /\ Become(w, Worker("retry", worker[w].batch \ {i},
                           worker[w].acks \cup AckedIf(ok, i)))
  /\ UNCHANGED <<group, cursor, pel, accepted, reported, trimmed, failures>>

\* Everything of the batch is settled: ack, which does nothing without ids.
BatchHandled(w) ==
  /\ worker[w].pc \in {"handle", "retry"} /\ worker[w].batch = {}
  /\ Become(w, IF worker[w].acks = {} THEN Idle ELSE Worker("ack", {}, worker[w].acks))
  /\ Calm
  /\ UNCHANGED <<redisVars, accepted, outcomeVars>>

Ack(w) ==
  /\ At(w, "ack")
  /\ \E done, ok \in BOOLEAN :
       /\ Executes(done, ok)
       /\ pel' = IF done THEN pel \ worker[w].acks ELSE pel
       /\ Become(w, IF ok THEN Worker("delete", {}, worker[w].acks) ELSE Idle)
  /\ UNCHANGED <<log, live, group, cursor, accepted, outcomeVars>>

Delete(w) ==
  /\ At(w, "delete")
  /\ \E done, ok \in BOOLEAN :
       /\ Executes(done, ok)
       /\ live' = IF done THEN live \ worker[w].acks ELSE live
       /\ Become(w, IF ok THEN Worker("trim", {}, {}) ELSE Idle)
  /\ UNCHANGED <<log, group, cursor, pel, accepted, outcomeVars>>

\* XTRIM MAXLEN ~: some of the oldest messages, never below the limit, read or not.
Kept(oldest) == {i \in live : i >= oldest}
Trim(w) ==
  /\ At(w, "trim")
  /\ \E oldest \in Ids :
       /\ live' = Kept(oldest)
       /\ oldest = 1 \/ Cardinality(Kept(oldest)) >= StreamMaxLen
       /\ trimmed' = trimmed \cup
            {log[i].msg : i \in {j \in live \ Kept(oldest) : j > cursor \/ j \in pel}}
  /\ Become(w, Idle)
  /\ Calm
  /\ UNCHANGED <<log, group, cursor, pel, accepted, reported, dead, failures>>

\* The process dies and is started again.
Crash(w) ==
  /\ Fault("crash")
  /\ Become(w, Down)
  /\ UNCHANGED <<redisVars, accepted, outcomeVars>>

Init ==
  /\ log = <<>>
  /\ live = {}
  /\ group = FALSE
  /\ cursor = 0
  /\ pel = {}
  /\ worker = [w \in Workers |-> Down]
  /\ accepted = {}
  /\ reported = {}
  /\ dead = {}
  /\ faults = 0
  /\ trimmed = {}
  /\ failures = [e \in Events |-> 0]

WorkerStep(w) ==
  \/ StartWorker(w) \/ ReadGroup(w) \/ DiscardMalformed(w)
  \/ ReportBatch(w) \/ ReportBatchFails(w) \/ SettleItem(w) \/ BatchHandled(w)
  \/ Ack(w) \/ Delete(w) \/ Trim(w)

Next ==
  \/ \E e \in Events : Enqueue(e)
  \/ \E m \in Garbage : Strange(m)
  \/ \E w \in Workers : WorkerStep(w) \/ Crash(w)

Spec == Init /\ [][Next]_vars

\* A worker's loop never waits for anything but its own timers and timeouts.
FairSpec == Spec /\ \A w \in Workers : WF_vars(WorkerStep(w))

(***************************************************************************)
(* Properties.                                                             *)
(***************************************************************************)
Stages == {"down", "off", "idle", "handle", "retry", "ack", "delete", "trim"}

\* Shapes; a message in the stream always has an attempt left.
TypeOK ==
  /\ log \in Seq([msg : Messages, attempts : 0 .. MaxAttempts - 1])
  /\ live \subseteq Ids
  /\ group \in BOOLEAN
  /\ cursor \in 0 .. Len(log)
  /\ pel \subseteq 1 .. cursor
  /\ worker \in [Workers -> [pc : Stages, batch : SUBSET (1 .. cursor),
                             acks : SUBSET (1 .. cursor)]]
  /\ accepted \subseteq Events
  /\ reported \subseteq Events
  /\ dead \subseteq Messages
  /\ faults \in 0 .. MaxFaults
  /\ trimmed \subseteq Messages
  /\ failures \in [Events -> Nat]

\* The message can still be found: not delivered yet, or pending.
Carried(m) == \E i \in live : log[i].msg = m /\ (i > cursor \/ i \in pel)

\* Whatever fails, crashes or is sent twice, an accepted event is never just gone:
\* the control plane has it, the dead stream has it, the stream still has it, or
\* the length limit pushed it out.
NoSilentLoss ==
  \A e \in accepted : e \in reported \cup dead \cup trimmed \/ Carried(e)

\* An event is given up only after MaxAttempts reports that held it failed, also
\* when some of its messages were duplicates.  ImplementsDelivery implies it.
DeadLetterIsEarned ==
  \A e \in dead \cap Events : failures[e] >= MaxAttempts

\* Without a fault nothing is left behind: every pending message, and every
\* message that was read and is still in the stream, is in some worker's hands.
NothingStranded ==
  faults = 0 =>
    \A i \in pel \cup (live \ Unread) :
      \E w \in Workers : i \in worker[w].batch \cup worker[w].acks

\* Without streams, ids and workers: who waits, who is settled, who was dropped.
UD == INSTANCE UsageDelivery WITH
  waiting <- {e \in Events : Carried(e)},
  dead <- dead \cap Events,
  dropped <- trimmed \cap Events

\* Whatever fails, crashes or is sent twice, an event stops waiting only when it is
\* settled or was dropped, and a settled event that has left the stream is never read,
\* reported or queued again by a worker that still held it.
ImplementsDelivery == UD!Delivery

\* Every accepted event is reported or dead-lettered in the end.
EventuallySettled ==
  \A e \in Events : e \in accepted ~> e \in reported \cup dead

=============================================================================
