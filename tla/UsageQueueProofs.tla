-------------------------- MODULE UsageQueueProofs --------------------------
(***************************************************************************)
(* Theorems about UsageQueue, for any events, messages, workers, batch     *)
(* size, limits and faults.                                                *)
(***************************************************************************)
EXTENDS UsageQueue, FiniteSetTheorems, TLAPS

\* Only a settled message is on its way to be acknowledged, so an event that is
\* not accounted for has a message that no worker is about to acknowledge.
Unacked(i) == \A w \in Workers : i \notin worker[w].acks
Findable(e) ==
  \E i \in live : log[i].msg = e /\ (i > cursor \/ i \in pel) /\ Unacked(i)

Accounted == \A e \in accepted : e \in reported \cup dead \cup trimmed \/ Findable(e)

\* Where a worker stands says what it can hold.
HandsOf(w) ==
  /\ worker[w].pc \in {"down", "off", "idle", "trim"} =>
       worker[w].batch = {} /\ worker[w].acks = {}
  /\ worker[w].pc \in {"ack", "delete"} => worker[w].batch = {}
  /\ worker[w].pc = "delete" => worker[w].acks \cap pel = {}
  /\ worker[w].pc = "retry" =>
       \A i \in worker[w].batch :
         log[i].msg \in Events /\ Attempts(i) <= failures[log[i].msg]

Hands == \A w \in Workers : HandsOf(w)

GroupFirst == ~group => cursor = 0

\* A message's attempts were all failed reports of its event.
Attempted ==
  /\ \A i \in Ids : log[i].msg \in Events => log[i].attempts <= failures[log[i].msg]
  /\ DeadLetterIsEarned

IInv == TypeOK /\ Hands /\ GroupFirst /\ Accounted /\ Attempted /\ NothingStranded

Entry == [msg : Messages, attempts : 0 .. MaxAttempts - 1]

LEMMA WorkerType ==
  ASSUME TypeOK, NEW w \in Workers
  PROVE  /\ worker[w] = Worker(worker[w].pc, worker[w].batch, worker[w].acks)
         /\ worker[w].pc \in Stages
         /\ worker[w].batch \subseteq 1 .. cursor /\ worker[w].acks \subseteq 1 .. cursor
         /\ cursor \in Nat /\ Len(log) \in Nat /\ cursor <= Len(log)
<1>1. Len(log) \in Nat
  BY DEF TypeOK
<1>2. cursor \in Nat /\ cursor <= Len(log)
  BY <1>1 DEF TypeOK
<1>3. /\ worker[w] \in [pc : Stages, batch : SUBSET (1 .. cursor), acks : SUBSET (1 .. cursor)]
  BY DEF TypeOK
<1> QED BY <1>1, <1>2, <1>3 DEF Worker

LEMMA LogType ==
  ASSUME TypeOK, NEW i \in Ids
  PROVE  /\ log[i] \in Entry /\ log[i].msg \in Messages
         /\ log[i].attempts \in 0 .. MaxAttempts - 1 /\ i \in Nat /\ i >= 1
<1>1. log \in Seq(Entry)
  BY DEF TypeOK, Entry
<1>2. log[i] \in Entry /\ i \in Nat /\ i >= 1
  BY <1>1 DEF Ids
<1> QED BY <1>2 DEF Entry

LEMMA BecomeWorker ==
  ASSUME TypeOK, NEW w \in Workers, NEW pc \in Stages,
         NEW c \in Nat, cursor <= c,
         NEW batch \in SUBSET (1 .. c), NEW acks \in SUBSET (1 .. c),
         Become(w, Worker(pc, batch, acks))
  PROVE  /\ worker' \in [Workers -> [pc : Stages, batch : SUBSET (1 .. c),
                                     acks : SUBSET (1 .. c)]]
         /\ worker'[w].pc = pc /\ worker'[w].batch = batch /\ worker'[w].acks = acks
         /\ \A v \in Workers : v # w => worker'[v] = worker[v]
<1>1. cursor \in Nat /\ 1 .. cursor \subseteq 1 .. c
  BY DEF TypeOK
<1>2. worker \in [Workers -> [pc : Stages, batch : SUBSET (1 .. c), acks : SUBSET (1 .. c)]]
  BY <1>1 DEF TypeOK
<1>3. Worker(pc, batch, acks) \in [pc : Stages, batch : SUBSET (1 .. c),
                                    acks : SUBSET (1 .. c)]
  BY DEF Worker
<1> QED BY <1>2, <1>3 DEF Become, Worker

LEMMA XAddLog ==
  ASSUME TypeOK, NEW copies \in 0 .. 2, NEW m \in Messages,
         NEW a \in 0 .. MaxAttempts - 1, XAdd(copies, m, a)
  PROVE  /\ log' \in Seq(Entry)
         /\ Len(log') = Len(log) + copies
         /\ \A i \in Ids : log'[i] = log[i]
         /\ \A i \in Len(log) + 1 .. Len(log) + copies :
              log'[i].msg = m /\ log'[i].attempts = a
         /\ live' = live \cup (Len(log) + 1 .. Len(log) + copies)
         /\ live' \subseteq 1 .. Len(log')
<1> DEFINE new == [k \in 1 .. copies |-> [msg |-> m, attempts |-> a]]
<1>1. log \in Seq(Entry) /\ live \subseteq 1 .. Len(log)
  BY DEF TypeOK, Entry, Ids
<1>2. [msg |-> m, attempts |-> a] \in Entry
  BY DEF Entry
<1>3. new \in Seq(Entry) /\ Len(new) = copies
  BY <1>2
<1>4. log' = log \o new /\ live' = live \cup (Len(log) + 1 .. Len(log) + copies)
  BY DEF XAdd
<1> HIDE DEF new
<1>5. log' \in Seq(Entry) /\ Len(log') = Len(log) + copies
  BY <1>1, <1>3, <1>4
<1>6. \A i \in 1 .. Len(log') : log'[i] = IF i <= Len(log) THEN log[i] ELSE new[i - Len(log)]
  BY <1>1, <1>3, <1>4
<1>7. \A i \in Ids : log'[i] = log[i]
  BY <1>1, <1>5, <1>6 DEF Ids
<1>8. \A i \in Len(log) + 1 .. Len(log) + copies : log'[i].msg = m /\ log'[i].attempts = a
  BY <1>1, <1>5, <1>6 DEF new
<1>9. live' \subseteq 1 .. Len(log')
  <2>1. Len(log) \in Nat /\ 1 .. Len(log) \subseteq 1 .. Len(log')
    BY <1>1, <1>5
  <2>2. Len(log) + 1 .. Len(log) + copies \subseteq 1 .. Len(log')
    BY <1>5, <2>1
  <2> QED BY <1>1, <1>4, <2>1, <2>2
<1> QED BY <1>4, <1>5, <1>7, <1>8, <1>9

LEMMA FaultType ==
  ASSUME TypeOK, Calm \/ \E kind \in {"crash", "error", "resend"} : Fault(kind)
  PROVE  faults' \in 0 .. MaxFaults /\ faults' >= faults /\ faults \in Nat
BY FaultBound DEF TypeOK, Calm, Fault

(***************************************************************************)
(* Adding a message.                                                       *)
(***************************************************************************)
LEMMA AddInv ==
  ASSUME IInv, NEW copies \in 1 .. 2, NEW m \in Messages, XAdd(copies, m, 0),
         UNCHANGED <<group, cursor, pel, worker, outcomeVars>>,
         Calm \/ \E kind \in {"crash", "error", "resend"} : Fault(kind),
         accepted' = accepted \/ (m \in Events /\ accepted' = accepted \cup {m})
  PROVE  IInv'
<1> USE DEF IInv, outcomeVars
<1>1. /\ log' \in Seq(Entry)
      /\ Len(log') = Len(log) + copies
      /\ \A i \in Ids : log'[i] = log[i]
      /\ \A i \in Len(log) + 1 .. Len(log) + copies :
           log'[i].msg = m /\ log'[i].attempts = 0
      /\ live' = live \cup (Len(log) + 1 .. Len(log) + copies)
      /\ live' \subseteq 1 .. Len(log')
  BY XAddLog, MaxAttemptsPos
<1>2. /\ Len(log) \in Nat /\ cursor \in Nat /\ cursor <= Len(log)
      /\ pel \subseteq 1 .. cursor /\ live \subseteq Ids
      /\ faults' \in 0 .. MaxFaults /\ faults' >= faults /\ faults \in Nat
      /\ failures \in [Events -> Nat]
      /\ \A w \in Workers : /\ worker[w].batch \subseteq 1 .. cursor
                            /\ worker[w].acks \subseteq 1 .. cursor
    <2>1. Len(log) \in Nat
      BY DEF TypeOK
    <2> QED BY <2>1, FaultType, WorkerType DEF TypeOK
<1>3. \A i \in 1 .. cursor : i \in Ids
  BY <1>2 DEF Ids
<1>4. TypeOK'
  <2>1. cursor' \in 0 .. Len(log') /\ live' \subseteq Ids'
    BY <1>1, <1>2 DEF Ids
  <2>2. accepted' \subseteq Events
    BY DEF TypeOK
  <2>3. log' \in Seq([msg : Messages, attempts : 0 .. MaxAttempts - 1])
    BY <1>1 DEF Entry
  <2> QED BY <1>2, <2>1, <2>2, <2>3 DEF TypeOK
<1>5. Hands' /\ GroupFirst'
  BY <1>1, <1>2, <1>3 DEF Hands, HandsOf, GroupFirst, Attempts
<1>6. Accounted'
  <2> SUFFICES ASSUME NEW e \in accepted', e \notin reported \cup dead \cup trimmed
               PROVE  Findable(e)'
    BY DEF Accounted
  <2>1. CASE e \in accepted
    <3>1. PICK i \in live :
            log[i].msg = e /\ (i > cursor \/ i \in pel) /\ Unacked(i)
      BY <2>1 DEF Accounted, Findable
    <3>2. i \in live' /\ log'[i] = log[i]
      BY <1>1, <1>2, <3>1
    <3> QED BY <3>1, <3>2 DEF Findable, Unacked
  <2>2. CASE e = m
    <3>1. PICK i \in Nat : i = Len(log) + 1
      BY <1>2
    <3>2. i \in live' /\ log'[i].msg = e /\ i > cursor /\ i \notin 1 .. cursor
      BY <1>1, <1>2, <2>2, <3>1
    <3>3. Unacked(i)'
      BY <1>2, <3>2 DEF Unacked
    <3> QED BY <3>2, <3>3 DEF Findable
  <2> QED BY <2>1, <2>2
<1>7. Attempted'
  <2>1. \A i \in Ids' : log'[i].msg \in Events => log'[i].attempts <= failures[log'[i].msg]
    <3> SUFFICES ASSUME NEW i \in Ids', log'[i].msg \in Events
                 PROVE  log'[i].attempts <= failures[log'[i].msg]
      OBVIOUS
    <3>1. CASE i \in Ids
      BY <1>1, <3>1 DEF Attempted
    <3>2. CASE i \in Len(log) + 1 .. Len(log) + copies
      BY <1>1, <1>2, <3>2
    <3> QED BY <1>1, <1>2, <3>1, <3>2 DEF Ids
  <2> QED BY <2>1 DEF Attempted, DeadLetterIsEarned
<1>8. NothingStranded'
  <2>1. faults' = 0 => faults = 0
    BY <1>2
  <2>2. live' \ Unread' \subseteq live \ Unread
    BY <1>1, <1>2 DEF Unread
  <2> QED BY <2>1, <2>2 DEF NothingStranded
<1> QED BY <1>4, <1>5, <1>6, <1>7, <1>8

(***************************************************************************)
(* A step of a worker that adds no message and reads none.  What the step  *)
(* owes the invariant: the worker's new hands are in order, what it takes  *)
(* out of reach is accounted for, and what it lets go of is gone.          *)
(***************************************************************************)
LEMMA QuietStep ==
  ASSUME IInv, NEW w \in Workers, NEW pc \in Stages,
         NEW batch \in SUBSET (1 .. cursor), NEW acks \in SUBSET (1 .. cursor),
         Become(w, Worker(pc, batch, acks)),
         UNCHANGED <<log, cursor, accepted>>,
         group' \in BOOLEAN, group => group',
         live' \subseteq live, pel' \subseteq pel,
         reported \subseteq reported', reported' \subseteq Events,
         dead \subseteq dead', dead' \subseteq Messages,
         trimmed \subseteq trimmed', trimmed' \subseteq Messages,
         failures' \in [Events -> Nat],
         \A e \in Events : failures[e] <= failures'[e],
         Calm \/ \E kind \in {"crash", "error", "resend"} : Fault(kind),
         HandsOf(w)',
         \A i \in live :
           \/ log[i].msg \notin Events
           \/ log[i].msg \in reported' \cup dead' \cup trimmed'
           \/ ~(i > cursor \/ i \in pel) \/ ~Unacked(i)
           \/ i \in live' /\ (i > cursor \/ i \in pel') /\ i \notin acks,
         DeadLetterIsEarned',
         faults' = 0 =>
           \A i \in worker[w].batch \cup worker[w].acks :
             i \in batch \cup acks \/ (i \notin pel' /\ i \notin live')
  PROVE  IInv'
<1> USE DEF IInv
<1>1. /\ cursor \in Nat /\ Len(log) \in Nat /\ cursor <= Len(log)
      /\ faults' \in 0 .. MaxFaults /\ faults' >= faults /\ faults \in Nat
      /\ failures \in [Events -> Nat]
  BY FaultType, WorkerType DEF TypeOK
<1>2. /\ worker' \in [Workers -> [pc : Stages, batch : SUBSET (1 .. cursor),
                                  acks : SUBSET (1 .. cursor)]]
      /\ worker'[w].pc = pc /\ worker'[w].batch = batch /\ worker'[w].acks = acks
      /\ \A v \in Workers : v # w => worker'[v] = worker[v]
  <2>1. cursor \in Nat /\ cursor <= cursor /\ TypeOK
    BY <1>1
  <2> QED BY <2>1, BecomeWorker
<1>3. \A i \in 1 .. cursor : i \in Ids
  BY <1>1 DEF Ids
<1>4. TypeOK'
  <2>1. worker' \in [Workers -> [pc : Stages, batch : SUBSET (1 .. cursor'),
                                 acks : SUBSET (1 .. cursor')]]
    BY <1>2
  <2>2. live' \subseteq Ids' /\ pel' \subseteq 1 .. cursor'
    BY DEF TypeOK, Ids
  <2> QED BY <1>1, <2>1, <2>2 DEF TypeOK
<1>5. Hands'
  <2> SUFFICES ASSUME NEW v \in Workers PROVE HandsOf(v)'
    BY DEF Hands
  <2>1. CASE v # w
    <3>1. worker'[v] = worker[v] /\ HandsOf(v)
      BY <1>2, <2>1 DEF Hands
    <3>2. worker[v].pc = "retry" =>
            \A i \in worker[v].batch :
              log[i].msg \in Events /\ Attempts(i) \in Nat
              /\ Attempts(i) <= failures[log[i].msg]
      <4> SUFFICES ASSUME worker[v].pc = "retry", NEW i \in worker[v].batch
                   PROVE  log[i].msg \in Events /\ Attempts(i) \in Nat
                          /\ Attempts(i) <= failures[log[i].msg]
        OBVIOUS
      <4>1. i \in Ids
        BY <1>3, WorkerType
      <4>2. log[i].attempts \in Nat
        BY <4>1, LogType, MaxAttemptsPos
      <4> QED BY <3>1, <4>2 DEF HandsOf, Attempts
    <3>3. worker[v].pc = "retry" =>
            \A i \in worker[v].batch :
              log[i].msg \in Events /\ Attempts(i) <= failures'[log[i].msg]
      BY <1>1, <3>2
    <3> QED BY <3>1, <3>3 DEF HandsOf, Attempts
  <2>2. CASE v = w
    BY <2>2
  <2> QED BY <2>1, <2>2
<1>6. GroupFirst'
  BY DEF GroupFirst, TypeOK
<1>7. Accounted'
  <2> SUFFICES ASSUME NEW e \in accepted, e \notin reported' \cup dead' \cup trimmed'
               PROVE  Findable(e)'
    BY DEF Accounted
  <2>1. PICK i \in live : log[i].msg = e /\ (i > cursor \/ i \in pel) /\ Unacked(i)
    BY DEF Accounted, Findable
  <2>2. e \in Events
    BY DEF TypeOK
  <2>3. i \in live' /\ (i > cursor \/ i \in pel') /\ i \notin acks
    BY <2>1, <2>2
  <2>4. Unacked(i)'
    BY <1>2, <2>1, <2>3 DEF Unacked
  <2> QED BY <2>1, <2>3, <2>4 DEF Findable
<1>8. Attempted'
  <2>1. \A i \in Ids : log[i].msg \in Events => log[i].attempts <= failures'[log[i].msg]
    <3> SUFFICES ASSUME NEW i \in Ids, log[i].msg \in Events
                 PROVE  log[i].attempts <= failures'[log[i].msg]
      OBVIOUS
    <3>1. log[i].attempts <= failures[log[i].msg] /\ log[i].attempts \in Nat
      BY LogType, MaxAttemptsPos DEF Attempted
    <3> QED BY <1>1, <3>1
  <2> QED BY <2>1 DEF Attempted, Ids
<1>9. NothingStranded'
  <2> SUFFICES ASSUME faults' = 0, NEW i \in pel' \cup (live' \ Unread')
               PROVE  \E v \in Workers : i \in worker'[v].batch \cup worker'[v].acks
    BY DEF NothingStranded
  <2>1. faults = 0
    BY <1>1
  <2>2. i \in pel \cup (live \ Unread)
    BY DEF Unread
  <2>3. PICK v \in Workers : i \in worker[v].batch \cup worker[v].acks
    BY <2>1, <2>2 DEF NothingStranded
  <2>4. CASE v # w
    BY <1>2, <2>3, <2>4
  <2>5. CASE v = w
    <3>1. i \in pel' \/ i \in live'
      BY DEF Unread
    <3> QED BY <1>2, <2>3, <2>5, <3>1
  <2> QED BY <2>4, <2>5
<1> QED BY <1>4, <1>5, <1>6, <1>7, <1>8, <1>9

LEMMA Became ==
  ASSUME IInv, NEW w \in Workers, NEW pc \in Stages,
         NEW batch \in SUBSET (1 .. cursor), NEW acks \in SUBSET (1 .. cursor),
         Become(w, Worker(pc, batch, acks))
  PROVE  worker'[w].pc = pc /\ worker'[w].batch = batch /\ worker'[w].acks = acks
<1>1. cursor \in Nat /\ cursor <= cursor /\ TypeOK
  BY WorkerType DEF IInv
<1> QED BY <1>1, BecomeWorker

LEMMA BatchFacts ==
  ASSUME IInv, NEW w \in Workers
  PROVE  /\ worker[w].batch \in SUBSET (1 .. cursor)
         /\ worker[w].acks \in SUBSET (1 .. cursor)
         /\ 1 .. cursor \subseteq Ids
         /\ EventsOf(worker[w].batch) \subseteq Messages
         /\ Malformed(w) = {} => EventsOf(worker[w].batch) \subseteq Events
         /\ reported \subseteq Events /\ dead \subseteq Messages
         /\ trimmed \subseteq Messages /\ accepted \subseteq Events
         /\ group \in BOOLEAN /\ failures \in [Events -> Nat]
         /\ {} \in SUBSET (1 .. cursor)
<1> USE DEF IInv
<1>1. /\ worker[w].batch \subseteq 1 .. cursor /\ worker[w].acks \subseteq 1 .. cursor
      /\ 1 .. cursor \subseteq Ids
  BY WorkerType DEF Ids
<1>2. \A i \in worker[w].batch : log[i].msg \in Messages
  BY <1>1, LogType
<1>3. Malformed(w) = {} => EventsOf(worker[w].batch) \subseteq Events
  BY <1>2 DEF Malformed, EventsOf, Messages
<1> QED BY <1>1, <1>2, <1>3 DEF EventsOf, TypeOK

LEMMA ReportInv ==
  ASSUME IInv, NEW w \in Workers, ReportBatch(w)
  PROVE  IInv'
<1>1. /\ Become(w, Worker("ack", {}, worker[w].acks \cup worker[w].batch))
      /\ worker[w].acks \cup worker[w].batch \in SUBSET (1 .. cursor)
      /\ {} \in SUBSET (1 .. cursor)
      /\ "ack" \in Stages
  BY BatchFacts DEF ReportBatch, Stages
<1>2. HandsOf(w)'
  BY <1>1, Became DEF HandsOf
<1>3. \A i \in live : \/ log[i].msg \in reported'
                      \/ ~Unacked(i)
                      \/ i \notin worker[w].acks \cup worker[w].batch
  BY DEF ReportBatch, EventsOf, Unacked
<1>4. DeadLetterIsEarned'
  BY DEF ReportBatch, IInv, Attempted, DeadLetterIsEarned
<1>5. \A e \in Events : failures[e] <= failures[e]
  BY BatchFacts
<1> QED BY <1>1, <1>2, <1>3, <1>4, <1>5, BatchFacts, QuietStep DEF ReportBatch, redisVars

LEMMA ReportFailsInv ==
  ASSUME IInv, NEW w \in Workers, ReportBatchFails(w)
  PROVE  IInv'
<1>1. /\ Become(w, Worker("retry", worker[w].batch, worker[w].acks))
      /\ worker[w].acks \in SUBSET (1 .. cursor)
      /\ worker[w].batch \in SUBSET (1 .. cursor)
      /\ "retry" \in Stages
  BY BatchFacts DEF ReportBatchFails, Stages
<1>2. /\ failures' \in [Events -> Nat]
      /\ \A e \in Events :
           /\ failures[e] \in Nat /\ failures[e] <= failures'[e]
           /\ e \in EventsOf(worker[w].batch) => failures'[e] = failures[e] + 1
  BY BatchFacts DEF ReportBatchFails
<1>3. HandsOf(w)'
  <2>1. UNCHANGED log
    BY DEF ReportBatchFails, redisVars
  <2>2. \A i \in worker[w].batch :
          log[i].msg \in Events /\ log[i].attempts + 1 <= failures'[log[i].msg]
    <3> SUFFICES ASSUME NEW i \in worker[w].batch
                 PROVE  log[i].msg \in Events
                        /\ log[i].attempts + 1 <= failures'[log[i].msg]
      OBVIOUS
    <3>1. log[i].msg \in Events /\ log[i].msg \in EventsOf(worker[w].batch) /\ i \in Ids
      BY BatchFacts DEF ReportBatchFails, EventsOf
    <3>2. log[i].attempts \in Nat /\ log[i].attempts <= failures[log[i].msg]
      BY <3>1, LogType, MaxAttemptsPos DEF IInv, Attempted
    <3> QED BY <1>2, <3>1, <3>2
  <2> QED BY <1>1, <2>1, <2>2, Became DEF HandsOf, Attempts
<1>4. DeadLetterIsEarned'
  <2>1. \A e \in dead \cap Events : failures[e] >= MaxAttempts /\ MaxAttempts \in Nat
    BY MaxAttemptsPos DEF IInv, Attempted, DeadLetterIsEarned
  <2>2. UNCHANGED dead
    BY DEF ReportBatchFails
  <2> QED BY <1>2, <2>1, <2>2 DEF DeadLetterIsEarned
<1>5. \A i \in live : ~Unacked(i) \/ i \notin worker[w].acks
  BY DEF Unacked
<1>6. reported \subseteq reported' /\ reported' \subseteq Events
  BY BatchFacts DEF ReportBatchFails
<1> QED BY <1>1, <1>2, <1>3, <1>4, <1>5, <1>6, BatchFacts, QuietStep
        DEF ReportBatchFails, redisVars

LEMMA DiscardInv ==
  ASSUME IInv, NEW w \in Workers, DiscardMalformed(w)
  PROVE  IInv'
<1>1. PICK i \in Malformed(w), copies \in 0 .. 2, ok \in BOOLEAN :
        /\ Outcome(copies, ok)
        /\ dead' = IF copies > 0 THEN dead \cup {log[i].msg} ELSE dead
        /\ Become(w, Worker("handle", worker[w].batch \ {i}, worker[w].acks \cup {i}))
  BY DEF DiscardMalformed
<1>2. i \in worker[w].batch /\ log[i].msg \in Garbage /\ log[i].msg \notin Events
  BY MessagesDisjoint DEF Malformed
<1>3. /\ worker[w].batch \ {i} \in SUBSET (1 .. cursor)
      /\ worker[w].acks \cup {i} \in SUBSET (1 .. cursor)
      /\ "handle" \in Stages
  BY <1>2, BatchFacts DEF Stages
<1>4. HandsOf(w)'
  BY <1>1, <1>3, Became DEF HandsOf
<1>5. /\ dead \subseteq dead' /\ dead' \subseteq Messages
      /\ dead' \cap Events = dead \cap Events
  BY <1>1, <1>2, BatchFacts DEF Messages
<1>6. DeadLetterIsEarned'
  BY <1>5 DEF DiscardMalformed, IInv, Attempted, DeadLetterIsEarned
<1>7. \A j \in live : log[j].msg \notin Events \/ ~Unacked(j) \/ j \notin worker[w].acks \cup {i}
  BY <1>2 DEF Unacked
<1>8. Calm \/ \E kind \in {"crash", "error", "resend"} : Fault(kind)
  BY <1>1 DEF Outcome
<1>9. \A e \in Events : failures[e] <= failures[e]
  BY BatchFacts
<1> QED BY <1>1, <1>3, <1>4, <1>5, <1>6, <1>7, <1>8, <1>9, BatchFacts, QuietStep
        DEF DiscardMalformed, redisVars

LEMMA HandledInv ==
  ASSUME IInv, NEW w \in Workers, BatchHandled(w)
  PROVE  IInv'
<1>1. /\ \/ worker[w].acks = {} /\ Become(w, Worker("idle", {}, worker[w].acks))
         \/ Become(w, Worker("ack", {}, worker[w].acks))
      /\ worker[w].batch = {}
      /\ "idle" \in Stages /\ "ack" \in Stages
  BY DEF BatchHandled, Idle, Stages
<1>2. HandsOf(w)'
  BY <1>1, BatchFacts, Became DEF HandsOf
<1>3. \A i \in live : ~Unacked(i) \/ i \notin worker[w].acks
  BY DEF Unacked
<1>4. DeadLetterIsEarned'
  BY DEF BatchHandled, outcomeVars, IInv, Attempted, DeadLetterIsEarned
<1>5. \A e \in Events : failures[e] <= failures[e]
  BY BatchFacts
<1> QED BY <1>1, <1>2, <1>3, <1>4, <1>5, BatchFacts, QuietStep
        DEF BatchHandled, redisVars, outcomeVars

\* A step that ends with an error has used up a fault.
LEMMA ErrorIsAFault ==
  ASSUME TypeOK, NEW done, NEW ok \in BOOLEAN, Executes(done, ok)
  PROVE  /\ Calm \/ \E kind \in {"crash", "error", "resend"} : Fault(kind)
         /\ ~ok => faults' # 0
         /\ ok => done
BY DEF Executes, Fault, TypeOK

LEMMA AckInv ==
  ASSUME IInv, NEW w \in Workers, Ack(w)
  PROVE  IInv'
<1> USE DEF IInv
<1>1. PICK done \in BOOLEAN, ok \in BOOLEAN :
        /\ Executes(done, ok)
        /\ pel' = IF done THEN pel \ worker[w].acks ELSE pel
        /\ Become(w, IF ok THEN Worker("delete", {}, worker[w].acks) ELSE Idle)
  BY DEF Ack
<1>2. worker[w].batch = {}
  BY DEF Ack, At, Hands, HandsOf
<1>3. \A e \in Events : failures[e] <= failures[e]
  BY BatchFacts
<1>4. "delete" \in Stages /\ "idle" \in Stages
  BY DEF Stages
<1>5. \A i \in live : ~Unacked(i) \/ i \notin worker[w].acks
  BY DEF Unacked
<1>6. DeadLetterIsEarned' /\ pel' \subseteq pel
  BY <1>1 DEF Ack, outcomeVars, Attempted, DeadLetterIsEarned
<1>7. CASE ok
  <2>1. Become(w, Worker("delete", {}, worker[w].acks))
    BY <1>1, <1>7
  <2>2. HandsOf(w)'
    BY <1>1, <1>4, <1>7, <2>1, ErrorIsAFault, BatchFacts, Became DEF HandsOf
  <2> QED BY <1>1, <1>2, <1>3, <1>4, <1>5, <1>6, <2>1, <2>2, ErrorIsAFault, BatchFacts,
             QuietStep DEF Ack, outcomeVars
<1>8. CASE ~ok
  <2>1. Become(w, Worker("idle", {}, {}))
    BY <1>1, <1>8 DEF Idle
  <2>2. HandsOf(w)'
    BY <1>4, <2>1, BatchFacts, Became DEF HandsOf
  <2>3. \A i \in live : ~Unacked(i) \/ i \notin pel \/ i \in pel'
    BY <1>1, <1>5
  <2> QED BY <1>1, <1>3, <1>4, <1>6, <1>8, <2>1, <2>2, <2>3, ErrorIsAFault, BatchFacts,
             QuietStep DEF Ack, outcomeVars
<1> QED BY <1>7, <1>8

LEMMA DeleteInv ==
  ASSUME IInv, NEW w \in Workers, Delete(w)
  PROVE  IInv'
<1> USE DEF IInv
<1>1. PICK done \in BOOLEAN, ok \in BOOLEAN :
        /\ Executes(done, ok)
        /\ live' = IF done THEN live \ worker[w].acks ELSE live
        /\ Become(w, IF ok THEN Worker("trim", {}, {}) ELSE Idle)
  BY DEF Delete
<1>2. worker[w].batch = {} /\ worker[w].acks \cap pel = {}
  BY DEF Delete, At, Hands, HandsOf
<1>3. \A e \in Events : failures[e] <= failures[e]
  BY BatchFacts
<1>4. "trim" \in Stages /\ "idle" \in Stages
  BY DEF Stages
<1>5. \A i \in live : ~Unacked(i) \/ i \in live'
  BY <1>1 DEF Unacked
<1>6. DeadLetterIsEarned' /\ live' \subseteq live
  BY <1>1 DEF Delete, outcomeVars, Attempted, DeadLetterIsEarned
<1>7. CASE ok
  <2>1. Become(w, Worker("trim", {}, {}))
    BY <1>1, <1>7
  <2>2. HandsOf(w)'
    BY <1>4, <2>1, BatchFacts, Became DEF HandsOf
  <2>3. \A i \in worker[w].batch \cup worker[w].acks : i \notin pel /\ i \notin live'
    BY <1>1, <1>2, <1>7, ErrorIsAFault
  <2> QED BY <1>1, <1>3, <1>4, <1>5, <1>6, <2>1, <2>2, <2>3, ErrorIsAFault, BatchFacts,
             QuietStep DEF Delete, outcomeVars
<1>8. CASE ~ok
  <2>1. Become(w, Worker("idle", {}, {}))
    BY <1>1, <1>8 DEF Idle
  <2>2. HandsOf(w)'
    BY <1>4, <2>1, BatchFacts, Became DEF HandsOf
  <2> QED BY <1>1, <1>3, <1>4, <1>5, <1>6, <1>8, <2>1, <2>2, ErrorIsAFault, BatchFacts,
             QuietStep DEF Delete, outcomeVars
<1> QED BY <1>7, <1>8

LEMMA TrimInv ==
  ASSUME IInv, NEW w \in Workers, Trim(w)
  PROVE  IInv'
<1> USE DEF IInv
<1>1. /\ Become(w, Worker("idle", {}, {})) /\ "idle" \in Stages
      /\ worker[w].batch = {} /\ worker[w].acks = {}
  BY DEF Trim, Idle, Stages, At, Hands, HandsOf
<1>2. HandsOf(w)'
  BY <1>1, BatchFacts, Became DEF HandsOf
<1>3. /\ live' \subseteq live /\ trimmed \subseteq trimmed' /\ trimmed' \subseteq Messages
      /\ \A i \in live : i \in live' \/ ~(i > cursor \/ i \in pel) \/ log[i].msg \in trimmed'
  <2>1. PICK oldest \in Ids :
          /\ live' = Kept(oldest)
          /\ trimmed' = trimmed \cup
               {log[i].msg : i \in {j \in live \ Kept(oldest) : j > cursor \/ j \in pel}}
    BY DEF Trim
  <2>2. live \subseteq Ids /\ trimmed \subseteq Messages
    BY DEF TypeOK
  <2>3. \A i \in live : log[i].msg \in Messages
    BY <2>2, LogType
  <2> QED BY <2>1, <2>2, <2>3 DEF Kept
<1>4. DeadLetterIsEarned'
  BY DEF Trim, Attempted, DeadLetterIsEarned
<1>5. \A e \in Events : failures[e] <= failures[e]
  BY BatchFacts
<1> QED BY <1>1, <1>2, <1>3, <1>4, <1>5, BatchFacts, QuietStep DEF Trim

LEMMA CrashInv ==
  ASSUME IInv, NEW w \in Workers, Crash(w)
  PROVE  IInv'
<1> USE DEF IInv
<1>1. Become(w, Worker("down", {}, {})) /\ "down" \in Stages
  BY DEF Crash, Down, Stages
<1>2. HandsOf(w)'
  BY <1>1, BatchFacts, Became DEF HandsOf
<1>3. faults' # 0 /\ Fault("crash")
  BY DEF Crash, Fault, TypeOK
<1>4. DeadLetterIsEarned'
  BY DEF Crash, outcomeVars, Attempted, DeadLetterIsEarned
<1>5. \A e \in Events : failures[e] <= failures[e]
  BY BatchFacts
<1> QED BY <1>1, <1>2, <1>3, <1>4, <1>5, BatchFacts, QuietStep
        DEF Crash, redisVars, outcomeVars

LEMMA StartInv ==
  ASSUME IInv, NEW w \in Workers, StartWorker(w)
  PROVE  IInv'
<1> USE DEF IInv
<1>1. PICK done \in BOOLEAN, ok \in BOOLEAN :
        /\ Executes(done, ok)
        /\ group' = (group \/ done)
        /\ cursor' = IF done /\ ~group THEN StartCursor ELSE cursor
        /\ Become(w, IF ok THEN Idle ELSE Worker("off", {}, {}))
  BY DEF StartWorker
<1>2. /\ group' \in BOOLEAN /\ (group => group') /\ cursor' = cursor
      /\ worker[w].batch = {} /\ worker[w].acks = {}
  BY <1>1 DEF StartWorker, At, Hands, HandsOf, GroupFirst, StartCursor, TypeOK
<1>3. PICK pc \in {"idle", "off"} : Become(w, Worker(pc, {}, {}))
  BY <1>1 DEF Idle
<1>4. pc \in Stages /\ HandsOf(w)'
  <2>1. pc \in Stages
    BY <1>3 DEF Stages
  <2> QED BY <1>3, <2>1, BatchFacts, Became DEF HandsOf
<1>5. DeadLetterIsEarned'
  BY DEF StartWorker, outcomeVars, Attempted, DeadLetterIsEarned
<1>6. \A e \in Events : failures[e] <= failures[e]
  BY BatchFacts
<1> QED BY <1>1, <1>2, <1>3, <1>4, <1>5, <1>6, ErrorIsAFault, BatchFacts, QuietStep
        DEF StartWorker, outcomeVars

(***************************************************************************)
(* Settling an item of a failed batch.                                     *)
(***************************************************************************)
LEMMA OutcomeIsAFault ==
  ASSUME TypeOK, NEW copies \in 0 .. 2, NEW ok \in BOOLEAN, Outcome(copies, ok)
  PROVE  /\ Calm \/ \E kind \in {"crash", "error", "resend"} : Fault(kind)
         /\ ~ok => faults' # 0
         /\ ok => copies > 0
BY DEF Outcome, Fault, TypeOK

LEMMA SettleDeadInv ==
  ASSUME IInv, NEW w \in Workers, worker[w].pc = "retry",
         NEW i \in worker[w].batch, NEW copies \in 0 .. 2, NEW ok \in BOOLEAN,
         Outcome(copies, ok), Exhausted(i),
         dead' = IF copies > 0 THEN dead \cup {log[i].msg} ELSE dead,
         Become(w, Worker("retry", worker[w].batch \ {i},
                          worker[w].acks \cup AckedIf(ok, i))),
         UNCHANGED <<log, live, group, cursor, pel, accepted, reported, trimmed, failures>>
  PROVE  IInv'
<1> USE DEF IInv
<1>1. /\ worker[w].batch \ {i} \in SUBSET (1 .. cursor)
      /\ worker[w].acks \cup AckedIf(ok, i) \in SUBSET (1 .. cursor)
      /\ "retry" \in Stages
  BY BatchFacts DEF Stages, AckedIf
<1>2. HandsOf(w)'
  <2>1. HandsOf(w)
    BY DEF Hands
  <2> QED BY <1>1, <2>1, Became DEF HandsOf, Attempts
<1>3. i \in Ids /\ log[i].msg \in Events /\ log[i].msg \in Messages
  BY BatchFacts, LogType DEF Hands, HandsOf
<1>4. dead \subseteq dead' /\ dead' \subseteq Messages /\ (ok => log[i].msg \in dead')
  BY <1>3, BatchFacts, OutcomeIsAFault
<1>5. DeadLetterIsEarned'
  <2>1. failures[log[i].msg] >= MaxAttempts
    <3>1. /\ Attempts(i) <= failures[log[i].msg] /\ Attempts(i) >= MaxAttempts
          /\ failures[log[i].msg] \in Nat
      BY <1>3, BatchFacts DEF Hands, HandsOf, Exhausted
    <3>2. Attempts(i) \in Nat /\ MaxAttempts \in Nat
      BY <1>3, LogType, MaxAttemptsPos DEF Attempts
    <3> QED BY <3>1, <3>2
  <2> QED BY <2>1 DEF Attempted, DeadLetterIsEarned
<1>6. \A j \in live :
        \/ log[j].msg \in dead' \/ ~Unacked(j)
        \/ j \notin worker[w].acks \cup AckedIf(ok, i)
  BY <1>4 DEF Unacked, AckedIf
<1>7. \A e \in Events : failures[e] <= failures[e]
  BY BatchFacts
<1>8. faults' = 0 =>
        \A j \in worker[w].batch \cup worker[w].acks :
          j \in (worker[w].batch \ {i}) \cup (worker[w].acks \cup AckedIf(ok, i))
  BY OutcomeIsAFault DEF AckedIf
<1> QED BY <1>1, <1>2, <1>4, <1>5, <1>6, <1>7, <1>8, OutcomeIsAFault, BatchFacts, QuietStep

LEMMA SettleRetryInv ==
  ASSUME IInv, NEW w \in Workers, worker[w].pc = "retry",
         NEW i \in worker[w].batch, NEW copies \in 0 .. 2, NEW ok \in BOOLEAN,
         Outcome(copies, ok), ~Exhausted(i),
         XAdd(copies, log[i].msg, Attempts(i)),
         Become(w, Worker("retry", worker[w].batch \ {i},
                          worker[w].acks \cup AckedIf(ok, i))),
         UNCHANGED <<group, cursor, pel, accepted, reported, dead, trimmed, failures>>
  PROVE  IInv'
<1> USE DEF IInv
<1> DEFINE batch == worker[w].batch \ {i}
           acks == worker[w].acks \cup AckedIf(ok, i)
<1>1. /\ batch \in SUBSET (1 .. cursor) /\ acks \in SUBSET (1 .. cursor)
      /\ "retry" \in Stages
  BY BatchFacts DEF Stages, AckedIf
<1>2. /\ cursor \in Nat /\ Len(log) \in Nat /\ cursor <= Len(log) /\ cursor <= cursor
      /\ pel \subseteq 1 .. cursor /\ live \subseteq Ids
      /\ faults' \in 0 .. MaxFaults /\ faults' >= faults /\ faults \in Nat
      /\ \A v \in Workers : /\ worker[v].batch \subseteq 1 .. cursor
                            /\ worker[v].acks \subseteq 1 .. cursor
  BY OutcomeIsAFault, FaultType, WorkerType DEF TypeOK
<1>3. /\ i \in Ids /\ log[i].msg \in Events /\ log[i].msg \in Messages
      /\ Attempts(i) \in 0 .. MaxAttempts - 1
      /\ Attempts(i) <= failures[log[i].msg] /\ failures \in [Events -> Nat]
  <2>1. i \in Ids /\ HandsOf(w)
    BY BatchFacts DEF Hands
  <2>2. log[i].attempts \in Nat /\ log[i].msg \in Messages
    BY <2>1, LogType, MaxAttemptsPos
  <2>3. Attempts(i) \in 0 .. MaxAttempts - 1
    BY <2>2, MaxAttemptsPos DEF Attempts, Exhausted
  <2> QED BY <2>1, <2>2, <2>3, BatchFacts DEF HandsOf
<1>4. /\ worker' \in [Workers -> [pc : Stages, batch : SUBSET (1 .. cursor),
                                  acks : SUBSET (1 .. cursor)]]
      /\ worker'[w].pc = "retry" /\ worker'[w].batch = batch /\ worker'[w].acks = acks
      /\ \A v \in Workers : v # w => worker'[v] = worker[v]
  BY <1>1, <1>2, BecomeWorker
<1>5. /\ log' \in Seq(Entry)
      /\ Len(log') = Len(log) + copies
      /\ \A j \in Ids : log'[j] = log[j]
      /\ \A j \in Len(log) + 1 .. Len(log) + copies :
           log'[j].msg = log[i].msg /\ log'[j].attempts = Attempts(i)
      /\ live' = live \cup (Len(log) + 1 .. Len(log) + copies)
      /\ live' \subseteq 1 .. Len(log')
  <2>1. \A m \in Messages, a \in 0 .. MaxAttempts - 1 :
          m = log[i].msg /\ a = Attempts(i) =>
          /\ log' \in Seq(Entry)
          /\ Len(log') = Len(log) + copies
          /\ \A j \in Ids : log'[j] = log[j]
          /\ \A j \in Len(log) + 1 .. Len(log) + copies :
               log'[j].msg = m /\ log'[j].attempts = a
          /\ live' = live \cup (Len(log) + 1 .. Len(log) + copies)
          /\ live' \subseteq 1 .. Len(log')
    BY XAddLog
  <2> QED BY <1>3, <2>1
<1>6. \A j \in 1 .. cursor : j \in Ids
  BY <1>2 DEF Ids
<1> HIDE DEF batch, acks
<1>7. TypeOK'
  <2>1. cursor' \in 0 .. Len(log') /\ live' \subseteq Ids'
    BY <1>2, <1>5 DEF Ids
  <2>2. log' \in Seq([msg : Messages, attempts : 0 .. MaxAttempts - 1])
    BY <1>5 DEF Entry
  <2>3. worker' \in [Workers -> [pc : Stages, batch : SUBSET (1 .. cursor'),
                                 acks : SUBSET (1 .. cursor')]]
    BY <1>4
  <2> QED BY <1>2, <2>1, <2>2, <2>3 DEF TypeOK
<1>8. Hands' /\ GroupFirst'
  <2>1. \A v \in Workers : v # w => HandsOf(v)'
    BY <1>2, <1>4, <1>5, <1>6 DEF Hands, HandsOf, Attempts
  <2>2. HandsOf(w)'
    <3>1. \A j \in batch : j \in worker[w].batch /\ log'[j] = log[j]
      BY <1>2, <1>5, <1>6 DEF batch
    <3> QED BY <1>4, <3>1 DEF Hands, HandsOf, Attempts
  <2> QED BY <2>1, <2>2 DEF Hands, GroupFirst
<1>9. Accounted'
  <2> SUFFICES ASSUME NEW e \in accepted, e \notin reported \cup dead \cup trimmed
               PROVE  Findable(e)'
    BY DEF Accounted
  <2>1. PICK j \in live : log[j].msg = e /\ (j > cursor \/ j \in pel) /\ Unacked(j)
    BY DEF Accounted, Findable
  <2>2. CASE j # i \/ ~ok
    <3>1. j \in live' /\ log'[j] = log[j] /\ j \notin acks
      BY <1>2, <1>5, <2>1, <2>2 DEF acks, AckedIf, Unacked
    <3>2. Unacked(j)'
      BY <1>4, <2>1, <3>1 DEF Unacked
    <3> QED BY <2>1, <3>1, <3>2 DEF Findable
  <2>3. CASE j = i /\ ok
    <3>1. PICK n \in Nat : n = Len(log) + 1
      BY <1>2
    <3>2. copies \in 1 .. 2
      <4>1. copies > 0
        BY <2>3, OutcomeIsAFault
      <4> QED BY <4>1
    <3>3. n \in live' /\ log'[n].msg = e /\ n > cursor /\ n \notin 1 .. cursor
      BY <1>2, <1>5, <2>1, <2>3, <3>1, <3>2
    <3>4. Unacked(n)'
      BY <1>1, <1>2, <1>4, <3>3 DEF Unacked, acks
    <3> QED BY <3>3, <3>4 DEF Findable
  <2> QED BY <2>2, <2>3
<1>10. Attempted'
  <2>1. ASSUME NEW j \in Ids', log'[j].msg \in Events
        PROVE  log'[j].attempts <= failures[log'[j].msg]
    <3>1. CASE j \in Ids
      BY <1>5, <2>1, <3>1 DEF Attempted
    <3>2. CASE j \in Len(log) + 1 .. Len(log) + copies
      BY <1>3, <1>5, <3>2
    <3>3. j \in Ids \/ j \in Len(log) + 1 .. Len(log) + copies
      BY <1>2, <1>5 DEF Ids
    <3> QED BY <3>1, <3>2, <3>3
  <2> QED BY <2>1 DEF Attempted, DeadLetterIsEarned
<1>11. NothingStranded'
  <2> SUFFICES ASSUME faults' = 0, NEW j \in pel' \cup (live' \ Unread')
               PROVE  \E v \in Workers : j \in worker'[v].batch \cup worker'[v].acks
    BY DEF NothingStranded
  <2>1. faults = 0 /\ ok
    BY <1>2, OutcomeIsAFault
  <2>2. j \in pel \cup (live \ Unread)
    BY <1>2, <1>5 DEF Unread
  <2>3. PICK v \in Workers : j \in worker[v].batch \cup worker[v].acks
    BY <2>1, <2>2 DEF NothingStranded
  <2>4. CASE v # w
    BY <1>4, <2>3, <2>4
  <2>5. CASE v = w
    BY <1>4, <2>1, <2>3, <2>5 DEF batch, acks, AckedIf
  <2> QED BY <2>4, <2>5
<1> QED BY <1>7, <1>8, <1>9, <1>10, <1>11

LEMMA SettleInv ==
  ASSUME IInv, NEW w \in Workers, SettleItem(w)
  PROVE  IInv'
<1>1. PICK i \in worker[w].batch, copies \in 0 .. 2, ok \in BOOLEAN :
       /\ Outcome(copies, ok)
       /\ \/ /\ Exhausted(i)
             /\ dead' = IF copies > 0 THEN dead \cup {log[i].msg} ELSE dead
             /\ UNCHANGED <<log, live>>
          \/ /\ ~Exhausted(i)
             /\ XAdd(copies, log[i].msg, Attempts(i))
             /\ UNCHANGED dead
       /\ Become(w, Worker("retry", worker[w].batch \ {i},
                           worker[w].acks \cup AckedIf(ok, i)))
  BY DEF SettleItem
<1>2. worker[w].pc = "retry"
  BY DEF SettleItem, At
<1>3. UNCHANGED <<group, cursor, pel, accepted, reported, trimmed, failures>>
  BY DEF SettleItem
<1>4. CASE Exhausted(i)
  BY <1>1, <1>2, <1>3, <1>4, SettleDeadInv
<1>5. CASE ~Exhausted(i)
  BY <1>1, <1>2, <1>3, <1>5, SettleRetryInv
<1> QED BY <1>4, <1>5

(***************************************************************************)
(* Reading.  The cursor moves to the last message delivered, so a message  *)
(* is delivered, or still ahead of the cursor, and none is skipped.        *)
(***************************************************************************)
LEMMA NoneSkipped ==
  ASSUME TypeOK, NEW c \in Delivered, NEW i \in Unread, i <= c
  PROVE  i \in Delivered
<1> DEFINE Before(k) == {j \in Unread : j < k}
<1>1. /\ Len(log) \in Nat /\ Unread \subseteq 1 .. Len(log) /\ Delivered \subseteq Unread
  <2>1. Len(log) \in Nat
    BY DEF TypeOK
  <2>2. live \subseteq 1 .. Len(log)
    BY DEF TypeOK, Ids
  <2> QED BY <2>1, <2>2 DEF Unread, Delivered
<1>2. i \in Nat /\ c \in Nat /\ \A j \in Unread : j \in Nat
  BY <1>1
<1>3. IsFiniteSet(1 .. Len(log))
  BY <1>1, FS_Interval
<1>4. IsFiniteSet(Before(c)) /\ Before(i) \subseteq Before(c)
  <2>1. IsFiniteSet(Unread)
    BY <1>1, <1>3, FS_Subset
  <2>2. Before(c) \subseteq Unread
    OBVIOUS
  <2>3. ASSUME NEW j \in Unread, j < i PROVE j < c
    BY <1>2, <2>3
  <2> QED BY <2>1, <2>2, <2>3, FS_Subset
<1>5. /\ Cardinality(Before(i)) \in Nat /\ Cardinality(Before(c)) \in Nat
      /\ Cardinality(Before(i)) <= Cardinality(Before(c))
  BY <1>4, FS_Subset, FS_CardinalityType
<1>6. Cardinality(Before(c)) < BatchSize
  BY DEF Delivered
<1>7. Cardinality(Before(i)) < BatchSize
  BY <1>5, <1>6, BatchSizePos
<1> QED BY <1>7 DEF Delivered

LEMMA ReadInv ==
  ASSUME IInv, NEW w \in Workers, ReadGroup(w)
  PROVE  IInv'
<1> USE DEF IInv
<1>1. /\ cursor \in Nat /\ Len(log) \in Nat /\ cursor <= Len(log)
      /\ pel \subseteq 1 .. cursor /\ live \subseteq Ids
      /\ UNCHANGED <<log, live, group, accepted, reported, dead, trimmed, failures>>
      /\ pel' = pel \cup Delivered
      /\ cursor' \in Delivered /\ \A i \in Delivered : i <= cursor'
      /\ worker[w].batch = {} /\ worker[w].acks = {} /\ group
      /\ \A v \in Workers : /\ worker[v].batch \subseteq 1 .. cursor
                            /\ worker[v].acks \subseteq 1 .. cursor
  BY WorkerType DEF TypeOK, ReadGroup, outcomeVars, At, Hands, HandsOf
<1>2. \A i \in Delivered : i \in live /\ i \in Nat /\ i > cursor
  BY <1>1 DEF Delivered, Unread, Ids
<1>3. /\ cursor' \in Nat /\ cursor' > cursor /\ cursor' <= Len(log)
      /\ Delivered \subseteq 1 .. cursor'
  BY <1>1, <1>2 DEF Ids
<1>4. \A i \in live : i > cursor => i > cursor' \/ i \in Delivered
  <2> SUFFICES ASSUME NEW i \in live, i > cursor, i <= cursor' PROVE i \in Delivered
    BY <1>1, <1>3 DEF Ids
  <2>1. i \in Unread
    BY DEF Unread
  <2>2. PICK c \in Delivered : c = cursor'
    BY <1>1
  <2> QED BY <2>1, <2>2, NoneSkipped
<1>5. /\ Calm \/ \E kind \in {"crash", "error", "resend"} : Fault(kind)
      /\ \/ Calm /\ Become(w, Worker("handle", Delivered, {}))
         \/ faults' # 0 /\ UNCHANGED worker
  BY DEF ReadGroup, Fault, TypeOK
<1>6. faults' \in 0 .. MaxFaults /\ faults' >= faults /\ faults \in Nat
  BY <1>5, FaultType
<1>7. PICK pc \in Stages, batch \in {{}, Delivered} :
        /\ worker' \in [Workers -> [pc : Stages, batch : SUBSET (1 .. cursor'),
                                    acks : SUBSET (1 .. cursor')]]
        /\ worker'[w].pc = pc /\ worker'[w].batch = batch /\ worker'[w].acks = {}
        /\ \A v \in Workers : v # w => worker'[v] = worker[v]
        /\ batch = Delivered \/ faults' # 0
        /\ pc \in {"handle", "idle"}
  <2>1. CASE Become(w, Worker("handle", Delivered, {}))
    <3>1. /\ "handle" \in Stages /\ Delivered \in SUBSET (1 .. cursor')
          /\ {} \in SUBSET (1 .. cursor') /\ cursor <= cursor'
      BY <1>1, <1>3 DEF Stages
    <3>2. PICK c \in Nat : c = cursor'
      BY <1>3
    <3>3. /\ TypeOK /\ cursor <= c
          /\ Delivered \in SUBSET (1 .. c) /\ {} \in SUBSET (1 .. c)
      BY <3>1, <3>2
    <3>4. /\ worker' \in [Workers -> [pc : Stages, batch : SUBSET (1 .. c),
                                      acks : SUBSET (1 .. c)]]
          /\ worker'[w].pc = "handle" /\ worker'[w].batch = Delivered
          /\ worker'[w].acks = {}
          /\ \A v \in Workers : v # w => worker'[v] = worker[v]
      BY <2>1, <3>1, <3>3, BecomeWorker
    <3> QED BY <3>1, <3>2, <3>4
  <2>2. CASE faults' # 0 /\ UNCHANGED worker
    <3>1. 1 .. cursor \subseteq 1 .. cursor'
      BY <1>1, <1>3
    <3>2. worker' \in [Workers -> [pc : Stages, batch : SUBSET (1 .. cursor'),
                                   acks : SUBSET (1 .. cursor')]]
      BY <2>2, <3>1 DEF TypeOK
    <3>3. worker'[w].pc = "idle" /\ "idle" \in Stages
      BY <2>2 DEF ReadGroup, At, Stages
    <3> QED BY <1>1, <2>2, <3>2, <3>3
  <2> QED BY <1>5, <2>1, <2>2
<1>8. TypeOK'
  <2>1. cursor' \in 0 .. Len(log) /\ pel' \subseteq 1 .. cursor'
    BY <1>1, <1>3
  <2> QED BY <1>1, <1>6, <1>7, <2>1 DEF TypeOK, Ids
<1>9. Hands' /\ GroupFirst'
  <2>1. ASSUME NEW v \in Workers, v # w PROVE HandsOf(v)'
    <3>1. worker'[v] = worker[v] /\ HandsOf(v)
      BY <1>7, <2>1 DEF Hands
    <3>2. worker[v].acks \cap Delivered = {}
      BY <1>1, <1>2
    <3> QED BY <1>1, <3>1, <3>2 DEF HandsOf, Attempts
  <2>2. HandsOf(w)'
    <3>1. worker'[w].pc = "idle" => worker'[w].batch = {}
      BY <1>1, <1>5, <1>7 DEF ReadGroup, Become, Worker, At
    <3> QED BY <1>7, <3>1 DEF HandsOf
  <2> QED BY <1>1, <2>1, <2>2 DEF Hands, GroupFirst
<1>10. Accounted'
  <2> SUFFICES ASSUME NEW e \in accepted, e \notin reported \cup dead \cup trimmed
               PROVE  Findable(e)'
    BY <1>1 DEF Accounted
  <2>1. PICK i \in live : log[i].msg = e /\ (i > cursor \/ i \in pel) /\ Unacked(i)
    BY DEF Accounted, Findable
  <2>2. i > cursor' \/ i \in pel'
    BY <1>1, <1>4, <2>1
  <2>3. Unacked(i)'
    BY <1>7, <2>1 DEF Unacked
  <2> QED BY <1>1, <2>1, <2>2, <2>3 DEF Findable
<1>11. Attempted'
  BY <1>1 DEF Attempted, DeadLetterIsEarned, Ids
<1>12. NothingStranded'
  <2> SUFFICES ASSUME faults' = 0, NEW i \in pel' \cup (live \ Unread')
               PROVE  \E v \in Workers : i \in worker'[v].batch \cup worker'[v].acks
    BY <1>1 DEF NothingStranded
  <2>1. faults = 0 /\ worker'[w].batch = Delivered
    BY <1>6, <1>7
  <2>2. i \in Delivered \/ i \in pel \cup (live \ Unread)
    BY <1>1, <1>4 DEF Unread
  <2>3. CASE i \in Delivered
    BY <2>1, <2>3
  <2>4. CASE i \in pel \cup (live \ Unread)
    <3>1. PICK v \in Workers : i \in worker[v].batch \cup worker[v].acks
      BY <2>1, <2>4 DEF NothingStranded
    <3>2. v # w
      BY <1>1, <3>1
    <3> QED BY <1>7, <3>1, <3>2
  <2> QED BY <2>2, <2>3, <2>4
<1> QED BY <1>8, <1>9, <1>10, <1>11, <1>12

(***************************************************************************)
(* The invariant, and what follows from it.                                *)
(***************************************************************************)
LEMMA InitInv == Init => IInv
<1> SUFFICES ASSUME Init PROVE IInv
  OBVIOUS
<1>1. Len(log) = 0 /\ Ids = {} /\ cursor = 0 /\ 1 .. cursor = {}
  BY DEF Init, Ids
<1>2. \A w \in Workers : worker[w] = Worker("down", {}, {}) /\ "down" \in Stages
  BY DEF Init, Down, Stages
<1>3. TypeOK
  <2>1. log \in Seq([msg : Messages, attempts : 0 .. MaxAttempts - 1])
    BY DEF Init
  <2>2. Worker("down", {}, {}) \in [pc : Stages, batch : SUBSET (1 .. cursor),
                                    acks : SUBSET (1 .. cursor)]
    BY DEF Worker, Stages
  <2>3. worker \in [Workers -> [pc : Stages, batch : SUBSET (1 .. cursor),
                                acks : SUBSET (1 .. cursor)]]
    BY <2>2 DEF Init, Down
  <2>4. cursor \in 0 .. Len(log) /\ faults \in 0 .. MaxFaults
    BY <1>1, FaultBound DEF Init
  <2>5. failures \in [Events -> Nat] /\ group \in BOOLEAN
    BY DEF Init
  <2>6. /\ live \subseteq Ids /\ pel \subseteq 1 .. cursor
        /\ accepted \subseteq Events /\ reported \subseteq Events
        /\ dead \subseteq Messages /\ trimmed \subseteq Messages
    BY DEF Init
  <2> QED BY <2>1, <2>3, <2>4, <2>5, <2>6 DEF TypeOK
<1>4. Hands /\ GroupFirst /\ Accounted /\ Attempted /\ NothingStranded
  BY <1>1, <1>2
  DEF Init, Hands, HandsOf, Worker, GroupFirst, Accounted, Attempted,
      DeadLetterIsEarned, NothingStranded
<1> QED BY <1>3, <1>4 DEF IInv

LEMMA StepInv == IInv /\ [Next]_vars => IInv'
<1> SUFFICES ASSUME IInv, [Next]_vars PROVE IInv'
  OBVIOUS
<1>1. ASSUME NEW e \in Events, Enqueue(e) PROVE IInv'
  <2>1. PICK copies \in {1, 2}, ok \in BOOLEAN : Outcome(copies, ok) /\ XAdd(copies, e, 0)
    BY <1>1 DEF Enqueue
  <2>2. /\ copies \in 1 .. 2 /\ e \in Messages
        /\ Calm \/ \E kind \in {"crash", "error", "resend"} : Fault(kind)
    BY <2>1 DEF Outcome, Messages
  <2> QED BY <1>1, <2>1, <2>2, AddInv DEF Enqueue
<1>2. ASSUME NEW m \in Garbage, Strange(m) PROVE IInv'
  <2>1. 1 \in 1 .. 2 /\ m \in Messages
    BY DEF Messages
  <2> QED BY <1>2, <2>1, AddInv DEF Strange
<1>3. ASSUME NEW w \in Workers, WorkerStep(w) PROVE IInv'
  BY <1>3, StartInv, ReadInv, DiscardInv, ReportInv, ReportFailsInv, SettleInv,
     HandledInv, AckInv, DeleteInv, TrimInv DEF WorkerStep
<1>4. ASSUME NEW w \in Workers, Crash(w) PROVE IInv'
  BY <1>4, CrashInv
<1>5. CASE UNCHANGED vars
  BY <1>5 DEF vars, IInv, TypeOK, Hands, HandsOf, GroupFirst, Accounted, Findable,
     Unacked, Attempted, Attempts, DeadLetterIsEarned, NothingStranded, Unread, Ids
<1> QED BY <1>1, <1>2, <1>3, <1>4, <1>5 DEF Next

THEOREM Invariance == Spec => []IInv
BY InitInv, StepInv, PTL DEF Spec

(***************************************************************************)
(* Types: every message in the stream has an attempt left, whatever was    *)
(* added twice, so no message is retried beyond the limit.                 *)
(***************************************************************************)
THEOREM TypeCorrect == Spec => []TypeOK
<1>1. IInv => TypeOK
  BY DEF IInv
<1> QED BY <1>1, Invariance, PTL

(***************************************************************************)
(* No crash, error, resend, interleaving of workers or shortage of         *)
(* attempts makes an accepted event disappear unnoticed.                   *)
(***************************************************************************)
THEOREM NothingIsLostSilently == Spec => []NoSilentLoss
<1>1. IInv => NoSilentLoss
  BY DEF IInv, Accounted, Findable, NoSilentLoss, Carried
<1> QED BY <1>1, Invariance, PTL

(***************************************************************************)
(* Only MaxAttempts failed reports send an event to the dead stream.       *)
(***************************************************************************)
THEOREM DeadLettersAreEarned == Spec => []DeadLetterIsEarned
<1>1. IInv => DeadLetterIsEarned
  BY DEF IInv, Attempted
<1> QED BY <1>1, Invariance, PTL

(***************************************************************************)
(* As long as nothing failed, no message was left pending or undeleted.    *)
(***************************************************************************)
THEOREM FaultFreeStrandsNothing == Spec => []NothingStranded
<1>1. IInv => NothingStranded
  BY DEF IInv
<1> QED BY <1>1, Invariance, PTL

(***************************************************************************)
(* The queue implements its abstract specification.                        *)
(***************************************************************************)
\* Nothing is in the system that was not queued or did not come from elsewhere.
Known ==
  /\ \A i \in Ids : log[i].msg \in Garbage \cup accepted
  /\ reported \subseteq accepted
  /\ dead \subseteq Garbage \cup accepted
  /\ trimmed \subseteq Garbage \cup accepted

\* A message is in one worker's hands, and is either still to be handled or to be
\* acknowledged.
Apart ==
  \A v, w \in Workers :
    /\ v # w => worker[v].batch \cap worker[w].batch = {}
    /\ worker[v].acks \cap worker[w].batch = {}

\* What a worker still has to handle is pending, and in the stream unless trimmed.
Holding ==
  \A w \in Workers, i \in 1 .. cursor :
    i \in worker[w].batch => i \in pel /\ (i \in live \/ log[i].msg \in trimmed)

DInv == IInv /\ Known /\ Apart /\ Holding

\* A step in which one worker only puts messages down, or from its batch to those it
\* will acknowledge.
LEMMA PutDown ==
  ASSUME DInv, NEW w \in Workers, NEW pc \in Stages,
         NEW batch \in SUBSET worker[w].batch,
         NEW acks \in SUBSET (worker[w].acks \cup worker[w].batch),
         batch \cap acks = {},
         Become(w, Worker(pc, batch, acks)),
         cursor' = cursor, trimmed \subseteq trimmed',
         \A i \in Ids : log'[i] = log[i],
         pel \subseteq pel' \cup worker[w].acks,
         \A i \in live : \/ i \in live' \/ i \in worker[w].acks
                         \/ i \notin pel \/ log[i].msg \in trimmed'
  PROVE  Apart' /\ Holding'
<1> USE DEF DInv
<1>1. /\ batch \in SUBSET (1 .. cursor) /\ acks \in SUBSET (1 .. cursor)
      /\ cursor \in Nat /\ cursor <= cursor /\ TypeOK /\ 1 .. cursor \subseteq Ids
      /\ \A v \in Workers : worker[v].batch \subseteq 1 .. cursor
  BY BatchFacts, WorkerType DEF IInv
<1>2. /\ worker'[w].batch = batch /\ worker'[w].acks = acks
      /\ \A v \in Workers : v # w => worker'[v] = worker[v]
  BY <1>1, BecomeWorker
<1>3. Apart'
  <2> SUFFICES ASSUME NEW u \in Workers, NEW v \in Workers
               PROVE  /\ u # v => worker'[u].batch \cap worker'[v].batch = {}
                      /\ worker'[u].acks \cap worker'[v].batch = {}
    BY DEF Apart
  <2>1. CASE u = w /\ v = w
    BY <1>2, <2>1
  <2>2. CASE u = w /\ v # w
    BY <1>2, <2>2 DEF Apart
  <2>3. CASE u # w /\ v = w
    BY <1>2, <2>3 DEF Apart
  <2>4. CASE u # w /\ v # w
    BY <1>2, <2>4 DEF Apart
  <2> QED BY <2>1, <2>2, <2>3, <2>4
<1>4. Holding'
  <2> SUFFICES ASSUME NEW v \in Workers, NEW i \in 1 .. cursor, i \in worker'[v].batch
               PROVE  i \in pel' /\ (i \in live' \/ log'[i].msg \in trimmed')
    BY DEF Holding
  <2>1. i \in worker[v].batch
    BY <1>2
  <2>2. i \in pel /\ (i \in live \/ log[i].msg \in trimmed)
    BY <2>1 DEF Holding
  <2>3. i \notin worker[w].acks
    BY <2>1 DEF Apart
  <2>4. log'[i] = log[i]
    BY <1>1
  <2> QED BY <2>2, <2>3, <2>4
<1> QED BY <1>3, <1>4

\* Reading: what is delivered was in nobody's hands.
LEMMA ReadHolding ==
  ASSUME DInv, NEW w \in Workers, ReadGroup(w)
  PROVE  Apart' /\ Holding'
<1> USE DEF DInv
<1>1. /\ cursor \in Nat /\ Len(log) \in Nat /\ cursor <= Len(log)
      /\ UNCHANGED <<log, live, trimmed>>
      /\ pel' = pel \cup Delivered /\ cursor' \in Delivered
      /\ \A i \in Delivered : i <= cursor'
      /\ worker \in [Workers -> [pc : Stages, batch : SUBSET (1 .. cursor),
                                 acks : SUBSET (1 .. cursor)]]
      /\ \A v \in Workers : /\ worker[v].batch \subseteq 1 .. cursor
                            /\ worker[v].acks \subseteq 1 .. cursor
  BY WorkerType DEF IInv, TypeOK, ReadGroup, outcomeVars
<1>2. \A i \in Delivered : i \in live /\ i > cursor /\ i \in Nat
  <2>1. live \subseteq Ids
    BY DEF IInv, TypeOK
  <2> QED BY <2>1 DEF Delivered, Unread, Ids
<1>3. cursor' \in Nat /\ cursor < cursor' /\ 1 .. cursor \subseteq 1 .. cursor'
  BY <1>1, <1>2
<1>4. \/ worker'[w].batch = Delivered /\ worker'[w].acks = {}
      \/ worker'[w] = worker[w]
  BY <1>1 DEF ReadGroup, Become, Worker
<1>5. \A v \in Workers : v # w => worker'[v] = worker[v]
  BY <1>1 DEF ReadGroup, Become
<1>6. \A v \in Workers : /\ worker[v].batch \cap Delivered = {}
                         /\ worker[v].acks \cap Delivered = {}
  BY <1>1, <1>2
<1>7. Apart'
  <2> SUFFICES ASSUME NEW u \in Workers, NEW v \in Workers
               PROVE  /\ u # v => worker'[u].batch \cap worker'[v].batch = {}
                      /\ worker'[u].acks \cap worker'[v].batch = {}
    BY DEF Apart
  <2>1. CASE u = w /\ v = w
    BY <1>4, <2>1 DEF Apart
  <2>2. CASE u = w /\ v # w
    BY <1>4, <1>5, <1>6, <2>2 DEF Apart
  <2>3. CASE u # w /\ v = w
    BY <1>4, <1>5, <1>6, <2>3 DEF Apart
  <2>4. CASE u # w /\ v # w
    BY <1>5, <2>4 DEF Apart
  <2> QED BY <2>1, <2>2, <2>3, <2>4
<1>8. Holding'
  <2> SUFFICES ASSUME NEW v \in Workers, NEW i \in 1 .. cursor', i \in worker'[v].batch
               PROVE  i \in pel' /\ (i \in live' \/ log'[i].msg \in trimmed')
    BY DEF Holding
  <2>1. i \in worker[v].batch \/ i \in Delivered
    BY <1>4, <1>5
  <2>2. CASE i \in worker[v].batch
    BY <1>1, <2>2 DEF Holding
  <2> QED BY <1>1, <1>2, <2>1, <2>2
<1> QED BY <1>7, <1>8

LEMMA HoldingStep ==
  ASSUME DInv, NEW w \in Workers, WorkerStep(w) \/ Crash(w)
  PROVE  Apart' /\ Holding'
<1> USE DEF DInv
<1>1. /\ worker[w].batch \cap worker[w].acks = {}
      /\ worker[w].batch \in SUBSET worker[w].batch
      /\ worker[w].acks \in SUBSET (worker[w].acks \cup worker[w].batch)
      /\ {} \in SUBSET worker[w].batch
      /\ {} \in SUBSET (worker[w].acks \cup worker[w].batch)
      /\ worker[w].acks \cup worker[w].batch \in SUBSET (worker[w].acks \cup worker[w].batch)
      /\ Stages = {"down", "off", "idle", "handle", "retry", "ack", "delete", "trim"}
  BY DEF Apart, Stages
<1>2. CASE StartWorker(w)
  <2>1. PICK pc \in {"idle", "off"} : Become(w, Worker(pc, {}, {}))
    BY <1>2 DEF StartWorker, Idle
  <2>2. pc \in Stages
    BY <1>1
  <2>3. cursor' = cursor
    BY <1>2 DEF StartWorker, IInv, GroupFirst, StartCursor
  <2> QED BY <1>1, <1>2, <2>1, <2>2, <2>3, PutDown DEF StartWorker, outcomeVars
<1>3. CASE ReadGroup(w)
  BY <1>3, ReadHolding
<1>4. CASE DiscardMalformed(w)
  <2>1. PICK i \in worker[w].batch :
          Become(w, Worker("handle", worker[w].batch \ {i}, worker[w].acks \cup {i}))
    BY <1>4 DEF DiscardMalformed, Malformed
  <2>2. /\ worker[w].batch \ {i} \in SUBSET worker[w].batch
        /\ worker[w].acks \cup {i} \in SUBSET (worker[w].acks \cup worker[w].batch)
        /\ (worker[w].batch \ {i}) \cap (worker[w].acks \cup {i}) = {}
    BY <1>1
  <2> QED BY <1>1, <1>4, <2>1, <2>2, PutDown DEF DiscardMalformed, redisVars
<1>5. CASE ReportBatch(w)
  <2>1. {} \cap (worker[w].acks \cup worker[w].batch) = {}
    OBVIOUS
  <2> QED BY <1>1, <1>5, <2>1, PutDown DEF ReportBatch, redisVars
<1>6. CASE ReportBatchFails(w)
  BY <1>1, <1>6, PutDown DEF ReportBatchFails, redisVars
<1>7. CASE SettleItem(w)
  <2>1. PICK i \in worker[w].batch, copies \in 0 .. 2, ok \in BOOLEAN :
          /\ \/ UNCHANGED <<log, live>>
             \/ ~Exhausted(i) /\ XAdd(copies, log[i].msg, Attempts(i))
          /\ Become(w, Worker("retry", worker[w].batch \ {i},
                              worker[w].acks \cup AckedIf(ok, i)))
    BY <1>7 DEF SettleItem
  <2>2. /\ worker[w].batch \ {i} \in SUBSET worker[w].batch
        /\ worker[w].acks \cup AckedIf(ok, i)
             \in SUBSET (worker[w].acks \cup worker[w].batch)
        /\ (worker[w].batch \ {i}) \cap (worker[w].acks \cup AckedIf(ok, i)) = {}
    BY <1>1 DEF AckedIf
  <2>3. (\A j \in Ids : log'[j] = log[j]) /\ live \subseteq live'
    <3>1. CASE UNCHANGED <<log, live>>
      BY <3>1
    <3>2. CASE ~Exhausted(i) /\ XAdd(copies, log[i].msg, Attempts(i))
      <4>1. i \in Ids
        BY BatchFacts DEF DInv
      <4>2. log[i].attempts \in Nat /\ log[i].msg \in Messages
        BY <4>1, LogType, MaxAttemptsPos DEF IInv
      <4>3. Attempts(i) \in 0 .. MaxAttempts - 1
        BY <3>2, <4>2, MaxAttemptsPos DEF Attempts, Exhausted
      <4> QED BY <3>2, <4>2, <4>3, XAddLog DEF IInv
    <3> QED BY <2>1, <3>1, <3>2
  <2> QED BY <1>1, <1>7, <2>1, <2>2, <2>3, PutDown DEF SettleItem
<1>8. CASE BatchHandled(w)
  <2>1. \/ Become(w, Worker("idle", {}, {}))
        \/ Become(w, Worker("ack", {}, worker[w].acks))
    BY <1>8 DEF BatchHandled, Idle
  <2>2. /\ {} \cap worker[w].acks = {}
        /\ UNCHANGED <<log, live, cursor, pel, trimmed>>
    BY <1>8 DEF BatchHandled, redisVars, outcomeVars
  <2> QED BY <1>1, <2>1, <2>2, PutDown
<1>9. CASE Ack(w)
  <2>1. PICK pc \in Stages, acks \in {{}, worker[w].acks} : Become(w, Worker(pc, {}, acks))
    BY <1>1, <1>9 DEF Ack, Idle
  <2>2. /\ {} \cap acks = {} /\ pel \subseteq pel' \cup worker[w].acks
        /\ UNCHANGED <<log, live, cursor, trimmed>>
    BY <1>9 DEF Ack, outcomeVars
  <2> QED BY <1>1, <2>1, <2>2, PutDown
<1>10. CASE Delete(w)
  <2>1. PICK pc \in Stages : Become(w, Worker(pc, {}, {}))
    BY <1>1, <1>10 DEF Delete, Idle
  <2>2. /\ \A i \in live : i \in live' \/ i \in worker[w].acks
        /\ UNCHANGED <<log, pel, cursor, trimmed>>
    BY <1>10 DEF Delete, outcomeVars
  <2> QED BY <1>1, <2>1, <2>2, PutDown
<1>11. CASE Trim(w)
  <2>1. Become(w, Worker("idle", {}, {})) /\ UNCHANGED <<log, pel, cursor>>
    BY <1>11 DEF Trim, Idle
  <2>2. /\ trimmed \subseteq trimmed'
        /\ \A i \in live : i \in live' \/ i \notin pel \/ log[i].msg \in trimmed'
    BY <1>11 DEF Trim
  <2> QED BY <1>1, <2>1, <2>2, PutDown
<1>12. CASE Crash(w)
  <2>1. Become(w, Worker("down", {}, {})) /\ UNCHANGED <<log, live, pel, cursor, trimmed>>
    BY <1>12 DEF Crash, Down, redisVars, outcomeVars
  <2> QED BY <1>1, <2>1, PutDown
<1> QED BY <1>2, <1>3, <1>4, <1>5, <1>6, <1>7, <1>8, <1>9, <1>10, <1>11, <1>12
        DEF WorkerStep

\* Workers invent nothing: what they report, give up or add again is in the log.
LEMMA KnownStep ==
  ASSUME DInv, NEW w \in Workers, WorkerStep(w) \/ Crash(w)
  PROVE  Known'
<1> USE DEF DInv
<1>1. \A i \in worker[w].batch : log[i].msg \in Garbage \cup accepted
  BY BatchFacts DEF Known
<1>2. live \subseteq Ids /\ \A i \in live : log[i].msg \in Garbage \cup accepted
  BY DEF IInv, TypeOK, Known
<1>3. Malformed(w) = {} => EventsOf(worker[w].batch) \subseteq accepted
  <2>1. Malformed(w) = {} => EventsOf(worker[w].batch) \subseteq Events
    BY BatchFacts
  <2> QED BY <1>1, <2>1, MessagesDisjoint DEF EventsOf
<1>4. CASE SettleItem(w)
  <2>1. PICK i \in worker[w].batch, copies \in 0 .. 2, ok \in BOOLEAN :
          /\ \/ UNCHANGED <<log, live>>
             \/ ~Exhausted(i) /\ XAdd(copies, log[i].msg, Attempts(i))
          /\ dead' \in {dead, dead \cup {log[i].msg}}
    BY <1>4 DEF SettleItem
  <2>2. UNCHANGED <<accepted, reported, trimmed>>
    BY <1>4 DEF SettleItem
  <2>3. CASE UNCHANGED log
    BY <1>1, <2>1, <2>2, <2>3 DEF Known, Ids
  <2>4. CASE ~Exhausted(i) /\ XAdd(copies, log[i].msg, Attempts(i))
    <3>1. i \in Ids /\ Len(log) \in Nat
      BY BatchFacts DEF IInv, TypeOK
    <3>2. log[i].attempts \in Nat /\ log[i].msg \in Messages
      BY <3>1, LogType, MaxAttemptsPos DEF IInv
    <3>3. Attempts(i) \in 0 .. MaxAttempts - 1
      BY <2>4, <3>2, MaxAttemptsPos DEF Attempts, Exhausted
    <3>4. /\ Len(log') = Len(log) + copies
          /\ \A j \in Ids : log'[j] = log[j]
          /\ \A j \in Len(log) + 1 .. Len(log) + copies : log'[j].msg = log[i].msg
      BY <2>4, <3>2, <3>3, XAddLog DEF IInv
    <3>5. \A j \in Ids' : log'[j].msg \in Garbage \cup accepted
      <4> SUFFICES ASSUME NEW j \in Ids' PROVE log'[j].msg \in Garbage \cup accepted
        OBVIOUS
      <4>1. CASE j \in Ids
        BY <3>4, <4>1 DEF Known
      <4>2. CASE j \notin Ids
        <5>1. j \in Len(log) + 1 .. Len(log) + copies
          BY <3>1, <3>4, <4>2 DEF Ids
        <5> QED BY <1>1, <3>4, <5>1
      <4> QED BY <4>1, <4>2
    <3> QED BY <1>1, <2>1, <2>2, <3>5 DEF Known
  <2> QED BY <2>1, <2>3, <2>4
<1>5. CASE ReportBatch(w) \/ ReportBatchFails(w)
  BY <1>3, <1>5 DEF ReportBatch, ReportBatchFails, redisVars, Known, Ids
<1>6. CASE DiscardMalformed(w)
  BY <1>1, <1>6 DEF DiscardMalformed, Malformed, redisVars, Known, Ids
<1>7. CASE Trim(w)
  BY <1>2, <1>7 DEF Trim, Known, Ids
<1>8. CASE \/ StartWorker(w) \/ ReadGroup(w) \/ BatchHandled(w) \/ Ack(w) \/ Delete(w)
           \/ Crash(w)
  BY <1>8 DEF StartWorker, ReadGroup, BatchHandled, Ack, Delete, Crash, redisVars,
     outcomeVars, Known, Ids
<1> QED BY <1>4, <1>5, <1>6, <1>7, <1>8 DEF WorkerStep

\* A message is added to the stream from outside.
LEMMA AddKnown ==
  ASSUME DInv, NEW copies \in 1 .. 2, NEW m \in Messages, XAdd(copies, m, 0),
         UNCHANGED <<cursor, pel, worker, outcomeVars>>,
         accepted' = accepted \/ accepted' = accepted \cup {m},
         m \in Garbage \cup accepted'
  PROVE  Known' /\ Apart' /\ Holding'
<1> USE DEF DInv
<1>1. /\ Len(log') = Len(log) + copies
      /\ \A j \in Ids : log'[j] = log[j]
      /\ \A j \in Len(log) + 1 .. Len(log) + copies : log'[j].msg = m
      /\ live \subseteq live'
  BY XAddLog, MaxAttemptsPos DEF IInv
<1>2. /\ Len(log) \in Nat /\ cursor \in Nat /\ cursor <= Len(log)
      /\ 1 .. cursor \subseteq Ids
  BY WorkerType DEF IInv, TypeOK, Ids
<1>3. \A j \in Ids' : log'[j].msg \in Garbage \cup accepted'
  <2> SUFFICES ASSUME NEW j \in Ids' PROVE log'[j].msg \in Garbage \cup accepted'
    OBVIOUS
  <2>1. CASE j \in Ids
    BY <1>1, <2>1 DEF Known
  <2>2. CASE j \notin Ids
    <3>1. j \in Len(log) + 1 .. Len(log) + copies
      BY <1>1, <1>2, <2>2 DEF Ids
    <3> QED BY <1>1, <3>1
  <2> QED BY <2>1, <2>2
<1>4. Known'
  BY <1>3 DEF Known, outcomeVars
<1>5. Apart'
  BY DEF Apart
<1>6. Holding'
  BY <1>1, <1>2 DEF Holding, outcomeVars
<1> QED BY <1>4, <1>5, <1>6

LEMMA DInvInit == Init => DInv
<1> SUFFICES ASSUME Init PROVE DInv
  OBVIOUS
<1>1. Ids = {} /\ \A w \in Workers : worker[w].batch = {} /\ worker[w].acks = {}
  BY DEF Init, Ids, Down, Worker
<1>2. Known /\ Apart /\ Holding
  BY <1>1 DEF Init, Known, Apart, Holding
<1> QED BY <1>2, InitInv DEF DInv

LEMMA DInvStep == DInv /\ [Next]_vars => DInv'
<1> SUFFICES ASSUME DInv, [Next]_vars PROVE DInv'
  OBVIOUS
<1>1. IInv'
  BY StepInv DEF DInv
<1>2. ASSUME NEW e \in Events, Enqueue(e) PROVE Known' /\ Apart' /\ Holding'
  <2>1. PICK copies \in {1, 2} : XAdd(copies, e, 0)
    BY <1>2 DEF Enqueue
  <2>2. copies \in 1 .. 2 /\ e \in Messages
    BY DEF Messages
  <2>3. /\ UNCHANGED <<cursor, pel, worker, outcomeVars>>
        /\ accepted' = accepted \cup {e}
    BY <1>2 DEF Enqueue
  <2>4. e \in Garbage \cup accepted'
    BY <2>3
  <2> QED BY <2>1, <2>2, <2>3, <2>4, AddKnown
<1>3. ASSUME NEW m \in Garbage, Strange(m) PROVE Known' /\ Apart' /\ Holding'
  <2>1. 1 \in 1 .. 2 /\ m \in Messages
    BY DEF Messages
  <2> QED BY <1>3, <2>1, AddKnown DEF Strange
<1>4. ASSUME NEW w \in Workers, WorkerStep(w) \/ Crash(w) PROVE Known' /\ Apart' /\ Holding'
  BY <1>4, KnownStep, HoldingStep
<1>5. CASE UNCHANGED vars
  BY <1>1, <1>5 DEF vars, DInv, Known, Apart, Holding, Ids
<1> QED BY <1>1, <1>2, <1>3, <1>4, <1>5 DEF Next, DInv

\* The variables of the abstract specification.
Waits == {e \in Events : Carried(e)}
GivenUp == dead \cap Events
Dropped == trimmed \cap Events

\* Adding a message makes its event wait and changes nothing for the others.
LEMMA AddWaits ==
  ASSUME TypeOK, NEW copies \in 1 .. 2, NEW m \in Messages,
         NEW a \in 0 .. MaxAttempts - 1, XAdd(copies, m, a),
         UNCHANGED <<cursor, pel>>
  PROVE  Waits' = Waits \cup ({m} \cap Events)
<1>1. /\ Len(log) \in Nat /\ Len(log') = Len(log) + copies
      /\ cursor \in Nat /\ cursor <= Len(log)
      /\ live \subseteq Ids
      /\ \A i \in Ids : log'[i] = log[i]
      /\ \A i \in Len(log) + 1 .. Len(log) + copies : log'[i].msg = m
      /\ live' = live \cup (Len(log) + 1 .. Len(log) + copies)
  <2>1. copies \in 0 .. 2
    OBVIOUS
  <2> QED BY <2>1, XAddLog DEF TypeOK
<1>2. ASSUME NEW e \in Waits PROVE e \in Waits'
  BY <1>1 DEF Waits, Carried
<1>3. ASSUME m \in Events PROVE m \in Waits'
  <2>1. /\ Len(log) + 1 \in live' /\ Len(log) + 1 > cursor
        /\ log'[Len(log) + 1].msg = m
    BY <1>1
  <2> QED BY <1>3, <2>1 DEF Waits, Carried
<1>4. ASSUME NEW e \in Waits' PROVE e \in Waits \/ e = m
  <2>1. PICK i \in live' : log'[i].msg = e /\ (i > cursor \/ i \in pel)
    BY <1>4 DEF Waits, Carried
  <2>2. CASE i \in live
    BY <1>1, <1>4, <2>1, <2>2 DEF Waits, Carried
  <2>3. CASE i \notin live
    BY <1>1, <2>1, <2>3
  <2> QED BY <2>2, <2>3
<1>5. Waits' \subseteq Events
  BY DEF Waits
<1> QED BY <1>2, <1>3, <1>4, <1>5

\* Nothing the queue knows of is unaccounted for.
LeftIsGone ==
  \A e \in Events \cap accepted : e \in Waits \cup reported \cup GivenUp \cup Dropped

LEMMA NobodyMissing == DInv => LeftIsGone
BY DEF LeftIsGone, DInv, IInv, Accounted, Findable, Carried, Waits, GivenUp, Dropped

\* What a worker may report is waiting or was dropped.
LEMMA BatchWaits ==
  ASSUME DInv, NEW w \in Workers, Malformed(w) = {}
  PROVE  EventsOf(worker[w].batch) \in SUBSET (Waits \cup Dropped)
<1> SUFFICES ASSUME NEW i \in worker[w].batch PROVE log[i].msg \in Waits \cup Dropped
  BY DEF EventsOf
<1>1. log[i].msg \in Events /\ i \in 1 .. cursor
  BY BatchFacts DEF DInv, EventsOf
<1>2. i \in pel /\ (i \in live \/ log[i].msg \in trimmed)
  BY <1>1 DEF DInv, Holding
<1> QED BY <1>1, <1>2 DEF Waits, Carried, Dropped

LEMMA DeliveryInit == Init => UD!Init
<1> SUFFICES ASSUME Init PROVE UD!Init
  OBVIOUS
<1>1. Waits = {} /\ GivenUp = {} /\ Dropped = {}
  BY DEF Init, Waits, Carried, GivenUp, Dropped
<1> QED BY <1>1 DEF Init, UD!Init, Waits, GivenUp, Dropped

DeliveryUnchanged == UNCHANGED <<Waits, reported, GivenUp, Dropped, failures>>

LEMMA DeliveryStutters ==
  ASSUME DeliveryUnchanged
  PROVE  [UD!Next]_(UD!deliveryVars)
BY DEF DeliveryUnchanged, UD!deliveryVars, Waits, GivenUp, Dropped

LEMMA EnqueueQueues ==
  ASSUME DInv, NEW e \in Events, Enqueue(e)
  PROVE  UD!Queue(e)
<1> USE DEF DInv
<1>1. PICK copies \in {1, 2} : XAdd(copies, e, 0)
  BY DEF Enqueue
<1>2. /\ copies \in 1 .. 2 /\ e \in Messages /\ 0 \in 0 .. MaxAttempts - 1
      /\ UNCHANGED <<cursor, pel, reported, dead, trimmed, failures>>
      /\ e \notin accepted
  BY MaxAttemptsPos DEF Enqueue, Messages, outcomeVars
<1>3. Waits' = Waits \cup {e}
  BY <1>1, <1>2, AddWaits DEF IInv
<1>4. UNCHANGED <<GivenUp, Dropped>>
  BY <1>2 DEF GivenUp, Dropped
<1>5. e \notin Waits \cup (reported \cup GivenUp \cup Dropped)
  <2>1. live \subseteq Ids /\ e \notin Garbage
    BY MessagesDisjoint DEF IInv, TypeOK
  <2> QED BY <1>2, <2>1 DEF Known, Waits, Carried, GivenUp, Dropped
<1> QED BY <1>2, <1>3, <1>4, <1>5
        DEF UD!Queue, UD!Gone, Waits, GivenUp, Dropped

LEMMA StrangeStutters ==
  ASSUME DInv, NEW m \in Garbage, Strange(m)
  PROVE  DeliveryUnchanged
<1>1. 1 \in 1 .. 2 /\ m \in Messages /\ 0 \in 0 .. MaxAttempts - 1 /\ {m} \cap Events = {}
  BY MaxAttemptsPos, MessagesDisjoint DEF Messages
<1>2. Waits' = Waits
  BY <1>1, AddWaits DEF Strange, DInv, IInv
<1> QED BY <1>2 DEF Strange, outcomeVars, DeliveryUnchanged, GivenUp, Dropped

\* Creating the group, reading, dead-lettering what does not parse, deleting what was
\* acknowledged and dying change nothing for the events.
LEMMA InnerStutters ==
  ASSUME DInv, NEW w \in Workers,
         \/ StartWorker(w) \/ ReadGroup(w) \/ DiscardMalformed(w) \/ BatchHandled(w)
         \/ Delete(w) \/ Crash(w)
  PROVE  DeliveryUnchanged
<1> USE DEF DInv
<1>1. CASE StartWorker(w) \/ BatchHandled(w) \/ Crash(w)
  <2>1. UNCHANGED <<log, live, cursor, pel, reported, dead, trimmed, failures>>
    BY <1>1 DEF StartWorker, BatchHandled, Crash, redisVars, outcomeVars, IInv, GroupFirst,
       StartCursor
  <2> QED BY <2>1 DEF DeliveryUnchanged, Waits, Carried, GivenUp, Dropped
<1>2. CASE ReadGroup(w)
  <2>1. /\ UNCHANGED <<log, live, reported, dead, trimmed, failures>>
        /\ pel' = pel \cup Delivered /\ cursor' \in Delivered
    BY <1>2 DEF ReadGroup, outcomeVars
  <2>2. live \subseteq Nat /\ cursor \in Nat /\ Delivered \subseteq Unread /\ Unread \subseteq live
    BY DEF IInv, TypeOK, Ids, Delivered, Unread
  <2>3. ASSUME NEW i \in live
        PROVE  (i > cursor \/ i \in pel) <=> (i > cursor' \/ i \in pel')
    <3>1. CASE i > cursor
      <4>1. i \in Unread
        BY <3>1 DEF Unread
      <4>2. PICK c \in Delivered : c = cursor'
        BY <2>1
      <4>3. i <= c => i \in Delivered
        BY <4>1, <4>2, NoneSkipped DEF IInv
      <4> QED BY <2>1, <2>2, <3>1, <4>2, <4>3
    <3>2. CASE ~(i > cursor)
      <4>1. i \notin Delivered
        BY <3>2 DEF Delivered, Unread
      <4>2. cursor' > cursor /\ cursor' \in Nat
        BY <2>1, <2>2 DEF Delivered, Unread
      <4> QED BY <2>1, <2>2, <3>2, <4>1, <4>2
    <3> QED BY <3>1, <3>2
  <2> QED BY <2>1, <2>3 DEF DeliveryUnchanged, Waits, Carried, GivenUp, Dropped
<1>3. CASE DiscardMalformed(w)
  <2>1. UNCHANGED <<log, live, cursor, pel, reported, trimmed, failures>>
    BY <1>3 DEF DiscardMalformed, redisVars
  <2>2. PICK i \in Malformed(w) : dead' \in {dead, dead \cup {log[i].msg}}
    BY <1>3 DEF DiscardMalformed
  <2>3. log[i].msg \notin Events
    BY MessagesDisjoint DEF Malformed
  <2> QED BY <2>1, <2>2, <2>3 DEF DeliveryUnchanged, Waits, Carried, GivenUp, Dropped
<1>4. CASE Delete(w)
  <2>1. /\ UNCHANGED <<log, cursor, pel, reported, dead, trimmed, failures>>
        /\ live' \subseteq live /\ live \subseteq live' \cup worker[w].acks
    BY <1>4 DEF Delete, outcomeVars
  <2>2. \A i \in worker[w].acks : ~(i > cursor \/ i \in pel)
    <3>1. worker[w].acks \cap pel = {}
      BY <1>4 DEF Delete, At, IInv, Hands, HandsOf
    <3> QED BY <3>1, WorkerType DEF IInv
  <2> QED BY <2>1, <2>2 DEF DeliveryUnchanged, Waits, Carried, GivenUp, Dropped
<1> QED BY <1>1, <1>2, <1>3, <1>4

LEMMA ReportReports ==
  ASSUME DInv, NEW w \in Workers, ReportBatch(w)
  PROVE  UD!Report
<1>1. /\ reported' = reported \cup EventsOf(worker[w].batch)
      /\ UNCHANGED <<log, live, cursor, pel, dead, trimmed, failures>>
      /\ EventsOf(worker[w].batch) \in SUBSET (Waits \cup Dropped)
  BY BatchWaits DEF ReportBatch, redisVars
<1>2. UNCHANGED <<Waits, GivenUp, Dropped>>
  BY <1>1 DEF Waits, Carried, GivenUp, Dropped
<1> QED BY <1>1, <1>2 DEF UD!Report, UD!Reportable, Waits, GivenUp, Dropped

LEMMA ReportFailureFails ==
  ASSUME DInv, NEW w \in Workers, ReportBatchFails(w)
  PROVE  UD!FailReport
<1> DEFINE batch == EventsOf(worker[w].batch)
<1>1. /\ UNCHANGED <<log, live, cursor, pel, dead, trimmed>>
      /\ batch \in SUBSET (Waits \cup Dropped)
      /\ \E applied \in SUBSET batch : reported' = reported \cup applied
      /\ failures' = [e \in Events |-> IF e \in batch THEN failures[e] + 1 ELSE failures[e]]
  BY BatchWaits DEF ReportBatchFails, redisVars
<1>2. UNCHANGED <<Waits, GivenUp, Dropped>>
  BY <1>1 DEF Waits, Carried, GivenUp, Dropped
<1> HIDE DEF batch
<1> QED BY <1>1, <1>2 DEF UD!FailReport, UD!Reportable, Waits, GivenUp, Dropped

\* A failed item is given up, or waits again; it only ever stopped waiting because it
\* was dropped.
LEMMA SettleSettles ==
  ASSUME DInv, NEW w \in Workers, SettleItem(w)
  PROVE  DeliveryUnchanged \/ \E e \in Events : UD!GiveUp(e) \/ UD!Return(e)
<1> USE DEF DInv
<1>1. PICK i \in worker[w].batch, copies \in 0 .. 2 :
       \/ /\ Exhausted(i)
          /\ dead' = IF copies > 0 THEN dead \cup {log[i].msg} ELSE dead
          /\ UNCHANGED <<log, live>>
       \/ /\ ~Exhausted(i)
          /\ XAdd(copies, log[i].msg, Attempts(i))
          /\ UNCHANGED dead
  BY DEF SettleItem
<1>2. UNCHANGED <<cursor, pel, reported, trimmed, failures>>
  BY DEF SettleItem
<1>3. /\ log[i].msg \in Events /\ i \in Ids /\ i \in 1 .. cursor
      /\ Attempts(i) <= failures[log[i].msg] /\ failures \in [Events -> Nat]
  BY BatchFacts DEF SettleItem, At, IInv, Hands, HandsOf
<1>4. log[i].attempts \in Nat /\ log[i].msg \in Messages
  BY <1>3, LogType, MaxAttemptsPos DEF IInv
<1>5. log[i].msg \in Waits \cup Dropped
  <2>1. i \in pel /\ (i \in live \/ log[i].msg \in trimmed)
    BY <1>3 DEF Holding
  <2> QED BY <1>3, <2>1 DEF Waits, Carried, Dropped
<1>6. CASE Exhausted(i)
  <2>1. UNCHANGED <<Waits, Dropped>>
    BY <1>1, <1>2, <1>6 DEF Waits, Carried, Dropped
  <2>2. CASE copies = 0
    BY <1>1, <1>2, <1>6, <2>1, <2>2 DEF DeliveryUnchanged, GivenUp
  <2>3. CASE copies # 0
    <3>1. GivenUp' = GivenUp \cup {log[i].msg}
      BY <1>1, <1>3, <1>6, <2>3 DEF GivenUp
    <3>2. failures[log[i].msg] >= MaxAttempts
      BY <1>3, <1>4, <1>6, MaxAttemptsPos DEF Exhausted, Attempts
    <3>3. UD!GiveUp(log[i].msg)
      BY <1>2, <1>3, <1>5, <2>1, <3>1, <3>2 DEF UD!GiveUp, Waits, GivenUp, Dropped
    <3> QED BY <1>3, <3>3
  <2> QED BY <2>2, <2>3
<1>7. CASE ~Exhausted(i)
  <2>1. XAdd(copies, log[i].msg, Attempts(i)) /\ UNCHANGED dead
    BY <1>1, <1>7
  <2>2. UNCHANGED <<GivenUp, Dropped>>
    BY <1>2, <2>1 DEF GivenUp, Dropped
  <2>3. Attempts(i) \in 0 .. MaxAttempts - 1
    BY <1>4, <1>7, MaxAttemptsPos DEF Attempts, Exhausted
  <2>4. CASE copies = 0
    <3>1. /\ live' = live \cup (Len(log) + 1 .. Len(log) + copies)
          /\ \A j \in Ids : log'[j] = log[j]
      BY <1>4, <2>1, <2>3, XAddLog DEF IInv
    <3>2. live' = live /\ live \subseteq Ids
      <4>1. live \subseteq Ids /\ Len(log) \in Nat
        BY DEF IInv, TypeOK
      <4> QED BY <2>4, <3>1, <4>1
    <3>3. Waits' = Waits
      BY <1>2, <3>1, <3>2 DEF Waits, Carried
    <3> QED BY <1>2, <2>2, <3>3 DEF DeliveryUnchanged
  <2>5. CASE copies # 0
    <3>1. Waits' = Waits \cup {log[i].msg}
      <4>1. copies \in 1 .. 2
        BY <2>5
      <4> QED BY <1>2, <1>3, <1>4, <2>1, <2>3, <4>1, AddWaits DEF IInv
    <3>2. CASE log[i].msg \in Waits
      BY <1>2, <2>2, <3>1, <3>2 DEF DeliveryUnchanged
    <3>3. CASE log[i].msg \in Dropped
      <4>1. UD!Return(log[i].msg)
        BY <1>2, <2>2, <3>1, <3>3 DEF UD!Return, Waits, GivenUp, Dropped
      <4> QED BY <1>3, <4>1
    <3> QED BY <1>5, <3>2, <3>3
  <2> QED BY <2>4, <2>5
<1> QED BY <1>6, <1>7

\* What an acknowledgement takes out of the queue is settled or was dropped.
LEMMA AckLeaves ==
  ASSUME DInv, LeftIsGone', NEW w \in Workers, Ack(w)
  PROVE  UD!Leave
<1>1. /\ UNCHANGED <<log, live, cursor, accepted, reported, dead, trimmed, failures>>
      /\ pel' \subseteq pel
  BY DEF Ack, outcomeVars
<1>2. UNCHANGED <<GivenUp, Dropped>>
  BY <1>1 DEF GivenUp, Dropped
<1>3. Waits' \subseteq Waits /\ Waits' = Waits \ (Waits \ Waits')
  BY <1>1 DEF Waits, Carried
<1>4. Waits \ Waits' \subseteq reported \cup GivenUp \cup Dropped
  <2> SUFFICES ASSUME NEW e \in Waits, e \notin Waits'
               PROVE  e \in reported \cup GivenUp \cup Dropped
    OBVIOUS
  <2>1. e \in Events /\ e \in accepted
    <3>1. live \subseteq Ids /\ e \in Events /\ e \notin Garbage
      BY MessagesDisjoint DEF DInv, IInv, TypeOK, Waits
    <3> QED BY <3>1 DEF DInv, Known, Waits, Carried
  <2>2. e \in (reported \cup GivenUp \cup Dropped)'
    BY <1>1, <2>1 DEF LeftIsGone
  <2> QED BY <1>1, <1>2, <2>2
<1>5. Waits \ Waits' \in SUBSET (Waits \cap (reported \cup GivenUp \cup Dropped))
  BY <1>4
<1> QED BY <1>1, <1>2, <1>3, <1>5 DEF UD!Leave, UD!Gone, Waits, GivenUp, Dropped

LEMMA TrimDrops ==
  ASSUME DInv, NEW w \in Workers, Trim(w)
  PROVE  UD!Drop
<1>1. PICK oldest \in Ids :
        /\ live' = Kept(oldest)
        /\ trimmed' = trimmed \cup
             {log[i].msg : i \in {j \in live \ Kept(oldest) : j > cursor \/ j \in pel}}
  BY DEF Trim
<1>2. UNCHANGED <<log, cursor, pel, reported, dead, failures>>
  BY DEF Trim
<1> DEFINE copies == {log[i].msg : i \in {j \in live \ Kept(oldest) :
                                            j > cursor \/ j \in pel}} \cap Events
           last == Waits \ Waits'
<1>3. copies \in SUBSET Waits /\ Dropped' = Dropped \cup copies
  BY <1>1 DEF Waits, Carried, Dropped
<1>4. last \in SUBSET copies
  BY <1>1, <1>2 DEF Waits, Carried
<1>5. Waits' = Waits \ last
  BY <1>1, <1>2 DEF Waits, Carried, Kept
<1>6. UNCHANGED GivenUp
  BY <1>2 DEF GivenUp
<1> HIDE DEF copies, last
<1> QED BY <1>2, <1>3, <1>4, <1>5, <1>6 DEF UD!Drop, Waits, GivenUp, Dropped

LEMMA DeliveryStep == DInv /\ LeftIsGone' /\ [Next]_vars => [UD!Next]_(UD!deliveryVars)
<1> SUFFICES ASSUME DInv, LeftIsGone', [Next]_vars PROVE [UD!Next]_(UD!deliveryVars)
  OBVIOUS
<1>1. ASSUME NEW e \in Events, Enqueue(e) PROVE UD!Next
  BY <1>1, EnqueueQueues DEF UD!Next
<1>2. ASSUME NEW m \in Garbage, Strange(m) PROVE DeliveryUnchanged
  BY <1>2, StrangeStutters
<1>3. ASSUME NEW w \in Workers, WorkerStep(w) \/ Crash(w)
      PROVE  DeliveryUnchanged \/ UD!Next
  <2>1. CASE SettleItem(w)
    BY <2>1, SettleSettles DEF UD!Next
  <2>2. CASE ReportBatch(w)
    BY <2>2, ReportReports DEF UD!Next
  <2>3. CASE ReportBatchFails(w)
    BY <2>3, ReportFailureFails DEF UD!Next
  <2>4. CASE Ack(w)
    BY <2>4, AckLeaves DEF UD!Next
  <2>5. CASE Trim(w)
    BY <2>5, TrimDrops DEF UD!Next
  <2> QED BY <1>3, <2>1, <2>2, <2>3, <2>4, <2>5, InnerStutters DEF WorkerStep
<1>4. CASE UNCHANGED vars
  <2>1. DeliveryUnchanged
    BY <1>4 DEF vars, DeliveryUnchanged, Waits, Carried, GivenUp, Dropped
  <2> QED BY <2>1, DeliveryStutters
<1> QED BY <1>1, <1>2, <1>3, <1>4, DeliveryStutters DEF Next

(***************************************************************************)
(* Every behaviour of producers, workers and Redis is one of the abstract  *)
(* queue: events leave it only settled or dropped, and a worker that was   *)
(* slow, saw an error or reads a duplicate brings no settled event back.   *)
(***************************************************************************)
THEOREM QueueIsADelivery == Spec => ImplementsDelivery
<1>1. Init => DInv /\ UD!Init
  BY DInvInit, DeliveryInit
<1> QED BY <1>1, DInvStep, NobodyMissing, DeliveryStep, PTL DEF Spec, ImplementsDelivery, UD!Delivery

=============================================================================
