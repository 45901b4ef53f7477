--------------------------- MODULE SchedulerCache ---------------------------
(***************************************************************************)
(* The Redis keys of one scheduler bucket.  A writer draws a version, adds *)
(* the account records and a sorted set under that version, and activates  *)
(* it with a script that refuses to go back.  A reader takes the active    *)
(* version, then its members, then their records, and counts anything      *)
(* missing as a miss.  The version replaced stays readable for a while.    *)
(*                                                                         *)
(* Buckets have no keys in common but the account records, so the writers  *)
(* here may equally be those of another bucket that holds the same         *)
(* accounts.  ready is set by the script that sets active and needs no     *)
(* variable of its own.                                                    *)
(***************************************************************************)
EXTENDS Integers, Sequences, FiniteSets

CONSTANTS
  Accounts,
  Lists,       \* the account lists a bucket can have
  Writers,     \* goroutines that call SetSnapshot
  Readers,     \* goroutines that call GetSnapshot
  Updaters,    \* goroutines that call UpdateLastUsed
  MaxVersion,  \* bound: versions drawn
  MaxFaults    \* bound: failed and resent commands

ASSUME ListsAssumption == Lists \subseteq SUBSET Accounts
ASSUME BoundsAssumption == MaxVersion \in Nat /\ MaxFaults \in Nat

Versions == 1 .. MaxVersion

VARIABLES
  drawn,      \* the account list each version was drawn for; its length is sched:ver
  active,     \* sched:active, 0 when missing
  zset,       \* the sorted set of each version, empty when there is no key
  fading,     \* versions whose sorted set has a TTL
  records,    \* accounts with a record and a meta record
  writer,     \* each SetSnapshot: where it is, its version, the members not yet added
  reader,     \* each GetSnapshot: where it is, its version, the ids it has read, its result
  update,     \* each UpdateLastUsed: the accounts it has read, if it is running
  faults,
  \* History: no guard reads it.
  abandoned,  \* versions whose writer failed
  expired,    \* versions whose grace period has run out
  repeated    \* versions whose activation was sent again

vars == <<drawn, active, zset, fading, records, writer, reader, update, faults,
          abandoned, expired, repeated>>
history == <<abandoned, expired, repeated>>
sets == <<active, zset, fading>>

\* An empty list counts as a miss.
Miss == {}
Free == [pc |-> "idle", ver |-> 0, todo |-> {}]
Resting == [pc |-> "idle", ver |-> 0, ids |-> {}, result |-> Miss]
Calm == UNCHANGED faults
Fault == faults < MaxFaults /\ faults' = faults + 1

Writes(w, pc) == writer[w].pc = pc
Reads(r, pc) == reader[r].pc = pc
Release(w) == writer' = [writer EXCEPT ![w] = Free]

(***************************************************************************)
(* SetSnapshot                                                             *)
(***************************************************************************)
Draw(w, members) ==
  /\ Writes(w, "idle") /\ Len(drawn) < MaxVersion
  /\ drawn' = Append(drawn, members)
  /\ writer' = [writer EXCEPT ![w] = [pc |-> "records", ver |-> Len(drawn) + 1, todo |-> members]]
  /\ Calm /\ UNCHANGED <<sets, records, reader, update, history>>

WriteAccounts(w) ==
  /\ Writes(w, "records")
  /\ records' = records \cup writer[w].todo
  /\ writer' = [writer EXCEPT ![w].pc = "zadd"]
  /\ Calm /\ UNCHANGED <<drawn, sets, reader, update, history>>

\* The members go in by chunks, which readers could see one by one.
Added(w, chunk) == zset' = [zset EXCEPT ![writer[w].ver] = @ \cup chunk]

ZAdd(w) ==
  /\ Writes(w, "zadd")
  /\ \E chunk \in SUBSET writer[w].todo :
       /\ chunk # {}
       /\ Added(w, chunk)
       /\ writer' = [writer EXCEPT ![w].todo = @ \ chunk]
  /\ Calm /\ UNCHANGED <<drawn, active, fading, records, reader, update, history>>

\* activateSnapshotScript
Overtaken_Never(v) == FALSE
Overtaken(v) == active > v
Withdraw_Keeps(v) == UNCHANGED <<zset, fading>>
Withdraw(v) == zset' = [zset EXCEPT ![v] = {}] /\ fading' = fading \ {v}
Retire_Deletes(v) == zset' = [zset EXCEPT ![v] = {}] /\ UNCHANGED fading
Retire(v) ==
  /\ fading' = IF zset[v] = {} THEN fading ELSE fading \cup {v}
  /\ UNCHANGED zset

ActivateScript(v) ==
  \/ Overtaken(v) /\ Withdraw(v) /\ UNCHANGED active
  \/ /\ ~Overtaken(v)
     /\ active' = v
     /\ IF active \in {0, v} THEN UNCHANGED <<zset, fading>> ELSE Retire(active)

Complete_Early(w) == TRUE
Complete(w) == writer[w].todo = {}

\* The reply may be lost after the script has run; the client then sends it again,
\* some time later.
Activate(w) ==
  /\ Writes(w, "zadd") /\ Complete(w)
  /\ ActivateScript(writer[w].ver)
  /\ \/ Calm /\ Release(w) /\ UNCHANGED repeated
     \/ /\ Fault
        /\ writer' = [writer EXCEPT ![w].pc = "again"]
        /\ repeated' = repeated \cup {writer[w].ver}
  /\ UNCHANGED <<drawn, records, reader, update, abandoned, expired>>

ActivateAgain(w) ==
  /\ Writes(w, "again")
  /\ ActivateScript(writer[w].ver)
  /\ Release(w)
  /\ Calm /\ UNCHANGED <<drawn, records, reader, update, history>>

\* A command fails, having written some of the records or members, or the process
\* stops: the version is never activated and its key has no TTL.
WriterFails(w) ==
  /\ writer[w].pc \in {"records", "zadd"} /\ Fault
  /\ \E some \in SUBSET writer[w].todo :
       \/ Writes(w, "records") /\ records' = records \cup some /\ UNCHANGED zset
       \/ Writes(w, "zadd") /\ Added(w, some) /\ UNCHANGED records
  /\ abandoned' = abandoned \cup {writer[w].ver}
  /\ Release(w)
  /\ UNCHANGED <<drawn, active, fading, reader, update, expired, repeated>>

\* snapshotGraceTTLSeconds after the version was replaced.
GraceEnds(v) ==
  /\ v \in fading
  /\ zset' = [zset EXCEPT ![v] = {}]
  /\ fading' = fading \ {v}
  /\ expired' = expired \cup {v}
  /\ Calm /\ UNCHANGED <<drawn, active, records, writer, reader, update, abandoned, repeated>>

(***************************************************************************)
(* GetSnapshot                                                             *)
(***************************************************************************)
Answer(r, result) == reader' = [reader EXCEPT ![r] = [Resting EXCEPT !.result = result]]

\* Without an active version the answer is a miss at once, which changes nothing.
ReadActive(r) ==
  /\ Reads(r, "idle") /\ active # 0
  /\ reader' = [reader EXCEPT ![r].pc = "range", ![r].ver = active]
  /\ Calm /\ UNCHANGED <<drawn, sets, records, writer, update, history>>

ReadMembers(r) ==
  /\ Reads(r, "range")
  /\ LET ids == zset[reader[r].ver] IN
       IF ids = {} THEN Answer(r, Miss)
       ELSE reader' = [reader EXCEPT ![r].pc = "records", ![r].ids = ids]
  /\ Calm /\ UNCHANGED <<drawn, sets, records, writer, update, history>>

\* One missing record makes the whole snapshot a miss; an error is one for the caller.
ReadRecords(r) ==
  /\ Reads(r, "records")
  /\ \/ reader[r].ids \subseteq records /\ Answer(r, reader[r].ids)
     \/ ~(reader[r].ids \subseteq records) /\ Answer(r, Miss)
  /\ Calm /\ UNCHANGED <<drawn, sets, records, writer, update, history>>

(***************************************************************************)
(* The records themselves.                                                 *)
(***************************************************************************)
SetAccount(a) ==
  /\ records' = records \cup {a}
  /\ Calm /\ UNCHANGED <<drawn, sets, writer, reader, update, history>>

DeleteAccount(a) ==
  /\ a \in records /\ records' = records \ {a}
  /\ Calm /\ UNCHANGED <<drawn, sets, writer, reader, update, history>>

\* Read the records, then write those back that were there, also what was deleted
\* meanwhile.
UpdateBegins(u) ==
  /\ update[u] = {} /\ update' = [update EXCEPT ![u] = records]
  /\ Calm /\ UNCHANGED <<drawn, sets, records, writer, reader, history>>

UpdateEnds(u) ==
  /\ update[u] # {}
  /\ records' = records \cup update[u]
  /\ update' = [update EXCEPT ![u] = {}]
  /\ Calm /\ UNCHANGED <<drawn, sets, writer, reader, history>>

Init ==
  /\ drawn = <<>> /\ active = 0
  /\ zset = [v \in Versions |-> {}] /\ fading = {}
  /\ records = {}
  /\ writer = [w \in Writers |-> Free]
  /\ reader = [r \in Readers |-> Resting]
  /\ update = [u \in Updaters |-> {}]
  /\ faults = 0
  /\ abandoned = {} /\ expired = {} /\ repeated = {}

SetSnapshot(w) == WriteAccounts(w) \/ ZAdd(w) \/ Activate(w) \/ ActivateAgain(w)

Next ==
  \/ \E w \in Writers :
       SetSnapshot(w) \/ WriterFails(w) \/ \E members \in Lists : Draw(w, members)
  \/ \E v \in Versions : GraceEnds(v)
  \/ \E r \in Readers : ReadActive(r) \/ ReadMembers(r) \/ ReadRecords(r)
  \/ \E a \in Accounts : SetAccount(a) \/ DeleteAccount(a)
  \/ \E u \in Updaters : UpdateBegins(u) \/ UpdateEnds(u)

Spec == Init /\ [][Next]_vars

\* A command returns or fails, and Redis drops a key whose time has come.
FairSpec ==
  /\ Spec
  /\ \A w \in Writers : WF_vars(SetSnapshot(w))
  /\ \A v \in Versions : WF_vars(GraceEnds(v))

(***************************************************************************)
(* Properties.                                                             *)
(***************************************************************************)
Drawn == 1 .. Len(drawn)
List(v) == IF v = 0 THEN {} ELSE drawn[v]

WriterType == [pc : {"idle", "records", "zadd", "again"}, ver : 0 .. MaxVersion,
               todo : SUBSET Accounts]
ReaderType == [pc : {"idle", "range", "records"}, ver : 0 .. MaxVersion,
               ids : SUBSET Accounts, result : SUBSET Accounts]

\* Shapes; the active version was drawn and never fades, and a sorted set only ever
\* holds accounts its version was drawn for.
TypeOK ==
  /\ drawn \in Seq(SUBSET Accounts) /\ Len(drawn) <= MaxVersion
  /\ active \in {0} \cup Drawn
  /\ zset \in [Versions -> SUBSET Accounts]
  /\ \A v \in Versions : zset[v] # {} => v \in Drawn /\ zset[v] \subseteq drawn[v]
  /\ fading \subseteq Drawn /\ active \notin fading
  /\ records \subseteq Accounts
  /\ writer \in [Writers -> WriterType]
  /\ reader \in [Readers -> ReaderType]
  /\ update \in [Updaters -> SUBSET Accounts]
  /\ faults \in 0 .. MaxFaults
  /\ abandoned \subseteq Drawn /\ expired \subseteq Drawn /\ repeated \subseteq Drawn

\* The snapshot a reader is about to read is all there.  It disappears under the
\* reader only when the grace period is over, or when the activation that made it
\* current is sent a second time after a newer one.
ReaderKeepsItsSnapshot ==
  \A r \in Readers : Reads(r, "range") =>
    \/ zset[reader[r].ver] = drawn[reader[r].ver]
    \/ reader[r].ver \in expired \cup repeated

\* Every snapshot that is not the current one goes away in the end, whoever overtook
\* whom, except what a failed writer left: nothing removes that.
OldSnapshotsGo ==
  \A v \in Versions : <>[](v = active \/ v \in abandoned \/ zset[v] = {})

\* The bucket as a register.
Register == INSTANCE SnapshotRegister WITH
  version <- active,
  list <- List(active),
  reads <- [r \in Readers |->
    [busy |-> ~Reads(r, "idle"), seen |-> List(reader[r].ver), result |-> reader[r].result]]

\* What readers and writers do, however they interleave, is what the register does.
ImplementsRegister == Register!Spec

=============================================================================
