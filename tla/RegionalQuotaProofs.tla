------------------------- MODULE RegionalQuotaProofs -------------------------
(***************************************************************************)
(* Theorems about RegionalQuota, for every set of requests, costs and      *)
(* grants, every number of turns, and with or without orphans.             *)
(*                                                                         *)
(* The inductive invariant has two halves.  QuotaInv speaks of the Redis   *)
(* state and its history; every script preserves it, whoever runs it, so   *)
(* there is one lemma for each script.  CallerInv speaks of the callers:   *)
(* it is what makes Reserve run only for a request that has no record or   *)
(* still holds its first reservation.  LInv adds what the refinement needs *)
(* when the hash outlives its users: nobody can reach an orphan.           *)
(***************************************************************************)
EXTENDS RegionalQuota, FiniteSetTheorems, TLAPS

RedisType ==
  /\ lease \in LeaseType
  /\ req \in [Requests -> [status : Statuses, actual : Nat, corrected : CentsOrNone]]
  /\ base \in [reserved : Nat, spent : Nat]
  /\ orphans \in SUBSET Requests
  /\ strays \in SUBSET orphans
  /\ drift \in Int
  /\ latest \in [Requests -> CentsOrNone]

\* A record that is not an orphan was made in the hash that exists now.
RecordsHaveALease ==
  \A r \in Requests : req[r].status # "none" /\ r \notin orphans => lease.exists

OrphansHaveARecord == \A r \in orphans : req[r].status # "none"

\* An orphan strays by settling, so it no longer holds a reservation.
StraysSettled ==
  \A r \in strays : req[r].status \in {"committed", "refunded", "archived"}

NoStraysWithoutALease == ~lease.exists => strays = {} /\ drift = 0

\* What a record says before and after it is charged.
RecordShape ==
  \A r \in Requests :
    /\ req[r].status \in {"none", "reserved", "refunded"} => req[r].actual = 0
    /\ req[r].status = "none" => req[r].corrected = NoCents /\ latest[r] = NoCents
    /\ req[r].status = "reserved" => req[r].corrected = latest[r]

QuotaInv ==
  /\ RedisType
  /\ RecordsHaveALease
  /\ OrphansHaveARecord
  /\ StraysSettled
  /\ NoStraysWithoutALease
  /\ RecordShape
  /\ ChargeIsLatestReport
  /\ ReservedExact
  /\ SpentExact

\* Reserve is only ever sent for a request without a record, or again for one
\* whose reservation was made by the command being sent again.
CallerInv ==
  /\ pc \in [Requests -> Admitting \cup Serving \cup Ended]
  /\ offer \in [Requests -> OfferType]
  /\ reports \subseteq Reports
  /\ IsFiniteSet(reports)
  /\ \A r \in Requests :
       /\ pc[r] \in {"start", "acquire", "ensure"} => req[r].status = "none"
       /\ pc[r] \in {"fast", "slow"} => req[r].status \in {"none", "reserved"}

IInv == QuotaInv /\ CallerInv

(***************************************************************************)
(* Counting.                                                               *)
(***************************************************************************)
LEMMA SubsetsFinite ==
  ASSUME RedisType
  PROVE  /\ IsFiniteSet(Counted \ orphans) /\ IsFiniteSet(strays)
         /\ Cardinality(Counted \ orphans) \in Nat /\ Cardinality(strays) \in Nat
BY RequestsFinite, FS_Subset, FS_CardinalityType DEF RedisType, Counted

\* The cents of many charges, and how one charge moves their number.
Cents(charge, S) == UNION {{r} \X (1 .. charge[r]) : r \in S}

LEMMA CentsFinite ==
  ASSUME NEW S, IsFiniteSet(S), NEW charge, \A r \in S : charge[r] \in Nat
  PROVE  IsFiniteSet(Cents(charge, S)) /\ Cardinality(Cents(charge, S)) \in Nat
<1> DEFINE Of == [r \in S |-> {r} \X (1 .. charge[r])]
           All == {{r} \X (1 .. charge[r]) : r \in S}
<1>1. Of \in Surjection(S, All)
  BY DEF Surjection
<1>2. IsFiniteSet(All)
  <2> HIDE DEF Of, All
  <2> QED BY <1>1, FS_Surjection
<1>3. ASSUME NEW T \in All PROVE IsFiniteSet(T)
  <2>1. PICK r \in S : T = {r} \X (1 .. charge[r])
    OBVIOUS
  <2>2. IsFiniteSet({r}) /\ IsFiniteSet(1 .. charge[r])
    <3>1. charge[r] \in Int /\ 1 \in Int
      OBVIOUS
    <3> QED BY <3>1, FS_Singleton, FS_Interval
  <2> QED BY <2>1, <2>2, FS_Product
<1>4. IsFiniteSet(UNION All)
  <2> HIDE DEF All
  <2> QED BY <1>2, <1>3, FS_UNION
<1>5. UNION All = Cents(charge, S)
  BY DEF Cents
<1> QED BY <1>4, <1>5, FS_CardinalityType

LEMMA CentsAgree ==
  ASSUME NEW S, NEW old, NEW new, \A r \in S : old[r] = new[r]
  PROVE  Cents(old, S) = Cents(new, S)
BY DEF Cents

LEMMA OneChargeMoves ==
  ASSUME NEW S, IsFiniteSet(S), NEW r \in S, NEW old, NEW new,
         \A q \in S : old[q] \in Nat /\ new[q] \in Nat,
         \A q \in S : q # r => new[q] = old[q]
  PROVE  Cardinality(Cents(new, S)) = Cardinality(Cents(old, S)) + new[r] - old[r]
<1> DEFINE Rest == Cents(old, S \ {r})
           Own(charge) == {r} \X (1 .. charge[r])
<1>1. IsFiniteSet(Rest) /\ Cardinality(Rest) \in Nat
  <2>1. IsFiniteSet(S \ {r})
    BY FS_RemoveElement
  <2> QED BY <2>1, CentsFinite
<1>2. ASSUME NEW charge, charge[r] \in Nat, \A q \in S : q # r => charge[q] = old[q]
      PROVE  Cardinality(Cents(charge, S)) = Cardinality(Rest) + charge[r]
  <2>1. Cents(charge, S \ {r}) = Rest
    BY <1>2, CentsAgree
  <2>2. Cents(charge, S) = Cents(charge, S \ {r}) \cup Own(charge)
    BY DEF Cents
  <2>3. Cents(charge, S) = Rest \cup Own(charge)
    BY <2>1, <2>2
  <2>4. Rest \cap Own(charge) = {}
    BY DEF Cents
  <2>5. IsFiniteSet(Own(charge)) /\ Cardinality(Own(charge)) = charge[r]
    <3>1. IsFiniteSet({r}) /\ Cardinality({r}) = 1
      BY FS_Singleton
    <3>2. IsFiniteSet(1 .. charge[r]) /\ Cardinality(1 .. charge[r]) = charge[r]
      <4>1. charge[r] \in Int /\ 1 \in Int /\ (1 > charge[r] => charge[r] = 0)
        BY <1>2
      <4>2. /\ IsFiniteSet(1 .. charge[r])
            /\ Cardinality(1 .. charge[r]) = IF 1 > charge[r] THEN 0 ELSE charge[r] - 1 + 1
        BY <4>1, FS_Interval
      <4> QED BY <4>1, <4>2
    <3>3. 1 * charge[r] = charge[r]
      BY <1>2
    <3>4. /\ IsFiniteSet({r} \X (1 .. charge[r]))
          /\ Cardinality({r} \X (1 .. charge[r]))
               = Cardinality({r}) * Cardinality(1 .. charge[r])
      BY <3>1, <3>2, FS_Product, ZenonT(30)
    <3>5. Cardinality({r}) * Cardinality(1 .. charge[r]) = charge[r]
      BY <3>1, <3>2, <3>3
    <3> QED BY <3>4, <3>5
  <2> HIDE DEF Rest, Own
  <2>6. Cardinality(Rest \cup Own(charge)) = Cardinality(Rest) + charge[r] - 0
    BY <1>1, <2>4, <2>5, FS_Union, FS_EmptySet
  <2> QED BY <1>1, <1>2, <2>3, <2>6
<1> HIDE DEF Rest, Own
<1>3. /\ Cardinality(Cents(old, S)) = Cardinality(Rest) + old[r]
      /\ Cardinality(Cents(new, S)) = Cardinality(Rest) + new[r]
  BY <1>2
<1> QED BY <1>1, <1>3

Charge == [r \in Requests |-> req[r].actual]

LEMMA ChargedAreCents ==
  /\ ChargedCents = Cents(Charge, Requests \ orphans)
  /\ ChargedCents' = Cents(Charge', Requests \ orphans')
BY DEF ChargedCents, Charge, Cents

LEMMA ChargedNumber ==
  ASSUME RedisType
  PROVE  Cardinality(ChargedCents) \in Nat
<1>1. \A r \in Requests \ orphans : Charge[r] \in Nat
  BY DEF RedisType, Charge
<1>2. IsFiniteSet(Requests \ orphans)
  BY RequestsFinite, FS_Difference
<1> QED BY <1>1, <1>2, CentsFinite, ChargedAreCents

(***************************************************************************)
(* The scripts.                                                            *)
(***************************************************************************)
LEMMA UnchangedQuota ==
  ASSUME QuotaInv, RedisUnchanged
  PROVE  QuotaInv'
BY DEF QuotaInv, RedisUnchanged, UntouchedLease, RedisType, RecordsHaveALease,
       OrphansHaveARecord, StraysSettled, NoStraysWithoutALease, RecordShape,
       ChargeIsLatestReport, ReservedExact, Counted, SpentExact, ChargedCents

\* HINCRBY keeps the shape of the hash and moves the counters of a hash that is there.
LEMMA TouchFrame ==
  ASSUME QuotaInv, NEW r \in Requests, NEW dReserved \in Int, NEW dSpent \in Int,
         Touch(r, dReserved, dSpent)
  PROVE  /\ lease' \in LeaseType
         /\ lease'.exists = lease.exists /\ lease'.allocated = lease.allocated
         /\ lease.exists => lease'.reserved = lease.reserved + dReserved
         /\ lease.exists => lease'.spent = lease.spent + dSpent
         /\ drift' \in Int
         /\ drift' = IF lease.exists /\ r \in orphans THEN drift + dSpent ELSE drift
         /\ strays' = IF lease.exists /\ r \in orphans /\ dReserved < 0
                      THEN strays \cup {r} ELSE strays
         /\ strays' \in SUBSET orphans
         /\ base' = base /\ orphans' = orphans
<1>1. CASE lease.exists
  <2>1. lease' = [exists |-> TRUE, expired |-> lease.expired,
                  allocated |-> lease.allocated,
                  reserved |-> lease.reserved + dReserved, spent |-> lease.spent + dSpent]
    BY <1>1 DEF Touch, LeaseAfter
  <2> QED BY <1>1, <2>1 DEF QuotaInv, RedisType, LeaseType, Touch
<1>2. CASE ~lease.exists
  <2>1. lease' = lease
    BY <1>2 DEF Touch, LeaseAfter
  <2> QED BY <1>2, <2>1 DEF QuotaInv, RedisType, LeaseType, Touch
<1> QED BY <1>1, <1>2

\* The spent counter moves by as much as the charge of the request does, or drifts.
LEMMA SpentKept ==
  ASSUME QuotaInv, NEW r \in Requests, NEW dReserved \in Int,
         req' \in [Requests -> [status : Statuses, actual : Nat, corrected : CentsOrNone]],
         \A q \in Requests : q # r => req'[q] = req[q],
         Touch(r, dReserved, req'[r].actual - req[r].actual)
  PROVE  SpentExact'
<1> DEFINE d == req'[r].actual - req[r].actual
<1>0. req \in [Requests -> [status : Statuses, actual : Nat, corrected : CentsOrNone]]
  BY DEF QuotaInv, RedisType
<1>1. d \in Int
  BY <1>0
<1>2. Touch(r, dReserved, d)
  OBVIOUS
<1>3. /\ lease'.exists = lease.exists /\ base' = base /\ orphans' = orphans
      /\ lease.exists => lease'.spent = lease.spent + d
      /\ drift' = IF lease.exists /\ r \in orphans THEN drift + d ELSE drift
  <2> HIDE DEF d
  <2> QED BY <1>1, <1>2, TouchFrame
<1>4. /\ Charge \in [Requests -> Nat] /\ Charge' \in [Requests -> Nat]
      /\ \A q \in Requests : q # r => Charge'[q] = Charge[q]
      /\ Charge'[r] = req'[r].actual /\ Charge[r] = req[r].actual
  BY <1>0 DEF Charge
<1>5. Cardinality(ChargedCents')
        = Cardinality(ChargedCents) + IF r \in orphans THEN 0 ELSE d
  <2>1. /\ ChargedCents = Cents(Charge, Requests \ orphans)
        /\ ChargedCents' = Cents(Charge', Requests \ orphans)
    BY <1>3, ChargedAreCents
  <2>2. IsFiniteSet(Requests \ orphans)
    BY RequestsFinite, FS_Difference
  <2>3. Cardinality(ChargedCents) \in Nat
    BY ChargedNumber DEF QuotaInv
  <2>4. CASE r \in orphans
    <3>1. Cents(Charge, Requests \ orphans) = Cents(Charge', Requests \ orphans)
      BY <1>4, <2>4, CentsAgree
    <3> QED BY <2>1, <2>3, <2>4, <3>1
  <2>5. CASE r \notin orphans
    <3>1. Cardinality(ChargedCents')
            = Cardinality(ChargedCents) + Charge'[r] - Charge[r]
      <4> HIDE DEF d
      <4>1. /\ r \in Requests \ orphans
            /\ \A q \in Requests \ orphans : Charge[q] \in Nat /\ Charge'[q] \in Nat
            /\ \A q \in Requests \ orphans : q # r => Charge'[q] = Charge[q]
        BY <1>4, <2>5
      <4> DEFINE S == Requests \ orphans
                 old == Charge
                 new == Charge'
      <4>2. Cardinality(Cents(new, S)) = Cardinality(Cents(old, S)) + new[r] - old[r]
        <5>1. /\ r \in S /\ IsFiniteSet(S) /\ \A q \in S : old[q] \in Nat /\ new[q] \in Nat
              /\ \A q \in S : q # r => new[q] = old[q]
          BY <2>2, <4>1
        <5> HIDE DEF S, old, new
        <5> QED BY <5>1, OneChargeMoves, ZenonT(30)
      <4> QED BY <2>1, <4>2
    <3> QED BY <1>0, <1>4, <2>3, <2>5, <3>1
  <2> QED BY <2>4, <2>5
<1>6. CASE lease.exists
  <2> HIDE DEF d
  <2>1. /\ lease.spent = base.spent + drift + Cardinality(ChargedCents)
        /\ Cardinality(ChargedCents) \in Nat /\ base.spent \in Nat /\ drift \in Int
    BY <1>6, ChargedNumber DEF QuotaInv, SpentExact, RedisType
  <2>2. lease'.spent = base.spent + drift' + Cardinality(ChargedCents')
    BY <1>1, <1>3, <1>5, <1>6, <2>1
  <2> QED BY <1>3, <2>2 DEF SpentExact
<1> QED BY <1>3, <1>6 DEF SpentExact

LEMMA ReserveQuota ==
  ASSUME QuotaInv, NEW r \in Requests, req[r].status \in {"none", "reserved"},
         ReserveScript(r)
  PROVE  QuotaInv'
<1>1. CASE ~ReserveTakes(r)
  <2>1. RedisUnchanged
    BY <1>1 DEF ReserveScript, RedisUnchanged
  <2> QED BY <2>1, UnchangedQuota
<1>2. CASE ReserveTakes(r)
  <2>1. /\ req[r].status = "none" /\ lease.exists
        /\ req' = [req EXCEPT ![r] = Record("reserved", 0, NoCents)]
        /\ Touch(r, EstimateCents, 0)
        /\ UNCHANGED latest
    BY <1>2 DEF ReserveTakes, ReserveScript, Write, RecordExists, LeaseUsable
  <2>2. r \notin orphans
    BY <2>1 DEF QuotaInv, OrphansHaveARecord
  <2>3. /\ lease' = [exists |-> TRUE, expired |-> lease.expired,
                    allocated |-> lease.allocated,
                    reserved |-> lease.reserved + 1, spent |-> lease.spent + 0]
        /\ UNCHANGED <<base, orphans, strays, drift>>
    BY <2>1, <2>2 DEF Touch, LeaseAfter, EstimateCents
  <2>4. RedisType'
    <3>1. Record("reserved", 0, NoCents)
            \in [status : Statuses, actual : Nat, corrected : CentsOrNone]
      BY DEF Record, Statuses, CentsOrNone
    <3>2. req' \in [Requests -> [status : Statuses, actual : Nat, corrected : CentsOrNone]]
      BY <2>1, <3>1 DEF QuotaInv, RedisType
    <3>3. lease' \in LeaseType
      BY <2>3 DEF QuotaInv, RedisType, LeaseType
    <3> QED BY <2>1, <2>3, <3>2, <3>3 DEF QuotaInv, RedisType
  <2>5. lease'.exists /\ lease'.reserved = lease.reserved + 1
    BY <2>1, <2>3 DEF QuotaInv, RedisType, LeaseType
  <2>6. \A q \in Requests : q # r => req'[q] = req[q]
    BY <2>1 DEF QuotaInv, RedisType
  <2>7. /\ req'[r].status = "reserved" /\ req'[r].actual = 0
        /\ req'[r].corrected = NoCents
    BY <2>1 DEF QuotaInv, RedisType, Record
  <2>8. RecordsHaveALease' /\ OrphansHaveARecord' /\ NoStraysWithoutALease'
    BY <2>1, <2>2, <2>3, <2>5, <2>6, <2>7
    DEF QuotaInv, RedisType, RecordsHaveALease, OrphansHaveARecord, NoStraysWithoutALease
  <2>9. StraysSettled' /\ RecordShape' /\ ChargeIsLatestReport'
    BY <2>1, <2>2, <2>3, <2>6, <2>7
    DEF QuotaInv, RedisType, StraysSettled, RecordShape, ChargeIsLatestReport
  <2>10. ReservedExact'
    <3>1. Counted' \ orphans' = (Counted \ orphans) \cup {r}
      BY <2>2, <2>3, <2>6, <2>7 DEF Counted
    <3>2. r \notin Counted \ orphans
      BY <2>1 DEF Counted
    <3>3. Cardinality((Counted \ orphans) \cup {r}) = Cardinality(Counted \ orphans) + 1
      BY <3>2, SubsetsFinite, FS_AddElement DEF QuotaInv
    <3>4. lease.reserved = base.reserved + Cardinality(Counted \ orphans)
                           - Cardinality(strays)
      BY <2>1, SubsetsFinite DEF QuotaInv, ReservedExact, EstimateCents
    <3>5. base.reserved \in Nat
      BY DEF QuotaInv, RedisType
    <3>6. /\ Cardinality(Counted \ orphans) \in Nat /\ Cardinality(strays) \in Nat
      BY SubsetsFinite DEF QuotaInv
    <3>7. /\ Cardinality(Counted' \ orphans') = Cardinality(Counted \ orphans) + 1
          /\ Cardinality(strays') = Cardinality(strays)
          /\ base'.reserved = base.reserved
      BY <2>3, <3>1, <3>3
    <3>8. lease'.reserved = base'.reserved + Cardinality(Counted' \ orphans')
                            - Cardinality(strays')
      BY <2>5, <3>4, <3>5, <3>6, <3>7
    <3> QED BY <3>5, <3>6, <3>7, <3>8 DEF ReservedExact, EstimateCents
  <2>11. SpentExact'
    <3>1. req[r].actual = 0
      BY <2>1 DEF QuotaInv, RecordShape
    <3>2. Touch(r, EstimateCents, req'[r].actual - req[r].actual) /\ EstimateCents \in Int
      BY <2>1, <2>7, <3>1 DEF EstimateCents
    <3> QED BY <2>4, <2>6, <3>2, SpentKept DEF RedisType
  <2> QED BY <2>4, <2>8, <2>9, <2>10, <2>11 DEF QuotaInv
<1> QED BY <1>1, <1>2

\* A record rewritten with a well-formed one.
LEMMA WriteFrame ==
  ASSUME QuotaInv, NEW r \in Requests, NEW s \in Statuses, NEW a \in Nat,
         NEW c \in CentsOrNone, Write(r, s, a, c)
  PROVE  /\ req' \in [Requests -> [status : Statuses, actual : Nat, corrected : CentsOrNone]]
         /\ req'[r].status = s /\ req'[r].actual = a /\ req'[r].corrected = c
         /\ \A q \in Requests : q # r => req'[q] = req[q]
<1>1. Record(s, a, c) \in [status : Statuses, actual : Nat, corrected : CentsOrNone]
  BY DEF Record
<1>2. /\ req' \in [Requests -> [status : Statuses, actual : Nat, corrected : CentsOrNone]]
      /\ req'[r] = Record(s, a, c)
      /\ \A q \in Requests : q # r => req'[q] = req[q]
  BY <1>1 DEF Write, QuotaInv, RedisType
<1> QED BY <1>2 DEF Record

\* Both ways of settling a reservation: it leaves the count, or its request joins
\* the strays, and the counter follows.
LEMMA SettleQuota ==
  ASSUME QuotaInv, NEW r \in Requests, req[r].status = "reserved",
         NEW d \in Int, Touch(r, -EstimateCents, d),
         NEW s \in {"committed", "refunded"}, NEW a \in Nat,
         s = "refunded" => a = 0, d = a,
         s = "committed" => a = IF latest[r] = NoCents THEN EstimateCents ELSE latest[r],
         Write(r, s, a, req[r].corrected), UNCHANGED latest
  PROVE  QuotaInv'
<1>1. /\ req' \in [Requests -> [status : Statuses, actual : Nat, corrected : CentsOrNone]]
      /\ req'[r].status = s /\ req'[r].actual = a /\ req'[r].corrected = req[r].corrected
      /\ \A q \in Requests : q # r => req'[q] = req[q]
  <2>1. s \in Statuses /\ req[r].corrected \in CentsOrNone
    BY DEF Statuses, QuotaInv, RedisType
  <2> QED BY <2>1, WriteFrame
<1>2. /\ lease' \in LeaseType
      /\ lease'.exists = lease.exists
      /\ lease.exists => lease'.reserved = lease.reserved - 1
      /\ drift' \in Int /\ (~lease.exists => drift' = drift)
      /\ strays' = IF lease.exists /\ r \in orphans THEN strays \cup {r} ELSE strays
      /\ strays' \in SUBSET orphans
      /\ base' = base /\ orphans' = orphans
  <2>1. -EstimateCents \in Int /\ -EstimateCents < 0
    BY DEF EstimateCents
  <2>2. lease.reserved \in Int
    BY DEF QuotaInv, RedisType, LeaseType
  <2>3. lease.reserved + (-EstimateCents) = lease.reserved - 1
    BY <2>2 DEF EstimateCents
  <2> QED BY <2>1, <2>3, TouchFrame
<1>3. RedisType'
  BY <1>1, <1>2 DEF QuotaInv, RedisType
<1>4. RecordsHaveALease' /\ OrphansHaveARecord' /\ NoStraysWithoutALease'
  BY <1>1, <1>2 DEF QuotaInv, RedisType, RecordsHaveALease, OrphansHaveARecord,
                    NoStraysWithoutALease
<1>5. StraysSettled' /\ RecordShape' /\ ChargeIsLatestReport'
  BY <1>1, <1>2 DEF QuotaInv, RedisType, StraysSettled, RecordShape, ChargeIsLatestReport
<1>6. ReservedExact'
  <2>0. /\ Cardinality(Counted \ orphans) \in Nat /\ Cardinality(strays) \in Nat
        /\ base.reserved \in Nat
        /\ lease.exists => lease.reserved = base.reserved + Cardinality(Counted \ orphans)
                                            - Cardinality(strays)
    <3>1. /\ Cardinality(Counted \ orphans) \in Nat /\ Cardinality(strays) \in Nat
      BY SubsetsFinite DEF QuotaInv
    <3>2. base.reserved \in Nat
      BY DEF QuotaInv, RedisType
    <3> QED BY <3>1, <3>2 DEF QuotaInv, ReservedExact, EstimateCents
  <2>1. CASE ~lease.exists
    BY <1>2, <2>1 DEF ReservedExact
  <2>2. CASE lease.exists /\ r \in orphans
    <3>1. Counted' \ orphans' = Counted \ orphans
      BY <1>1, <1>2, <2>2 DEF Counted
    <3>2. Cardinality(strays \cup {r}) = Cardinality(strays) + 1
      <4>1. r \notin strays
        BY DEF QuotaInv, StraysSettled
      <4> QED BY <4>1, SubsetsFinite, FS_AddElement DEF QuotaInv
    <3>3. lease'.reserved = lease.reserved - 1 /\ strays' = strays \cup {r}
      BY <1>2, <2>2
    <3>4. /\ Cardinality(Counted' \ orphans') = Cardinality(Counted \ orphans)
          /\ Cardinality(strays') = Cardinality(strays) + 1
          /\ base'.reserved = base.reserved
      BY <1>2, <3>1, <3>2, <3>3
    <3>5. lease'.reserved = base'.reserved + Cardinality(Counted' \ orphans')
                            - Cardinality(strays')
      BY <2>0, <2>2, <3>3, <3>4
    <3> QED BY <2>0, <3>4, <3>5 DEF ReservedExact, EstimateCents
  <2>3. CASE lease.exists /\ r \notin orphans
    <3>1. Counted' \ orphans' = (Counted \ orphans) \ {r}
      BY <1>1, <1>2, <2>3 DEF Counted
    <3>2. Cardinality((Counted \ orphans) \ {r}) = Cardinality(Counted \ orphans) - 1
      <4>1. r \in Counted \ orphans
        BY <2>3 DEF Counted
      <4> QED BY <4>1, SubsetsFinite, FS_RemoveElement DEF QuotaInv
    <3>3. lease'.reserved = lease.reserved - 1 /\ strays' = strays
      BY <1>2, <2>3
    <3>4. /\ Cardinality(Counted' \ orphans') = Cardinality(Counted \ orphans) - 1
          /\ Cardinality(strays') = Cardinality(strays)
          /\ base'.reserved = base.reserved
      BY <1>2, <3>1, <3>2, <3>3
    <3>5. lease'.reserved = base'.reserved + Cardinality(Counted' \ orphans')
                            - Cardinality(strays')
      BY <2>0, <2>3, <3>3, <3>4
    <3> QED BY <2>0, <3>4, <3>5 DEF ReservedExact, EstimateCents
  <2> QED BY <2>1, <2>2, <2>3
<1>7. SpentExact'
  <2>1. req[r].actual = 0 /\ -EstimateCents \in Int
    BY DEF QuotaInv, RecordShape, EstimateCents
  <2>2. req'[r].actual - req[r].actual = d
    BY <1>1, <2>1
  <2>3. Touch(r, -EstimateCents, req'[r].actual - req[r].actual)
    BY <2>2
  <2> QED BY <1>1, <2>1, <2>3, SpentKept
<1> QED BY <1>3, <1>4, <1>5, <1>6, <1>7 DEF QuotaInv

LEMMA CommitQuota ==
  ASSUME QuotaInv, NEW r \in Requests, CommitScript(r, EstimateCents)
  PROVE  QuotaInv'
<1>1. CASE req[r].status = "reserved"
  <2>1. /\ Touch(r, -EstimateCents, CommitAmount(r, EstimateCents))
        /\ Write(r, "committed", CommitAmount(r, EstimateCents), req[r].corrected)
        /\ UNCHANGED latest
    BY <1>1 DEF CommitScript, CommitOpen
  <2>2. /\ CommitAmount(r, EstimateCents) \in Nat
        /\ CommitAmount(r, EstimateCents)
             = IF latest[r] = NoCents THEN EstimateCents ELSE latest[r]
    BY <1>1 DEF CommitAmount, QuotaInv, RedisType, RecordShape, CentsOrNone,
                EstimateCents, NoCents
  <2> QED BY <1>1, <2>1, <2>2, SettleQuota
<1>2. CASE req[r].status # "reserved"
  BY <1>2, UnchangedQuota DEF CommitScript, CommitOpen, RedisUnchanged
<1> QED BY <1>1, <1>2

LEMMA RefundQuota ==
  ASSUME QuotaInv, NEW r \in Requests, RefundScript(r)
  PROVE  QuotaInv'
<1>1. CASE req[r].status = "reserved"
  <2>1. /\ Touch(r, -EstimateCents, 0)
        /\ Write(r, "refunded", req[r].actual, req[r].corrected)
        /\ UNCHANGED latest
    BY <1>1 DEF RefundScript, RefundOpen
  <2>2. req[r].actual = 0
    BY <1>1 DEF QuotaInv, RecordShape
  <2> QED BY <1>1, <2>1, <2>2, SettleQuota
<1>2. CASE req[r].status # "reserved"
  BY <1>2, UnchangedQuota DEF RefundScript, RefundOpen, RedisUnchanged
<1> QED BY <1>1, <1>2

\* A record rewritten without settling it: the same requests are counted, and the
\* reserved counter stays where it was.
LEMMA RewriteQuota ==
  ASSUME QuotaInv, NEW r \in Requests, req[r].status # "none",
         NEW d \in Int, Touch(r, 0, d),
         NEW s \in Statuses, NEW a \in Nat, NEW c \in CentsOrNone, d = a - req[r].actual,
         Write(r, s, a, c), latest' \in [Requests -> CentsOrNone],
         \A q \in Requests : q # r => latest'[q] = latest[q],
         s \in {"reserved", "leaked"} <=> req[r].status \in {"reserved", "leaked"},
         s # "none",
         s \in {"reserved", "refunded"} => a = 0,
         s = "reserved" => c = latest'[r],
         s = "committed" => a = IF latest'[r] = NoCents THEN EstimateCents ELSE latest'[r]
  PROVE  QuotaInv'
<1>1. /\ req' \in [Requests -> [status : Statuses, actual : Nat, corrected : CentsOrNone]]
      /\ req'[r].status = s /\ req'[r].actual = a /\ req'[r].corrected = c
      /\ \A q \in Requests : q # r => req'[q] = req[q]
  BY WriteFrame
<1>2. /\ lease' \in LeaseType
      /\ lease'.exists = lease.exists
      /\ lease.exists => lease'.reserved = lease.reserved
      /\ drift' \in Int /\ (~lease.exists => drift' = drift)
      /\ strays' = strays
      /\ base' = base /\ orphans' = orphans
  <2>1. lease.reserved \in Int /\ 0 \in Int
    BY DEF QuotaInv, RedisType, LeaseType
  <2>2. /\ lease' \in LeaseType /\ lease'.exists = lease.exists
        /\ lease.exists => lease'.reserved = lease.reserved + 0
        /\ drift' \in Int /\ drift' = IF lease.exists /\ r \in orphans THEN drift + d ELSE drift
        /\ strays' = IF lease.exists /\ r \in orphans /\ 0 < 0 THEN strays \cup {r} ELSE strays
        /\ base' = base /\ orphans' = orphans
    BY <2>1, TouchFrame
  <2>3. ~(0 < 0)
    OBVIOUS
  <2> QED BY <2>1, <2>2, <2>3
<1>3. RedisType'
  BY <1>1, <1>2 DEF QuotaInv, RedisType
<1>4. RecordsHaveALease' /\ OrphansHaveARecord' /\ NoStraysWithoutALease'
  BY <1>1, <1>2 DEF QuotaInv, RedisType, RecordsHaveALease, OrphansHaveARecord,
                    NoStraysWithoutALease
<1>5. StraysSettled'
  BY <1>1, <1>2 DEF QuotaInv, RedisType, StraysSettled, Statuses
<1>6. RecordShape' /\ ChargeIsLatestReport'
  BY <1>1, <1>2 DEF QuotaInv, RedisType, RecordShape, ChargeIsLatestReport
<1>7. ReservedExact'
  <2>1. Counted' = Counted
    BY <1>1 DEF Counted
  <2> QED BY <1>2, <2>1 DEF QuotaInv, ReservedExact
<1>8. SpentExact'
  <2>1. Touch(r, 0, req'[r].actual - req[r].actual)
    BY <1>1
  <2> QED BY <1>1, <2>1, SpentKept
<1> QED BY <1>3, <1>4, <1>5, <1>6, <1>7, <1>8 DEF QuotaInv

LEMMA AdjustQuota ==
  ASSUME QuotaInv, NEW r \in Requests, NEW cents \in Nat, AdjustCommittedScript(r, cents)
  PROVE  QuotaInv'
<1>0. /\ cents \in CentsOrNone /\ cents # NoCents
      /\ req[r].corrected \in CentsOrNone /\ req[r].actual \in Nat
      /\ latest \in [Requests -> CentsOrNone]
  BY DEF CentsOrNone, NoCents, QuotaInv, RedisType
<1>1. CASE req[r].status = "reserved"
  <2>1. /\ UntouchedLease
        /\ Write(r, "reserved", req[r].actual, cents)
        /\ latest' = [latest EXCEPT ![r] = cents]
    BY <1>1 DEF AdjustCommittedScript, AdjustOpen
  <2>2. Touch(r, 0, 0)
    <3>1. lease' = lease /\ LeaseAfter(0, 0) = lease
      BY <2>1 DEF UntouchedLease, LeaseAfter, QuotaInv, RedisType, LeaseType
    <3>2. drift + 0 = drift
      BY DEF QuotaInv, RedisType
    <3> QED BY <2>1, <3>1, <3>2 DEF UntouchedLease, Touch
  <2>3. req[r].actual = 0
    BY <1>1 DEF QuotaInv, RecordShape
  <2>4. /\ latest'[r] = cents /\ latest' \in [Requests -> CentsOrNone]
        /\ \A q \in Requests : q # r => latest'[q] = latest[q]
    BY <1>0, <2>1
  <2>5. "reserved" \in Statuses
    BY DEF Statuses
  <2>6. 0 = req[r].actual - req[r].actual
    BY <2>3
  <2> QED BY <1>0, <1>1, <2>1, <2>2, <2>3, <2>4, <2>5, <2>6, RewriteQuota
<1>2. CASE req[r].status = "committed"
  <2>1. /\ Touch(r, 0, AdjustDelta(r, cents))
        /\ Write(r, "committed", cents, req[r].corrected)
        /\ latest' = [latest EXCEPT ![r] = cents]
    BY <1>2 DEF AdjustCommittedScript, AdjustOpen
  <2>2. AdjustDelta(r, cents) \in Int /\ AdjustDelta(r, cents) = cents - req[r].actual
    BY <1>0 DEF AdjustDelta
  <2>3. /\ latest'[r] = cents /\ latest' \in [Requests -> CentsOrNone]
        /\ \A q \in Requests : q # r => latest'[q] = latest[q]
    BY <1>0, <2>1
  <2>4. "committed" \in Statuses
    BY DEF Statuses
  <2> QED BY <1>0, <1>2, <2>1, <2>2, <2>3, <2>4, RewriteQuota
<1>3. CASE req[r].status \notin {"reserved", "committed"}
  <2>1. RedisUnchanged
    BY <1>3 DEF AdjustCommittedScript, AdjustOpen, RedisUnchanged
  <2> QED BY <2>1, UnchangedQuota
<1> QED BY <1>1, <1>2, <1>3

LEMMA EnsureQuota ==
  ASSUME QuotaInv, NEW g \in OfferType, NEW e \in BOOLEAN, EnsureScript(g, e)
  PROVE  QuotaInv'
<1>1. /\ lease' = LeaseFrom(g, e) /\ lease'.exists
      /\ UNCHANGED <<req, orphans, strays, drift, latest>>
  BY DEF EnsureScript, LeaseFrom
<1>2. lease' \in LeaseType /\ base' \in [reserved : Nat, spent : Nat]
  BY DEF EnsureScript, LeaseFrom, QuotaInv, RedisType, LeaseType, OfferType
<1>3. RedisType' /\ RecordsHaveALease' /\ OrphansHaveARecord' /\ StraysSettled'
      /\ NoStraysWithoutALease' /\ RecordShape' /\ ChargeIsLatestReport'
  BY <1>1, <1>2 DEF QuotaInv, RedisType, RecordsHaveALease, OrphansHaveARecord,
     StraysSettled, NoStraysWithoutALease, RecordShape, ChargeIsLatestReport
<1>4. ReservedExact'
  <2>1. CASE lease.exists
    <3>1. lease'.reserved = lease.reserved /\ base' = base
      BY <2>1 DEF EnsureScript, LeaseFrom
    <3>2. Counted' \ orphans' = Counted \ orphans /\ strays' = strays
      BY <1>1 DEF Counted
    <3> QED BY <2>1, <3>1, <3>2 DEF QuotaInv, ReservedExact
  <2>2. CASE ~lease.exists
    <3>1. lease'.reserved = base'.reserved /\ base'.reserved \in Nat
      BY <2>2 DEF EnsureScript, LeaseFrom, OfferType
    <3>2. Counted' \ orphans' = {} /\ strays' = {}
      BY <1>1, <2>2 DEF Counted, QuotaInv, RecordsHaveALease, NoStraysWithoutALease
    <3>3. Cardinality(Counted' \ orphans') = 0 /\ Cardinality(strays') = 0
      BY <3>2, FS_EmptySet
    <3> QED BY <3>1, <3>3 DEF ReservedExact, EstimateCents
  <2> QED BY <2>1, <2>2
<1>5. SpentExact'
  <2>1. CASE lease.exists
    <3>1. lease'.spent = lease.spent /\ base' = base
      BY <2>1 DEF EnsureScript, LeaseFrom
    <3>2. ChargedCents' = ChargedCents
      BY <1>1 DEF ChargedCents
    <3> QED BY <1>1, <2>1, <3>1, <3>2 DEF QuotaInv, SpentExact
  <2>2. CASE ~lease.exists
    <3>1. lease'.spent = base'.spent /\ base'.spent \in Nat /\ drift' = 0
      BY <1>1, <2>2 DEF EnsureScript, LeaseFrom, OfferType, QuotaInv, NoStraysWithoutALease
    <3>2. \A r \in Requests \ orphans : req[r].actual = 0
      BY <2>2 DEF QuotaInv, RecordsHaveALease, RecordShape
    <3>3. ChargedCents' = {}
      BY <1>1, <3>2 DEF ChargedCents
    <3>4. Cardinality(ChargedCents') = 0
      BY <3>3, FS_EmptySet
    <3> QED BY <3>1, <3>4 DEF SpentExact
  <2> QED BY <2>1, <2>2
<1> QED BY <1>3, <1>4, <1>5 DEF QuotaInv

(***************************************************************************)
(* Time.                                                                   *)
(***************************************************************************)
LEMMA ExpiryQuota ==
  ASSUME QuotaInv, LeaseExpires
  PROVE  QuotaInv'
<1>1. /\ lease' \in LeaseType /\ lease'.exists /\ lease.exists
      /\ lease'.reserved = lease.reserved /\ lease'.spent = lease.spent
      /\ UNCHANGED <<strays, drift, base, orphans, req, latest>>
  BY DEF LeaseExpires, QuotaInv, RedisType, LeaseType
<1>2. Counted' = Counted /\ ChargedCents' = ChargedCents
  BY <1>1 DEF Counted, ChargedCents
<1> QED BY <1>1, <1>2 DEF QuotaInv, RedisType, RecordsHaveALease, OrphansHaveARecord,
     StraysSettled, NoStraysWithoutALease, RecordShape, ChargeIsLatestReport, ReservedExact,
     SpentExact

LEMMA VanishQuota ==
  ASSUME QuotaInv, HashVanishes
  PROVE  QuotaInv'
<1>1. /\ lease' = NoLease /\ strays' = {} /\ drift' = 0
      /\ orphans' = orphans \cup {r \in Requests : req[r].status # "none"}
      /\ UNCHANGED <<base, req, latest>>
  BY DEF HashVanishes
<1>2. lease' \in LeaseType /\ ~lease'.exists
  BY <1>1 DEF NoLease, LeaseType
<1> QED BY <1>1, <1>2 DEF QuotaInv, RedisType, RecordsHaveALease, OrphansHaveARecord,
     StraysSettled, NoStraysWithoutALease, RecordShape, ChargeIsLatestReport, ReservedExact,
     SpentExact

LEMMA RecordExpiryQuota ==
  ASSUME QuotaInv, NEW r \in Requests, RecordExpires(r)
  PROVE  QuotaInv'
<1>1. Touch(r, 0, 0)
  <2>1. lease' = lease /\ LeaseAfter(0, 0) = lease
    BY DEF RecordExpires, UntouchedLease, LeaseAfter, QuotaInv, RedisType, LeaseType
  <2>2. drift + 0 = drift
    BY DEF QuotaInv, RedisType
  <2> QED BY <2>1, <2>2 DEF RecordExpires, UntouchedLease, Touch
<1>2. /\ req[r].actual \in Nat /\ req[r].corrected \in CentsOrNone
      /\ latest' = latest /\ latest \in [Requests -> CentsOrNone]
  BY DEF QuotaInv, RedisType, RecordExpires
<1>0. 0 = req[r].actual - req[r].actual
  BY <1>2
<1>3. CASE req[r].status = "reserved"
  BY <1>0, <1>1, <1>2, <1>3, RewriteQuota DEF RecordExpires, Statuses
<1>4. CASE req[r].status = "committed"
  BY <1>0, <1>1, <1>2, <1>4, RewriteQuota DEF RecordExpires, Statuses
<1> QED BY <1>3, <1>4 DEF RecordExpires

(***************************************************************************)
(* What the scripts do to the statuses the callers depend on.              *)
(***************************************************************************)
LEMMA ReserveStatus ==
  ASSUME QuotaInv, NEW r \in Requests, req[r].status \in {"none", "reserved"},
         ReserveScript(r)
  PROVE  /\ \A q \in Requests : q # r => req'[q] = req[q]
         /\ req'[r].status \in {"none", "reserved"}
         /\ ~ReserveGrants(r) => req'[r].status = "none"
<1>1. CASE ReserveTakes(r)
  BY <1>1 DEF ReserveScript, ReserveTakes, ReserveGrants, Write, Record, QuotaInv, RedisType
<1>2. CASE ~ReserveTakes(r)
  BY <1>2 DEF ReserveScript, ReserveGrants, RecordExists
<1> QED BY <1>1, <1>2

LEMMA SettleStatus ==
  ASSUME QuotaInv, NEW r \in Requests, SettleScript(r)
  PROVE  \A q \in Requests : q # r => req'[q] = req[q]
BY DEF SettleScript, CommitScript, CommitOpen, RefundScript, RefundOpen, Write, QuotaInv, RedisType

LEMMA AdjustStatus ==
  ASSUME QuotaInv, NEW r \in Requests, NEW cents \in Nat, AdjustCommittedScript(r, cents)
  PROVE  \A q \in Requests : req'[q].status = req[q].status
BY DEF AdjustCommittedScript, AdjustOpen, Write, Record, QuotaInv, RedisType

\* Who is calling does not matter to the other requests: a step of r that leaves
\* their records alone keeps CallerInv if r itself ends up where it may be.
LEMMA CallerFrame ==
  ASSUME CallerInv, NEW r \in Requests, NEW to \in Admitting \cup Serving \cup Ended,
         pc' = [pc EXCEPT ![r] = to],
         \A q \in Requests : q # r => req'[q].status = req[q].status,
         to \in {"start", "acquire", "ensure"} => req'[r].status = "none",
         to \in {"fast", "slow"} => req'[r].status \in {"none", "reserved"},
         offer' \in [Requests -> OfferType],
         reports' \subseteq Reports, IsFiniteSet(reports')
  PROVE  CallerInv'
<1>1. pc' \in [Requests -> Admitting \cup Serving \cup Ended]
  BY DEF CallerInv
<1>2. \A q \in Requests :
        /\ pc'[q] \in {"start", "acquire", "ensure"} => req'[q].status = "none"
        /\ pc'[q] \in {"fast", "slow"} => req'[q].status \in {"none", "reserved"}
  BY DEF CallerInv
<1> QED BY <1>1, <1>2 DEF CallerInv

LEMMA RequestStepInv ==
  ASSUME IInv, NEW r \in Requests, RequestStep(r)
  PROVE  IInv'
<1> USE DEF IInv
<1>0. /\ pc \in [Requests -> Admitting \cup Serving \cup Ended]
      /\ offer \in [Requests -> OfferType] /\ NoOffer \in OfferType
      /\ reports \subseteq Reports /\ IsFiniteSet(reports)
      /\ \A q \in Requests : pc' = pc => pc' = [pc EXCEPT ![q] = pc[q]]
  BY DEF CallerInv, NoOffer, OfferType
<1>1. CASE LoadLease(r)
  <2>1. RedisUnchanged /\ req[r].status = "none" /\ req' = req
    BY <1>1 DEF LoadLease, RedisUnchanged, CallerInv
  <2> QED BY <1>0, <1>1, <2>1, UnchangedQuota, CallerFrame
          DEF LoadLease, Goto, Admitting
<1>2. CASE ReserveLocal(r)
  <2>1. req[r].status \in {"none", "reserved"} /\ ReserveScript(r)
    BY <1>2 DEF ReserveLocal, CallerInv
  <2>2. CASE ReserveGrants(r)
    BY <1>0, <1>2, <2>1, <2>2, ReserveQuota, ReserveStatus, CallerFrame
    DEF ReserveLocal, Goto, Serving
  <2>3. CASE ~ReserveGrants(r)
    BY <1>0, <1>2, <2>1, <2>3, ReserveQuota, ReserveStatus, CallerFrame
    DEF ReserveLocal, Goto, Admitting
  <2> QED BY <2>2, <2>3
<1>3. CASE AcquireOrRebalanceLease(r)
  <2>1. RedisUnchanged /\ req[r].status = "none" /\ req' = req
    BY <1>3 DEF AcquireOrRebalanceLease, RedisUnchanged, CallerInv
  <2>2. offer' \in [Requests -> OfferType]
    BY <1>0, <1>3, GrantsType DEF AcquireOrRebalanceLease, OfferType
  <2> QED BY <1>0, <1>3, <2>1, <2>2, UnchangedQuota, CallerFrame
          DEF AcquireOrRebalanceLease, Goto, Admitting
<1>4. CASE EnsureLease(r)
  <2>1. QuotaInv' /\ req' = req /\ req[r].status = "none"
    BY <1>0, <1>4, EnsureQuota DEF EnsureLease, EnsureScript, CallerInv
  <2> QED BY <1>0, <1>4, <2>1, CallerFrame DEF EnsureLease, Goto, Admitting
<1>5. CASE ReserveLeased(r)
  <2>1. req[r].status \in {"none", "reserved"} /\ ReserveScript(r)
    BY <1>5 DEF ReserveLeased, CallerInv
  <2> QED BY <1>0, <1>5, <2>1, ReserveQuota, ReserveStatus, CallerFrame
          DEF ReserveLeased, Goto, Serving, Ended
<1>6. CASE Refuse(r)
  BY <1>0, <1>6, UnchangedQuota, CallerFrame DEF Refuse, RedisUnchanged, Goto, Ended
<1>7. CASE SubmitCorrection(r)
  <2>1. Cardinality(CorrectionsOf(r)) \in Nat
    BY <1>0, FS_Subset, FS_CardinalityType DEF CorrectionsOf
  <2>2. PICK c \in Costs :
          reports' = reports \cup
            {[req |-> r, turn |-> Cardinality(CorrectionsOf(r)) + 1,
              cents |-> c, stage |-> "adjust"]}
    BY <1>7 DEF SubmitCorrection
  <2>3. c \in Nat /\ Cardinality(CorrectionsOf(r)) + 1 \in Turns
    BY <1>7, <2>1, CostsNat, MaxTurnsNat DEF SubmitCorrection, Turns
  <2>4. reports' \subseteq Reports
    BY <1>0, <2>2, <2>3 DEF Reports, Stages
  <2>5. IsFiniteSet(reports')
    BY <1>0, <2>2, FS_AddElement
  <2> QED BY <1>0, <1>7, <2>4, <2>5, UnchangedQuota, CallerFrame
          DEF SubmitCorrection, RedisUnchanged, Serving
<1>8. CASE HandlerReturns(r)
  BY <1>0, <1>8, UnchangedQuota, CallerFrame
  DEF HandlerReturns, RedisUnchanged, Goto, Serving
<1>9. CASE FinalizeUsage(r)
  <2>1. reports' \subseteq Reports /\ IsFiniteSet(reports')
    <3>1. PlaceholderCents(r) \in Nat /\ 0 \in Turns
      BY MaxTurnsNat DEF PlaceholderCents, EstimateCents, Turns
    <3>2. [req |-> r, turn |-> 0, cents |-> PlaceholderCents(r), stage |-> "adjust"]
            \in Reports
      BY <3>1 DEF Reports, Stages
    <3> QED BY <1>0, <1>9, <3>2, FS_AddElement DEF FinalizeUsage
  <2>2. QuotaInv' /\ \A q \in Requests : q # r => req'[q] = req[q]
    <3>1. CASE SettleScript(r)
      BY <3>1, CommitQuota, RefundQuota, SettleStatus DEF SettleScript
    <3>2. CASE RedisUnchanged
      BY <3>2, UnchangedQuota DEF RedisUnchanged
    <3> QED BY <1>9, <3>1, <3>2 DEF FinalizeUsage
  <2> QED BY <1>0, <1>9, <2>1, <2>2, CallerFrame DEF FinalizeUsage, Goto, Ended
<1>10. CASE Lost(r)
  BY <1>0, <1>10, UnchangedQuota, CallerFrame DEF Lost, RedisUnchanged, Goto, Ended
<1>11. CASE ReserveResent(r)
  <2>1. req[r].status \in {"none", "reserved"} /\ ReserveScript(r)
    BY <1>11 DEF ReserveResent, CallerInv
  <2> QED BY <1>0, <1>11, <2>1, ReserveQuota, ReserveStatus, CallerFrame
          DEF ReserveResent, Admitting
<1>12. CASE EnsureResent(r)
  <2>1. QuotaInv' /\ req' = req /\ req[r].status = "none"
    BY <1>0, <1>12, EnsureQuota DEF EnsureResent, EnsureScript, CallerInv
  <2> QED BY <1>0, <1>12, <2>1, CallerFrame DEF EnsureResent, Admitting
<1>13. CASE SettleResent(r)
  <2>1. QuotaInv' /\ \A q \in Requests : q # r => req'[q] = req[q]
    BY <1>13, CommitQuota, RefundQuota, SettleStatus DEF SettleResent, SettleScript
  <2>2. pc[r] \in {"commit", "refund"}
    BY <1>13 DEF SettleResent, SettleScript
  <2> QED BY <1>0, <1>13, <2>1, <2>2, CallerFrame DEF SettleResent, Serving
<1>14. CASE RecordExpires(r)
  <2>1. /\ QuotaInv' /\ pc[r] \notin {"fast", "slow", "start", "acquire", "ensure"}
        /\ \A q \in Requests : q # r => req'[q] = req[q]
    BY <1>14, RecordExpiryQuota
    DEF RecordExpires, Write, CallerInv, QuotaInv, RedisType
  <2> QED BY <1>0, <1>14, <2>1, CallerFrame DEF RecordExpires
<1> QED BY <1>1, <1>2, <1>3, <1>4, <1>5, <1>6, <1>7, <1>8, <1>9, <1>10, <1>11, <1>12,
           <1>13, <1>14 DEF RequestStep

LEMMA ReportStepInv ==
  ASSUME IInv, NEW x \in reports, ReportStep(x)
  PROVE  IInv'
<1> USE DEF IInv
<1>1. /\ x \in Reports /\ x.req \in Requests /\ x.cents \in Nat
      /\ reports \subseteq Reports /\ IsFiniteSet(reports)
  BY DEF CallerInv, Reports
<1>2. \A to \in Stages : Advance(x, to) => reports' \subseteq Reports /\ IsFiniteSet(reports')
  <2> SUFFICES ASSUME NEW to \in Stages, Advance(x, to)
               PROVE  reports' \subseteq Reports /\ IsFiniteSet(reports')
    OBVIOUS
  <2>1. [x EXCEPT !.stage = to] \in Reports
    BY <1>1 DEF Reports
  <2>2. IsFiniteSet(reports \ {x})
    BY <1>1, FS_RemoveElement
  <2> QED BY <1>1, <2>1, <2>2, FS_AddElement DEF Advance
<1>3. \A to \in {"enqueue", "queued", "dropped"} : to \in Stages
  BY DEF Stages
<1>4. ASSUME AdjustCommittedScript(x.req, x.cents), UNCHANGED <<pc, offer>>,
             reports' \subseteq Reports, IsFiniteSet(reports')
      PROVE  IInv'
  BY <1>1, <1>4, AdjustQuota, AdjustStatus DEF CallerInv
<1>5. ASSUME RedisUnchanged, UNCHANGED <<pc, offer>>,
             reports' \subseteq Reports, IsFiniteSet(reports')
      PROVE  IInv'
  BY <1>5, UnchangedQuota DEF CallerInv, RedisUnchanged
<1>6. CASE AdjustReport(x)
  BY <1>2, <1>3, <1>4, <1>6 DEF AdjustReport
<1>7. CASE EnqueueReport(x)
  BY <1>2, <1>3, <1>5, <1>7 DEF EnqueueReport
<1>8. CASE DropReport(x)
  BY <1>2, <1>3, <1>5, <1>8 DEF DropReport
<1>9. CASE AdjustResent(x)
  BY <1>1, <1>4, <1>9 DEF AdjustResent
<1> QED BY <1>6, <1>7, <1>8, <1>9 DEF ReportStep

(***************************************************************************)
(* The invariant, and what follows from it.                                *)
(***************************************************************************)
LEMMA InitInv == Init => IInv
<1> SUFFICES ASSUME Init PROVE IInv
  OBVIOUS
<1>1. RedisType
  BY DEF Init, RedisType, LeaseType, NoLease, NoRecord, Record, Statuses,
         CentsOrNone, NoCents
<1>2. \A r \in Requests : req[r].status = "none" /\ req[r].actual = 0
                          /\ req[r].corrected = NoCents /\ latest[r] = NoCents
  BY DEF Init, NoRecord, Record
<1>3. ~lease.exists /\ orphans = {} /\ strays = {} /\ drift = 0
  BY DEF Init, NoLease
<1>4. QuotaInv
  BY <1>1, <1>2, <1>3
  DEF QuotaInv, RecordsHaveALease, OrphansHaveARecord, StraysSettled,
      NoStraysWithoutALease, RecordShape, ChargeIsLatestReport, ReservedExact, SpentExact
<1>5. CallerInv
  BY <1>2, FS_EmptySet DEF Init, CallerInv, Admitting, OfferType, NoOffer
<1> QED BY <1>4, <1>5 DEF IInv

LEMMA StepInv == IInv /\ [Next]_vars => IInv'
<1> SUFFICES ASSUME IInv, [Next]_vars PROVE IInv'
  OBVIOUS
<1>1. CASE \E r \in Requests : RequestStep(r)
  BY <1>1, RequestStepInv
<1>2. CASE \E x \in reports : ReportStep(x)
  BY <1>2, ReportStepInv
<1>3. CASE LeaseExpires
  BY <1>3, ExpiryQuota DEF LeaseExpires, IInv, CallerInv
<1>4. CASE HashVanishes
  BY <1>4, VanishQuota DEF HashVanishes, IInv, CallerInv
<1>5. CASE UNCHANGED vars
  BY <1>5, UnchangedQuota
  DEF vars, IInv, CallerInv, RedisUnchanged, UntouchedLease
<1> QED BY <1>1, <1>2, <1>3, <1>4, <1>5 DEF Next

THEOREM Invariance == Spec => []IInv
BY InitInv, StepInv, PTL DEF Spec

(***************************************************************************)
(* Types: in particular no report and no record ever holds a negative      *)
(* charge, and a stray is always an orphan.                                *)
(***************************************************************************)
THEOREM TypeCorrect == Spec => []TypeOK
<1>1. IInv => TypeOK
  BY DEF IInv, QuotaInv, RedisType, CallerInv, TypeOK
<1> QED BY <1>1, Invariance, PTL

(***************************************************************************)
(* The reserved_cents counter is exact for any number of requests, leases, *)
(* resends, lost handlers and expiries.                                    *)
(***************************************************************************)
THEOREM ReservedCounterExact == Spec => []ReservedExact
<1>1. IInv => ReservedExact
  BY DEF IInv, QuotaInv
<1> QED BY <1>1, Invariance, PTL

(***************************************************************************)
(* The spent_cents counter is exact too, in any order of commits,          *)
(* corrections and resends.                                                *)
(***************************************************************************)
THEOREM SpentCounterExact == Spec => []SpentExact
<1>1. IInv => SpentExact
  BY DEF IInv, QuotaInv
<1> QED BY <1>1, Invariance, PTL

(***************************************************************************)
(* A committed request costs what the last report to reach Redis said,     *)
(* whether that report came before or after the commit.                    *)
(***************************************************************************)
THEOREM ChargeFollowsReports == Spec => []ChargeIsLatestReport
<1>1. IInv => ChargeIsLatestReport
  BY DEF IInv, QuotaInv
<1> QED BY <1>1, Invariance, PTL

(***************************************************************************)
(* A refunded request is never charged.                                    *)
(***************************************************************************)
THEOREM RefundsStayFree == Spec => []RefundIsFree
<1>1. IInv => RefundIsFree
  BY DEF IInv, QuotaInv, RecordShape, RefundIsFree
<1> QED BY <1>1, Invariance, PTL

(***************************************************************************)
(* No step of any script or of time reopens a settled record.              *)
(***************************************************************************)
Final(r) ==
  /\ req[r].status \in {"committed", "archived"} =>
       req'[r].status \in {"committed", "archived"}
  /\ req[r].status \in {"refunded", "leaked"} => req'[r].status = req[r].status

LEMMA ScriptsAreFinal ==
  ASSUME QuotaInv, NEW r \in Requests
  PROVE  /\ req[r].status \in {"none", "reserved"} /\ ReserveScript(r)
            => \A q \in Requests : Final(q)
         /\ SettleScript(r) => \A q \in Requests : Final(q)
         /\ \A cents \in Nat :
              AdjustCommittedScript(r, cents) => \A q \in Requests : Final(q)
         /\ RecordExpires(r) => \A q \in Requests : Final(q)
         /\ UNCHANGED req => \A q \in Requests : Final(q)
<1>1. req \in [Requests -> [status : Statuses, actual : Nat, corrected : CentsOrNone]]
  BY DEF QuotaInv, RedisType
<1>2. ASSUME NEW s \in Statuses, NEW a, NEW c, Write(r, s, a, c)
      PROVE  req'[r].status = s /\ \A q \in Requests : q # r => req'[q] = req[q]
  BY <1>1, <1>2 DEF Write, Record
<1>3. UNCHANGED req => \A q \in Requests : Final(q)
  BY DEF Final
<1>4. req[r].status \in {"none", "reserved"} /\ ReserveScript(r)
        => \A q \in Requests : Final(q)
  BY <1>2, <1>3 DEF ReserveScript, Final, Statuses
<1>5. SettleScript(r) => \A q \in Requests : Final(q)
  <2>1. CASE \E cents \in {EstimateCents} : CommitScript(r, cents)
    BY <1>2, <1>3, <2>1 DEF CommitScript, CommitOpen, Final, Statuses
  <2>2. CASE RefundScript(r)
    BY <1>2, <1>3, <2>2 DEF RefundScript, RefundOpen, Final, Statuses
  <2> QED BY <2>1, <2>2 DEF SettleScript
<1>6. ASSUME NEW cents \in Nat, AdjustCommittedScript(r, cents)
      PROVE  \A q \in Requests : Final(q)
  BY <1>6, AdjustStatus DEF Final
<1>7. RecordExpires(r) => \A q \in Requests : Final(q)
  <2>1. CASE req[r].status = "reserved"
    BY <1>2, <2>1 DEF RecordExpires, Final, Statuses
  <2>2. CASE req[r].status = "committed"
    BY <1>2, <2>2 DEF RecordExpires, Final, Statuses
  <2> QED BY <2>1, <2>2 DEF RecordExpires
<1> QED BY <1>3, <1>4, <1>5, <1>6, <1>7

LEMMA StepIsFinal == IInv /\ [Next]_vars => \A q \in Requests : Final(q)
<1> SUFFICES ASSUME IInv, [Next]_vars PROVE \A q \in Requests : Final(q)
  OBVIOUS
<1>1. QuotaInv /\ CallerInv
  BY DEF IInv
<1>2. ASSUME NEW r \in Requests, RequestStep(r)
      PROVE  \A q \in Requests : Final(q)
  <2>1. CASE ReserveLocal(r) \/ ReserveLeased(r) \/ ReserveResent(r)
    BY <1>1, <2>1, ScriptsAreFinal
    DEF ReserveLocal, ReserveLeased, ReserveResent, CallerInv
  <2>2. CASE FinalizeUsage(r)
    BY <1>1, <2>2, ScriptsAreFinal DEF FinalizeUsage, RedisUnchanged
  <2>3. CASE SettleResent(r)
    BY <1>1, <2>3, ScriptsAreFinal DEF SettleResent
  <2>4. CASE RecordExpires(r)
    BY <1>1, <2>4, ScriptsAreFinal
  <2>5. CASE EnsureLease(r) \/ EnsureResent(r)
    BY <1>1, <2>5, ScriptsAreFinal DEF EnsureLease, EnsureResent, EnsureScript
  <2>6. CASE \/ LoadLease(r) \/ AcquireOrRebalanceLease(r) \/ Refuse(r)
             \/ SubmitCorrection(r) \/ HandlerReturns(r) \/ Lost(r)
    BY <1>1, <2>6, ScriptsAreFinal
    DEF LoadLease, AcquireOrRebalanceLease, Refuse, SubmitCorrection, HandlerReturns,
        Lost, RedisUnchanged
  <2> QED BY <1>2, <2>1, <2>2, <2>3, <2>4, <2>5, <2>6 DEF RequestStep
<1>3. ASSUME NEW x \in reports, ReportStep(x)
      PROVE  \A q \in Requests : Final(q)
  <2>1. x.req \in Requests /\ x.cents \in Nat
    BY <1>1 DEF CallerInv, Reports
  <2>2. CASE AdjustCommittedScript(x.req, x.cents)
    BY <1>1, <2>1, <2>2, ScriptsAreFinal
  <2>3. CASE UNCHANGED req
    BY <2>3 DEF Final
  <2> QED BY <1>3, <2>2, <2>3
          DEF ReportStep, AdjustReport, AdjustResent, EnqueueReport, DropReport,
              RedisUnchanged
<1>4. CASE LeaseExpires \/ HashVanishes \/ UNCHANGED vars
  BY <1>4 DEF LeaseExpires, HashVanishes, vars, Final
<1> QED BY <1>2, <1>3, <1>4 DEF Next

\* Once a request is settled or its record has expired, nothing reserves, refunds
\* or commits it again: a late or repeated command of any caller is a no-op.
THEOREM SettlementStays == Spec => SettlementIsFinal
<1>1. IInv /\ [Next]_vars => [\A r \in Requests :
       /\ req[r].status \in {"committed", "archived"} =>
            req'[r].status \in {"committed", "archived"}
       /\ req[r].status \in {"refunded", "leaked"} => req'[r].status = req[r].status]_vars
  BY StepIsFinal DEF Final
<1> QED BY <1>1, Invariance, PTL DEF Spec, SettlementIsFinal

(***************************************************************************)
(* The refinement.  When the hash outlives its users, an orphan has no     *)
(* record or nobody who could still touch it, so no cent drifts and both   *)
(* counters say what the ledger's entries say.  Then each script is a step *)
(* of the ledger, or a stutter.                                            *)
(***************************************************************************)
Adjusting(r) == \E x \in reports : x.req = r /\ x.stage = "adjust"
OrphansIdle == \A r \in orphans : RecordExists(r) => pc[r] \in Ended /\ ~Adjusting(r)

LInv == IInv /\ OrphansIdle /\ drift = 0 /\ strays = {}

Budget ==
  IF lease.exists
  THEN [open |-> TRUE, allocated |-> lease.allocated, used |-> base.reserved + base.spent]
  ELSE [open |-> FALSE, allocated |-> 0, used |-> 0]
Entry == [r \in Requests |-> EntryOf(r)]
Charged == [r \in Requests |-> IF r \in orphans THEN 0 ELSE req[r].actual]
Ledger == <<Budget, Entry, Charged>>

EntryIn(status) ==
  IF status = "none" THEN "new" ELSE IF status \in {"reserved", "leaked"} THEN "held"
  ELSE IF status = "refunded" THEN "released" ELSE "charged"

LEMMA EntryByStatus ==
  ASSUME NEW r \in Requests
  PROVE  /\ EntryOf(r) = IF r \in orphans THEN "closed" ELSE EntryIn(req[r].status)
         /\ EntryOf(r)' = IF r \in orphans' THEN "closed" ELSE EntryIn(req'[r].status)
BY DEF EntryOf, EntryIn, Counted

\* Only what the ledger sees matters to it.
LEMMA LedgerStutters ==
  ASSUME lease'.exists = lease.exists, lease'.allocated = lease.allocated,
         base' = base, orphans' = orphans,
         \A r \in Requests : /\ EntryIn(req'[r].status) = EntryIn(req[r].status)
                             /\ req'[r].actual = req[r].actual
  PROVE  UNCHANGED Ledger
<1>1. Budget' = Budget
  BY DEF Budget
<1>2. \A r \in Requests : EntryOf(r)' = EntryOf(r)
  BY EntryByStatus
<1> QED BY <1>1, <1>2 DEF Ledger, Entry, Charged

LEMMA UnchangedLedger == RedisUnchanged => UNCHANGED Ledger
BY LedgerStutters DEF RedisUnchanged, UntouchedLease

\* A script that rewrites the record of a request which is not an orphan.
LEMMA LedgerMoves ==
  ASSUME QuotaInv, NEW r \in Requests, r \notin orphans,
         NEW dReserved \in Int, NEW dSpent \in Int, Touch(r, dReserved, dSpent),
         NEW s \in Statuses, NEW a \in Nat, NEW c \in CentsOrNone, Write(r, s, a, c)
  PROVE  /\ Budget' = Budget
         /\ Entry' = [Entry EXCEPT ![r] = EntryIn(s)] /\ Entry[r] = EntryIn(req[r].status)
         /\ Charged' = [Charged EXCEPT ![r] = a] /\ Charged[r] = req[r].actual
         /\ Charged'[r] = a
<1>1. /\ req' \in [Requests -> [status : Statuses, actual : Nat, corrected : CentsOrNone]]
      /\ req'[r].status = s /\ req'[r].actual = a
      /\ \A q \in Requests : q # r => req'[q] = req[q]
  BY WriteFrame
<1>2. /\ lease'.exists = lease.exists /\ lease'.allocated = lease.allocated
      /\ base' = base /\ orphans' = orphans
  BY TouchFrame
<1>3. Budget' = Budget
  BY <1>2 DEF Budget
<1>4. /\ EntryOf(r)' = EntryIn(s) /\ EntryOf(r) = EntryIn(req[r].status)
      /\ \A q \in Requests : q # r => EntryOf(q)' = EntryOf(q)
  BY <1>1, <1>2, EntryByStatus
<1>5. Entry' = [Entry EXCEPT ![r] = EntryIn(s)] /\ Entry[r] = EntryIn(req[r].status)
  BY <1>4 DEF Entry
<1>6. Charged' = [Charged EXCEPT ![r] = a] /\ Charged[r] = req[r].actual /\ Charged'[r] = a
  BY <1>1, <1>2 DEF Charged
<1> QED BY <1>3, <1>5, <1>6

\* The provers see the ledger's Cardinality as an operator of its own.
LEMMA LedgerCounts == \A S : QL!Cardinality(S) = Cardinality(S)
BY Zenon DEF QL!Cardinality, Cardinality

\* What the hash has left is what the ledger has left.
LEMMA RemainingIsAvailable ==
  ASSUME LInv, lease.exists
  PROVE  QL!Remaining = AvailableCents(lease)
<1>1. QL!Held = Counted \ orphans
  <2>1. \A r \in Requests : EntryOf(r) = "held" <=> r \in Counted \ orphans
    BY EntryByStatus DEF EntryIn, Counted
  <2> QED BY <2>1 DEF QL!Held, Counted
<1>2. QL!Standing = Cardinality(ChargedCents)
  <2>1. UNION {{r} \X (1 .. Charged[r]) : r \in Requests} = ChargedCents
    <3>1. \A r \in orphans : {r} \X (1 .. Charged[r]) = {}
      BY DEF Charged, LInv, IInv, QuotaInv, RedisType
    <3>2. \A r \in Requests \ orphans : Charged[r] = Charge[r]
      BY DEF Charged, Charge
    <3>3. UNION {{r} \X (1 .. Charged[r]) : r \in Requests} = Cents(Charged, Requests \ orphans)
      <4> HIDE DEF Charged
      <4> QED BY <3>1 DEF Cents
    <3> QED BY <3>2, <3>3, CentsAgree, ChargedAreCents
  <2> QED BY <2>1, LedgerCounts DEF QL!Standing, Charged
<1>3. /\ Cardinality(Counted \ orphans) \in Nat /\ Cardinality(ChargedCents) \in Nat
      /\ Cardinality(strays) = 0 /\ drift = 0
  BY SubsetsFinite, ChargedNumber, FS_EmptySet DEF LInv, IInv, QuotaInv
<1>4. /\ lease.allocated \in Nat /\ lease.reserved \in Int /\ lease.spent \in Int
      /\ base.reserved \in Nat /\ base.spent \in Nat
  BY DEF LInv, IInv, QuotaInv, RedisType, LeaseType
<1>5. /\ lease.reserved = base.reserved + Cardinality(Counted \ orphans)
      /\ lease.spent = base.spent + Cardinality(ChargedCents)
  BY <1>3, <1>4 DEF LInv, IInv, QuotaInv, ReservedExact, SpentExact, EstimateCents
<1>6. QL!Remaining = lease.allocated - (base.reserved + base.spent)
                     - Cardinality(Counted \ orphans) - Cardinality(ChargedCents)
  <2>1. Budget.allocated = lease.allocated /\ Budget.used = base.reserved + base.spent
    BY DEF Budget
  <2>2. QL!Remaining = Budget.allocated - Budget.used
                       - EstimateCents * Cardinality(QL!Held) - QL!Standing
    BY LedgerCounts DEF QL!Remaining, Budget
  <2>3. EstimateCents * Cardinality(QL!Held) = Cardinality(Counted \ orphans)
    BY <1>1, <1>3 DEF EstimateCents
  <2> QED BY <1>2, <2>1, <2>2, <2>3
<1> QED BY <1>3, <1>4, <1>5, <1>6 DEF AvailableCents

LStep == QL!Next \/ UNCHANGED Ledger

LEMMA ReserveLedger ==
  ASSUME LInv, NEW r \in Requests, req[r].status \in {"none", "reserved"}, ReserveScript(r)
  PROVE  LStep
<1>1. CASE ~ReserveTakes(r)
  BY <1>1, UnchangedLedger DEF ReserveScript, RedisUnchanged, LStep
<1>2. CASE ReserveTakes(r)
  <2>1. /\ lease.exists /\ AvailableCents(lease) >= EstimateCents
        /\ req[r].status = "none"
        /\ Touch(r, EstimateCents, 0) /\ Write(r, "reserved", 0, NoCents)
    BY <1>2 DEF ReserveTakes, ReserveScript, RecordExists, LeaseUsable, Covered
  <2>2. QuotaInv /\ r \notin orphans /\ req[r].actual = 0
    BY <2>1 DEF LInv, IInv, QuotaInv, OrphansHaveARecord, RecordShape
  <2>3. "reserved" \in Statuses /\ NoCents \in CentsOrNone /\ EstimateCents \in Int
    BY DEF Statuses, CentsOrNone, EstimateCents
  <2>4. /\ Budget' = Budget /\ Entry' = [Entry EXCEPT ![r] = EntryIn("reserved")]
        /\ Entry[r] = EntryIn(req[r].status)
        /\ Charged' = [Charged EXCEPT ![r] = 0] /\ Charged[r] = req[r].actual
    BY <2>1, <2>2, <2>3, LedgerMoves
  <2>5. Entry' = [Entry EXCEPT ![r] = "held"] /\ Entry[r] = "new"
    BY <2>1, <2>4 DEF EntryIn
  <2>6. Charged' = Charged
    BY <2>2, <2>4 DEF Charged
  <2>7. QL!Remaining >= EstimateCents /\ Budget.open
    BY <2>1, RemainingIsAvailable DEF Budget
  <2>8. QL!Admit(r)
    BY <2>4, <2>5, <2>6, <2>7 DEF QL!Admit, Budget, Entry, Charged
  <2> QED BY <2>8 DEF QL!Next, LStep
<1> QED BY <1>1, <1>2

\* Nothing reaches the reservation of an orphan.
Reaches(r) == pc[r] \in {"commit", "refund"} \/ Adjusting(r)
LEMMA OrphansOutOfReach ==
  ASSUME LInv, NEW r \in Requests, Reaches(r), RecordExists(r)
  PROVE  r \notin orphans
BY DEF LInv, OrphansIdle, Reaches, Ended

LEMMA CommitLedger ==
  ASSUME LInv, NEW r \in Requests, Reaches(r), CommitScript(r, EstimateCents)
  PROVE  LStep
<1>1. CASE ~CommitOpen(r)
  BY <1>1, UnchangedLedger DEF CommitScript, RedisUnchanged, LStep
<1>2. CASE CommitOpen(r)
  <2> DEFINE cents == CommitAmount(r, EstimateCents)
  <2>1. /\ Touch(r, -EstimateCents, cents) /\ Write(r, "committed", cents, req[r].corrected)
        /\ req[r].status = "reserved"
    BY <1>2 DEF CommitScript, CommitOpen
  <2>2. /\ cents \in Nat /\ -EstimateCents \in Int /\ req[r].corrected \in CentsOrNone
        /\ "committed" \in Statuses
    BY DEF CommitAmount, LInv, IInv, QuotaInv, RedisType, CentsOrNone, NoCents, EstimateCents,
           Statuses
  <2>3. QuotaInv /\ r \notin orphans
    BY <2>1, OrphansOutOfReach DEF LInv, IInv, RecordExists
  <2> HIDE DEF cents
  <2>4. /\ Budget' = Budget /\ Entry' = [Entry EXCEPT ![r] = EntryIn("committed")]
        /\ Entry[r] = EntryIn(req[r].status)
        /\ Charged' = [Charged EXCEPT ![r] = cents] /\ Charged'[r] = cents
    BY <2>1, <2>2, <2>3, LedgerMoves
  <2>5. Entry' = [Entry EXCEPT ![r] = "charged"] /\ Entry[r] = "held"
    BY <2>1, <2>4 DEF EntryIn
  <2>6. Charged'[r] \in Nat /\ Charged' = [Charged EXCEPT ![r] = Charged'[r]]
    BY <2>2, <2>4
  <2>7. QL!Settle(r)
    BY <2>4, <2>5, <2>6 DEF QL!Settle, Budget, Entry, Charged
  <2> QED BY <2>7 DEF QL!Next, LStep
<1> QED BY <1>1, <1>2

LEMMA RefundLedger ==
  ASSUME LInv, NEW r \in Requests, Reaches(r), RefundScript(r)
  PROVE  LStep
<1>1. CASE ~RefundOpen(r)
  BY <1>1, UnchangedLedger DEF RefundScript, RedisUnchanged, LStep
<1>2. CASE RefundOpen(r)
  <2>1. /\ Touch(r, -EstimateCents, 0)
        /\ Write(r, "refunded", req[r].actual, req[r].corrected)
        /\ req[r].status = "reserved"
    BY <1>2 DEF RefundScript, RefundOpen
  <2>2. /\ req[r].actual \in Nat /\ -EstimateCents \in Int /\ req[r].corrected \in CentsOrNone
        /\ "refunded" \in Statuses
    BY DEF LInv, IInv, QuotaInv, RedisType, EstimateCents, Statuses
  <2>3. QuotaInv /\ r \notin orphans
    BY <2>1, OrphansOutOfReach DEF LInv, IInv, RecordExists
  <2>4. /\ Budget' = Budget /\ Entry' = [Entry EXCEPT ![r] = EntryIn("refunded")]
        /\ Entry[r] = EntryIn(req[r].status)
        /\ Charged' = [Charged EXCEPT ![r] = req[r].actual] /\ Charged[r] = req[r].actual
    BY <2>1, <2>2, <2>3, LedgerMoves
  <2>5. Entry' = [Entry EXCEPT ![r] = "released"] /\ Entry[r] = "held"
    BY <2>1, <2>4 DEF EntryIn
  <2>6. Charged' = Charged
    BY <2>4 DEF Charged
  <2>7. QL!Release(r)
    BY <2>4, <2>5, <2>6 DEF QL!Release, Budget, Entry, Charged
  <2> QED BY <2>7 DEF QL!Next, LStep
<1> QED BY <1>1, <1>2

LEMMA AdjustLedger ==
  ASSUME LInv, NEW r \in Requests, NEW cents \in Nat, Reaches(r),
         AdjustCommittedScript(r, cents)
  PROVE  LStep
<1>0. req \in [Requests -> [status : Statuses, actual : Nat, corrected : CentsOrNone]]
  BY DEF LInv, IInv, QuotaInv, RedisType
<1>1. CASE req[r].status = "reserved"
  <2>1. Write(r, "reserved", req[r].actual, cents) /\ UntouchedLease
    BY <1>1 DEF AdjustCommittedScript, AdjustOpen
  <2>2. \A q \in Requests : req'[q].status = req[q].status /\ req'[q].actual = req[q].actual
    BY <1>0, <1>1, <2>1 DEF Write, Record
  <2> QED BY <2>1, <2>2, LedgerStutters DEF UntouchedLease, LStep
<1>2. CASE req[r].status = "committed"
  <2>1. /\ Touch(r, 0, AdjustDelta(r, cents))
        /\ Write(r, "committed", cents, req[r].corrected)
    BY <1>2 DEF AdjustCommittedScript, AdjustOpen
  <2>2. AdjustDelta(r, cents) \in Int /\ req[r].corrected \in CentsOrNone
        /\ "committed" \in Statuses
    BY <1>0 DEF AdjustDelta, Statuses
  <2>3. QuotaInv /\ r \notin orphans
    BY <1>2, OrphansOutOfReach DEF LInv, IInv, RecordExists
  <2>4. /\ Budget' = Budget /\ Entry' = [Entry EXCEPT ![r] = EntryIn("committed")]
        /\ Entry[r] = EntryIn(req[r].status)
        /\ Charged' = [Charged EXCEPT ![r] = cents] /\ Charged'[r] = cents
    BY <2>1, <2>2, <2>3, LedgerMoves
  <2>5. Entry' = Entry /\ Entry[r] = "charged"
    BY <1>2, <2>4 DEF EntryIn, Entry
  <2>6. Charged'[r] \in Nat /\ Charged' = [Charged EXCEPT ![r] = Charged'[r]]
    BY <2>4
  <2>7. QL!Reprice(r)
    BY <2>4, <2>5, <2>6 DEF QL!Reprice, Budget, Entry, Charged
  <2> QED BY <2>7 DEF QL!Next, LStep
<1>3. CASE req[r].status \notin {"reserved", "committed"}
  BY <1>3, UnchangedLedger DEF AdjustCommittedScript, AdjustOpen, RedisUnchanged, LStep
<1> QED BY <1>1, <1>2, <1>3

LEMMA EnsureLedger ==
  ASSUME LInv, NEW g \in OfferType, NEW e \in BOOLEAN, EnsureScript(g, e)
  PROVE  LStep
<1>1. /\ lease' = LeaseFrom(g, e) /\ lease'.exists /\ lease'.allocated = g.allocated
      /\ UNCHANGED <<req, orphans>>
  BY DEF EnsureScript, LeaseFrom
<1>2. base' \in [reserved : Nat, spent : Nat] /\ (lease.exists => base' = base)
  BY DEF EnsureScript, LInv, IInv, QuotaInv, RedisType, OfferType
<1>3. Entry' = Entry /\ Charged' = Charged
  BY <1>1 DEF Entry, Charged, EntryOf, Counted
<1>4. Budget' = [open |-> TRUE, allocated |-> g.allocated,
                 used |-> base'.reserved + base'.spent]
  BY <1>1 DEF Budget
<1>5. /\ Budget' \in [open : {TRUE}, allocated : Nat, used : Nat]
      /\ Budget.open => Budget'.used = Budget.used
  BY <1>2, <1>4 DEF Budget, OfferType
<1>6. QL!Grant
  BY <1>3, <1>5 DEF QL!Grant, Budget, Entry, Charged
<1> QED BY <1>6 DEF QL!Next, LStep

LEMMA VanishLedger ==
  ASSUME LInv, HashVanishes
  PROVE  LStep
<1>1. /\ lease.exists /\ ~lease'.exists /\ req' = req
      /\ orphans' = orphans \cup {r \in Requests : req[r].status # "none"}
  BY DEF HashVanishes, NoLease
<1>2. Budget.open /\ Budget' = QL!Closed
  BY <1>1 DEF Budget, QL!Closed
<1>3. \A r \in Requests : r \in orphans' <=> req[r].status # "none"
  BY <1>1 DEF LInv, IInv, QuotaInv, OrphansHaveARecord
<1>4. \A r \in Requests : EntryOf(r)' = IF EntryOf(r) = "new" THEN "new" ELSE "closed"
  BY <1>1, <1>3, EntryByStatus DEF EntryIn, LInv, IInv, QuotaInv, OrphansHaveARecord
<1>5. Entry' = [r \in Requests |-> IF Entry[r] = "new" THEN "new" ELSE "closed"]
  BY <1>4 DEF Entry
<1>6. \A r \in Requests : r \notin orphans' => req'[r].actual = 0
  BY <1>1, <1>3 DEF LInv, IInv, QuotaInv, RecordShape
<1>7. Charged' = [r \in Requests |-> 0]
  BY <1>6 DEF Charged
<1>8. QL!Lapse
  BY <1>2, <1>5, <1>7 DEF QL!Lapse, Budget, Entry, Charged
<1> QED BY <1>8 DEF QL!Next, LStep

LEMMA ExpiryLedger ==
  ASSUME LInv, NEW r \in Requests, RecordExpires(r)
  PROVE  LStep
<1>1. req \in [Requests -> [status : Statuses, actual : Nat, corrected : CentsOrNone]]
  BY DEF LInv, IInv, QuotaInv, RedisType
<1>2. \A q \in Requests : /\ EntryIn(req'[q].status) = EntryIn(req[q].status)
                          /\ req'[q].actual = req[q].actual
  BY <1>1 DEF RecordExpires, Write, Record, EntryIn
<1> QED BY <1>2, LedgerStutters DEF RecordExpires, UntouchedLease, LStep

LEMMA RequestStepLedger ==
  ASSUME LInv, NEW r \in Requests, RequestStep(r)
  PROVE  LStep
<1>1. CASE ReserveLocal(r) \/ ReserveLeased(r) \/ ReserveResent(r)
  BY <1>1, ReserveLedger
  DEF ReserveLocal, ReserveLeased, ReserveResent, LInv, IInv, CallerInv
<1>2. CASE EnsureLease(r) \/ EnsureResent(r)
  <2>1. offer[r] \in OfferType
    BY DEF LInv, IInv, CallerInv
  <2> QED BY <1>2, <2>1, EnsureLedger DEF EnsureLease, EnsureResent
<1>3. ASSUME SettleScript(r) PROVE LStep
  BY <1>3, CommitLedger, RefundLedger DEF SettleScript, Reaches
<1>4. CASE FinalizeUsage(r) \/ SettleResent(r)
  BY <1>3, <1>4, UnchangedLedger DEF FinalizeUsage, SettleResent, LStep
<1>5. CASE RecordExpires(r)
  BY <1>5, ExpiryLedger
<1>6. CASE \/ LoadLease(r) \/ AcquireOrRebalanceLease(r) \/ Refuse(r)
           \/ SubmitCorrection(r) \/ HandlerReturns(r) \/ Lost(r)
  BY <1>6, UnchangedLedger
  DEF LoadLease, AcquireOrRebalanceLease, Refuse, SubmitCorrection, HandlerReturns, Lost, LStep
<1> QED BY <1>1, <1>2, <1>4, <1>5, <1>6 DEF RequestStep

LEMMA ReportStepLedger ==
  ASSUME LInv, NEW x \in reports, ReportStep(x)
  PROVE  LStep
<1>1. x.req \in Requests /\ x.cents \in Nat
  BY DEF LInv, IInv, CallerInv, Reports
<1>2. CASE AdjustReport(x) \/ AdjustResent(x)
  <2>1. Reaches(x.req) /\ AdjustCommittedScript(x.req, x.cents)
    BY <1>2 DEF AdjustReport, AdjustResent, Reaches, Adjusting
  <2> QED BY <1>1, <2>1, AdjustLedger
<1>3. CASE EnqueueReport(x) \/ DropReport(x)
  BY <1>3, UnchangedLedger DEF EnqueueReport, DropReport, LStep
<1> QED BY <1>2, <1>3 DEF ReportStep

LEMMA StepLedger == LInv /\ [Next]_vars => LStep
<1> SUFFICES ASSUME LInv, [Next]_vars PROVE LStep
  OBVIOUS
<1>1. CASE LeaseExpires
  BY <1>1, LedgerStutters DEF LeaseExpires, LStep
<1>2. CASE UNCHANGED vars
  BY <1>2, LedgerStutters DEF vars, LStep
<1> QED BY <1>1, <1>2, RequestStepLedger, ReportStepLedger, VanishLedger DEF Next

LEMMA InitLedger == Init => QL!Init
<1> SUFFICES ASSUME Init PROVE QL!Init
  OBVIOUS
<1>1. Budget = QL!Closed
  BY DEF Init, NoLease, Budget, QL!Closed
<1>2. \A r \in Requests : EntryOf(r) = "new" /\ Charged[r] = 0
  BY EntryByStatus DEF Init, NoRecord, Record, EntryIn, Charged
<1>3. Entry = [r \in Requests |-> "new"] /\ Charged = [r \in Requests |-> 0]
  BY <1>2 DEF Entry, Charged
<1> QED BY <1>1, <1>3 DEF QL!Init, Budget, Entry, Charged

(***************************************************************************)
(* Orphans stay out of reach.                                              *)
(***************************************************************************)
\* A script of a request that can reach its record leaves no trace of an orphan.
LEMMA TouchDriftsNot ==
  ASSUME LInv, NEW r \in Requests, r \notin orphans, NEW dReserved, NEW dSpent,
         Touch(r, dReserved, dSpent)
  PROVE  drift' = 0 /\ strays' = {} /\ orphans' = orphans
BY DEF Touch, LInv

Traceless == drift' = 0 /\ strays' = {} /\ orphans' = orphans

LEMMA UnchangedTraceless == LInv /\ UntouchedLease => Traceless
BY DEF UntouchedLease, Traceless, LInv

LEMMA ReserveTraceless ==
  ASSUME LInv, NEW r \in Requests, req[r].status \in {"none", "reserved"}, ReserveScript(r)
  PROVE  /\ Traceless /\ (r \in orphans => req' = req)
         /\ \A q \in Requests : q # r => req'[q] = req[q]
<1>1. \A q \in Requests : q # r => req'[q] = req[q]
  BY ReserveStatus DEF LInv, IInv
<1>2. CASE ReserveTakes(r)
  <2>1. r \notin orphans
    BY <1>2 DEF ReserveTakes, RecordExists, LInv, IInv, QuotaInv, OrphansHaveARecord
  <2> QED BY <1>1, <1>2, <2>1, TouchDriftsNot DEF ReserveScript, Traceless
<1>3. CASE ~ReserveTakes(r)
  BY <1>1, <1>3, UnchangedTraceless DEF ReserveScript
<1> QED BY <1>2, <1>3

LEMMA SettleTraceless ==
  ASSUME LInv, NEW r \in Requests, SettleScript(r)
  PROVE  /\ Traceless /\ (r \in orphans => req' = req)
         /\ \A q \in Requests : q # r => req'[q] = req[q]
<1>1. \A q \in Requests : q # r => req'[q] = req[q]
  BY SettleStatus DEF LInv, IInv
<1>2. CASE req[r].status = "reserved"
  <2>1. r \notin orphans
    BY <1>2, OrphansOutOfReach DEF SettleScript, Reaches, RecordExists
  <2> QED BY <1>1, <1>2, <2>1, TouchDriftsNot
          DEF SettleScript, CommitScript, CommitOpen, RefundScript, RefundOpen, Traceless
<1>3. CASE req[r].status # "reserved"
  BY <1>1, <1>3, UnchangedTraceless
  DEF SettleScript, CommitScript, CommitOpen, RefundScript, RefundOpen
<1> QED BY <1>2, <1>3

LEMMA AdjustTraceless ==
  ASSUME LInv, NEW r \in Requests, NEW cents \in Nat, Adjusting(r),
         AdjustCommittedScript(r, cents)
  PROVE  Traceless /\ \A q \in Requests : req'[q].status = req[q].status
<1>1. \A q \in Requests : req'[q].status = req[q].status
  BY AdjustStatus DEF LInv, IInv
<1>2. CASE req[r].status = "committed"
  <2>1. r \notin orphans
    BY <1>2, OrphansOutOfReach DEF Reaches, RecordExists
  <2> QED BY <1>1, <1>2, <2>1, TouchDriftsNot DEF AdjustCommittedScript, AdjustOpen, Traceless
<1>3. CASE req[r].status # "committed"
  BY <1>1, <1>3, UnchangedTraceless DEF AdjustCommittedScript, AdjustOpen
<1> QED BY <1>2, <1>3

\* A step of one request or report disturbs no orphan.
LEMMA OrphansStayIdle ==
  ASSUME LInv, orphans' = orphans, NEW r \in Requests,
         \A q \in Requests : q # r => req'[q].status = req[q].status /\ pc'[q] = pc[q],
         \A q \in Requests : q # r => (Adjusting(q)' => Adjusting(q)),
         r \in orphans /\ RecordExists(r)' => RecordExists(r),
         pc[r] \in Ended => pc'[r] \in Ended /\ (Adjusting(r)' => Adjusting(r))
  PROVE  OrphansIdle'
<1> SUFFICES ASSUME NEW q \in orphans, RecordExists(q)'
             PROVE  pc'[q] \in Ended /\ ~Adjusting(q)'
  BY DEF OrphansIdle
<1>1. q \in Requests
  BY DEF LInv, IInv, QuotaInv, RedisType
<1>2. CASE q # r
  BY <1>1, <1>2 DEF LInv, OrphansIdle, RecordExists
<1>3. CASE q = r
  BY <1>3 DEF LInv, OrphansIdle
<1> QED BY <1>2, <1>3

LEMMA RequestStepIdle ==
  ASSUME LInv, NEW r \in Requests, RequestStep(r)
  PROVE  Traceless /\ OrphansIdle'
<1>0. /\ req \in [Requests -> [status : Statuses, actual : Nat, corrected : CentsOrNone]]
      /\ pc \in [Requests -> Admitting \cup Serving \cup Ended]
      /\ r \in orphans => req[r].status # "none"
      /\ pc[r] \in {"start", "acquire", "ensure"} => req[r].status = "none"
  BY DEF LInv, IInv, QuotaInv, RedisType, CallerInv, OrphansHaveARecord
<1>1. CASE ReserveLocal(r) \/ ReserveLeased(r) \/ ReserveResent(r)
  <2>1. req[r].status \in {"none", "reserved"} /\ pc[r] \in {"fast", "slow"}
    BY <1>1 DEF ReserveLocal, ReserveLeased, ReserveResent, LInv, IInv, CallerInv
  <2>2. /\ Traceless /\ (r \in orphans => req' = req)
        /\ \A q \in Requests : q # r => req'[q] = req[q]
    BY <1>1, <2>1, ReserveTraceless DEF ReserveLocal, ReserveLeased, ReserveResent
  <2>3. pc[r] \notin Ended /\ reports' = reports /\ \A q \in Requests : q # r => pc'[q] = pc[q]
    BY <1>0, <1>1, <2>1 DEF ReserveLocal, ReserveLeased, ReserveResent, Goto, Ended
  <2>4. OrphansIdle'
    BY <2>2, <2>3, OrphansStayIdle DEF Traceless, Adjusting, RecordExists
  <2> QED BY <2>2, <2>4
<1>2. CASE EnsureLease(r) \/ EnsureResent(r)
  <2>1. UNCHANGED <<req, orphans, strays, drift, reports>> /\ pc[r] = "ensure"
    BY <1>2 DEF EnsureLease, EnsureResent, EnsureScript
  <2>2. pc[r] \notin Ended /\ \A q \in Requests : q # r => pc'[q] = pc[q]
    BY <1>0, <1>2, <2>1 DEF EnsureLease, EnsureResent, Goto, Ended
  <2>3. OrphansIdle'
    BY <2>1, <2>2, OrphansStayIdle DEF Adjusting, RecordExists
  <2> QED BY <2>1, <2>3 DEF Traceless, LInv
<1>3. CASE FinalizeUsage(r) \/ SettleResent(r)
  <2>1. pc[r] \in {"commit", "refund"}
    BY <1>3 DEF FinalizeUsage, SettleResent, SettleScript
  <2>2. /\ Traceless /\ (r \in orphans => req' = req)
        /\ \A q \in Requests : q # r => req'[q] = req[q]
    BY <1>3, SettleTraceless, UnchangedTraceless
    DEF FinalizeUsage, SettleResent, RedisUnchanged
  <2>3. /\ pc[r] \notin Ended
        /\ \A q \in Requests : q # r => pc'[q] = pc[q] /\ (Adjusting(q)' => Adjusting(q))
    BY <1>0, <1>3, <2>1 DEF FinalizeUsage, SettleResent, Goto, Ended, Adjusting
  <2>4. OrphansIdle'
    BY <2>2, <2>3, OrphansStayIdle DEF Traceless, RecordExists
  <2> QED BY <2>2, <2>4
<1>4. CASE RecordExpires(r)
  <2>1. /\ UntouchedLease /\ pc' = pc /\ reports' = reports
        /\ req'[r].status \in {"leaked", "archived"}
        /\ \A q \in Requests : q # r => req'[q] = req[q]
    BY <1>0, <1>4 DEF RecordExpires, Write, Record
  <2>2. OrphansIdle'
    BY <2>1, OrphansStayIdle DEF UntouchedLease, Adjusting, RecordExists
  <2> QED BY <2>1, <2>2, UnchangedTraceless
<1>5. CASE \/ LoadLease(r) \/ AcquireOrRebalanceLease(r) \/ Refuse(r)
           \/ SubmitCorrection(r) \/ HandlerReturns(r) \/ Lost(r)
  <2>1. UntouchedLease /\ req' = req
    BY <1>5 DEF LoadLease, AcquireOrRebalanceLease, Refuse, SubmitCorrection, HandlerReturns,
                Lost, RedisUnchanged
  <2>2. /\ pc[r] \notin Ended
        /\ \A q \in Requests : q # r => pc'[q] = pc[q] /\ (Adjusting(q)' => Adjusting(q))
    BY <1>0, <1>5 DEF LoadLease, AcquireOrRebalanceLease, Refuse, SubmitCorrection,
                      HandlerReturns, Lost, Goto, Ended, Admitting, Serving, Adjusting
  <2>3. OrphansIdle'
    BY <2>1, <2>2, OrphansStayIdle DEF UntouchedLease, RecordExists
  <2> QED BY <2>1, <2>3, UnchangedTraceless
<1> QED BY <1>1, <1>2, <1>3, <1>4, <1>5 DEF RequestStep

LEMMA ReportStepIdle ==
  ASSUME LInv, NEW x \in reports, ReportStep(x)
  PROVE  Traceless /\ OrphansIdle'
<1>1. x.req \in Requests /\ x.cents \in Nat
  BY DEF LInv, IInv, CallerInv, Reports
<1>2. Traceless /\ pc' = pc /\ \A q \in Requests : req'[q].status = req[q].status
  <2>1. CASE AdjustReport(x) \/ AdjustResent(x)
    BY <1>1, <2>1, AdjustTraceless DEF AdjustReport, AdjustResent, Adjusting
  <2>2. CASE EnqueueReport(x) \/ DropReport(x)
    BY <2>2, UnchangedTraceless DEF EnqueueReport, DropReport, RedisUnchanged
  <2> QED BY <2>1, <2>2 DEF ReportStep
<1>3. \A q \in Requests : Adjusting(q)' => Adjusting(q)
  <2>1. ASSUME NEW to \in {"enqueue", "queued", "dropped"}, Advance(x, to)
        PROVE  \A y \in reports' : y.stage = "adjust" => y \in reports
    <3>1. [x EXCEPT !.stage = to].stage = to
      BY DEF LInv, IInv, CallerInv, Reports
    <3> QED BY <2>1, <3>1 DEF Advance
  <2>2. \A y \in reports' : y.stage = "adjust" => y \in reports
    BY <2>1 DEF ReportStep, AdjustReport, EnqueueReport, DropReport, AdjustResent
  <2> QED BY <2>2 DEF Adjusting
<1> QED BY <1>1, <1>2, <1>3, OrphansStayIdle DEF Traceless, RecordExists

LEMMA InitLInv == Init => LInv
BY InitInv DEF Init, LInv, OrphansIdle

LEMMA StepLInv ==
  ASSUME OrphansAllowed = FALSE
  PROVE  LInv /\ [Next]_vars => LInv'
<1> SUFFICES ASSUME LInv, [Next]_vars PROVE LInv'
  OBVIOUS
<1>1. IInv'
  BY StepInv DEF LInv
<1>2. CASE \E r \in Requests : RequestStep(r)
  BY <1>1, <1>2, RequestStepIdle DEF LInv, Traceless
<1>3. CASE \E x \in reports : ReportStep(x)
  BY <1>1, <1>3, ReportStepIdle DEF LInv, Traceless
<1>4. CASE LeaseExpires \/ UNCHANGED vars
  BY <1>1, <1>4 DEF LeaseExpires, vars, LInv, OrphansIdle, RecordExists, Adjusting
<1>5. CASE HashVanishes
  <2>1. /\ \A r \in Requests : ~Unfinished(r)
        /\ strays' = {} /\ drift' = 0 /\ UNCHANGED <<req, pc, reports>>
        /\ orphans' \subseteq Requests
    BY <1>5 DEF HashVanishes, LInv, IInv, QuotaInv, RedisType
  <2>2. OrphansIdle'
    BY <2>1 DEF OrphansIdle, Unfinished, RecordExists, Adjusting
  <2> QED BY <1>1, <2>1, <2>2 DEF LInv
<1> QED BY <1>2, <1>3, <1>4, <1>5 DEF Next

\* If the hash outlives its users, no interleaving of requests, reports and resends
\* does anything to the quota that the ledger would not do: in particular no request
\* is admitted beyond what all reservations and charges before it leave.
THEOREM QuotaIsALedger ==
  ASSUME OrphansAllowed = FALSE
  PROVE  Spec => ImplementsLedger
<1>1. LInv /\ [Next]_vars => [QL!Next]_(QL!ledgerVars)
  BY StepLedger DEF LStep, QL!ledgerVars, Ledger, Budget, Entry, Charged
<1>2. Spec => []LInv
  BY InitLInv, StepLInv, PTL DEF Spec
<1> QED BY <1>1, <1>2, InitLedger, PTL DEF Spec, ImplementsLedger, QL!Ledger

=============================================================================
