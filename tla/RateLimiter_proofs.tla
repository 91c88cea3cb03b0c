------------------------- MODULE RateLimiter_proofs -------------------------
(***************************************************************************)
(* Proofs about RateLimiter, for any calls, limits, window and delay: no   *)
(* bucket ever counts more than its limit, although three limiters are     *)
(* asked one after the other with a clock reading of the past; who is      *)
(* refused has been let through often enough; and bursts are bounded.      *)
(*                                                                         *)
(* The last two are not inductive.  For refusals the count of a bucket has *)
(* to be backed by as many calls that this limiter let through since the   *)
(* bucket's start (BackedInv), which needs that each limiter decides once  *)
(* on a call (OnceInv) and that a reading is no older than MaxDelay        *)
(* (ClockInv).  For bursts the calls that were let through have to be      *)
(* placed in windows that lie apart (WindowsInv), which the code remembers *)
(* of the last window only.                                                *)
(***************************************************************************)
EXTENDS RateLimiter, FiniteSetTheorems, TLAPS

Bucket(l) == [start : -1..MaxTime, count : 0..Limit[l]]

\* buckets are kept per limiter, and a call that has arrived has an identity
CountInv ==
    /\ TypeOK
    /\ bucket = [l \in Limiters |-> bucket[l]]
    /\ \A k \in Calls : at[k] # "idle" => who[k] \in Identities

USE RateAssumption DEF RateAssumption

(* An admitted call keeps the count of its bucket within the limit. *)
LEMMA CountedType ==
  ASSUME NEW l \in Limiters, NEW b \in Bucket(l), NEW t \in 0..MaxTime,
         Limit[l] # 0, Admits(l, b, t)
  PROVE  Counted(b, t) \in Bucket(l)
<1>1. Limit[l] \in Nat
  OBVIOUS
<1>2. CASE Expired(b, t)
  BY <1>1, <1>2 DEF Counted, Bucket
<1>3. CASE ~Expired(b, t)
  BY <1>1, <1>3 DEF Counted, Bucket, Admits
<1> QED BY <1>2, <1>3

LEMMA CountInvInit == Init => CountInv
<1> SUFFICES ASSUME Init PROVE CountInv
  OBVIOUS
<1>1. \A l \in Limiters :
        bucket[l] \in [Keys(l) -> [start : -1..MaxTime, count : 0..Limit[l]]]
  BY DEF Init, NoBucket
<1>2. TypeOK  BY <1>1 DEF TypeOK, Init
<1> QED BY <1>2 DEF CountInv, Init

LEMMA PassStep ==
  ASSUME CountInv, NEW k \in Calls, NEW l \in Limiters, Pass(k, l)
  PROVE  CountInv'
<1> DEFINE key == who[k][l]
<1>1. /\ who[k] \in Identities /\ key \in Keys(l)
      /\ stamp[k] \in 0..MaxTime
      /\ bucket[l] \in [Keys(l) -> Bucket(l)]
  BY DEF CountInv, TypeOK, Pass, Keys, Limiters, Bucket
<1>2. /\ bucket' = [m \in Limiters |-> bucket'[m]]
      /\ \A m \in Limiters : bucket'[m] \in [Keys(m) -> Bucket(m)]
  <2>1. CASE UNCHANGED bucket
    BY <2>1 DEF CountInv, TypeOK, Bucket
  <2>2. CASE /\ ~Exempt(l, key)
             /\ Admits(l, bucket[l][key], stamp[k])
             /\ bucket' = [bucket EXCEPT ![l][key] = Counted(bucket[l][key], stamp[k])]
    <3>1. Counted(bucket[l][key], stamp[k]) \in Bucket(l)
      BY <1>1, <2>2, CountedType DEF Exempt
    <3>2. \A m \in Limiters : bucket[m] \in [Keys(m) -> Bucket(m)]
      BY DEF CountInv, TypeOK, Bucket
    <3> HIDE DEF key
    <3>3. bucket' = [m \in Limiters |->
                        IF m = l THEN [bucket[l] EXCEPT ![key] = Counted(bucket[l][key], stamp[k])]
                                 ELSE bucket[m]]
      BY <2>2 DEF CountInv
    <3> QED BY <1>1, <3>1, <3>2, <3>3
  <2> QED BY <2>1, <2>2 DEF Pass
<1>3. /\ at' \in [Calls -> Limiters \cup Refusals \cup {"idle", "allowed"}]
      /\ decided' \in [Calls -> [Limiters -> -1..MaxTime]]
      /\ UNCHANGED <<now, who, stamp>>
  BY DEF Pass, CountInv, TypeOK, After, Limiters
<1>4. \A j \in Calls : at'[j] # "idle" => who[j] \in Identities
  BY <1>1 DEF Pass, CountInv, TypeOK
<1> QED BY <1>2, <1>3, <1>4 DEF CountInv, TypeOK, Bucket

LEMMA RefuseStep ==
  ASSUME CountInv, NEW k \in Calls, NEW l \in Limiters, Refuse(k, l)
  PROVE  CountInv'
<1>1. /\ at' \in [Calls -> Limiters \cup Refusals \cup {"idle", "allowed"}]
      /\ decided' \in [Calls -> [Limiters -> -1..MaxTime]]
      /\ UNCHANGED <<now, bucket, who, stamp>>
  BY DEF Refuse, CountInv, TypeOK, Refused, Refusals, Limiters
<1>2. \A j \in Calls : at'[j] # "idle" => who[j] \in Identities
  BY DEF Refuse, CountInv, TypeOK, Limiters
<1> QED BY <1>1, <1>2 DEF CountInv, TypeOK

LEMMA CountInvStep == CountInv /\ [Next]_vars => CountInv'
<1> SUFFICES ASSUME CountInv, [Next]_vars PROVE CountInv'
  OBVIOUS
<1>1. CASE Tick
  BY <1>1 DEF Tick, CountInv, TypeOK
<1>2. ASSUME NEW k \in Calls, NEW id \in Identities, Arrive(k, id)  PROVE CountInv'
  BY <1>2 DEF Arrive, CountInv, TypeOK, Limiters
<1>3. ASSUME NEW k \in Calls, NEW l \in Limiters, Pass(k, l) \/ Refuse(k, l)
      PROVE  CountInv'
  BY <1>3, PassStep, RefuseStep
<1>4. CASE UNCHANGED vars
  BY <1>4 DEF vars, CountInv, TypeOK
<1> QED BY <1>1, <1>2, <1>3, <1>4 DEF Next, Quiescent

(* The counts of the limiters stay within their limits. *)
THEOREM TypeCorrect == Spec => []TypeOK
<1>1. CountInv => TypeOK  BY DEF CountInv
<1> QED BY <1>1, CountInvInit, CountInvStep, PTL DEF Spec

-----------------------------------------------------------------------------
(* Refusals are deserved. *)

\* calls of a key the limiter let through at t or later
Since(l, key, t) == {k \in Passed(l, key) : decided[k][l] >= t}

ClockInv ==
    /\ \A k \in InFlight : stamp[k] <= now /\ now <= stamp[k] + MaxDelay
    /\ \A k \in Calls, l \in Limiters : decided[k][l] <= now
    /\ \A l \in Limiters : \A key \in Keys(l) : bucket[l][key].start <= now

OnceInv ==
    \A k \in Calls :
        /\ at[k] \in {"idle", "agent"} => decided[k]["agent"] = -1
        /\ at[k] \in {"idle", "agent", "user"} => decided[k]["user"] = -1
        /\ at[k] \in {"idle", "agent", "user", "tool"} => decided[k]["tool"] = -1

BackedInv ==
    \A l \in Limiters : \A key \in Keys(l) :
        bucket[l][key].count <= Cardinality(Since(l, key, bucket[l][key].start))

RefusalInv ==
    CountInv /\ ClockInv /\ OnceInv /\ BackedInv /\ RefusalIsDeserved

(* Every set of calls is finite. *)
LEMMA CallSets ==
  ASSUME NEW S \in SUBSET Calls, NEW T \in SUBSET S
  PROVE  /\ Cardinality(T) \in Nat /\ Cardinality(S) \in Nat
         /\ Cardinality(T) <= Cardinality(S)
<1>1. IsFiniteSet(S)  BY CallsAssumption, FS_Subset DEF CallsAssumption
<1> QED BY <1>1, FS_Subset, FS_CardinalityType

LEMMA RefusalInit == Init => RefusalInv
<1> SUFFICES ASSUME Init PROVE RefusalInv
  OBVIOUS
<1>1. CountInv  BY CountInvInit
<1>2. ClockInv
  BY DEF Init, ClockInv, InFlight, Limiters, NoBucket
<1>3. OnceInv  BY DEF Init, OnceInv, Limiters
<1>4. BackedInv
  <2>1. ASSUME NEW l \in Limiters, NEW key \in Keys(l)
        PROVE  bucket[l][key].count <= Cardinality(Since(l, key, bucket[l][key].start))
    <3>1. bucket[l][key].count = 0  BY DEF Init, NoBucket
    <3>2. Since(l, key, bucket[l][key].start) \in SUBSET Calls
      BY DEF Since, Passed, Decided
    <3> QED BY <3>1, <3>2, CallSets
  <2> QED BY <2>1 DEF BackedInv
<1>5. RefusalIsDeserved
  BY DEF Init, RefusalIsDeserved, Refused, Limiters
<1> QED BY <1>1, <1>2, <1>3, <1>4, <1>5 DEF RefusalInv

(* What a limiter has decided stays decided, and so does who was refused. *)
LEMMA DecisionsStay ==
  ASSUME RefusalInv, [Next]_vars
  PROVE  /\ now <= now'
         /\ \A l \in Limiters : \A key \in Keys(l) : \A j \in Passed(l, key) :
              j \in Passed(l, key)' /\ decided'[j][l] = decided[j][l]
         /\ \A k \in Calls, l \in Limiters : at[k] = Refused[l] =>
              at'[k] = at[k] /\ who'[k] = who[k] /\ decided'[k] = decided[k]
<1> USE DEF RefusalInv, CountInv, TypeOK
<1> DEFINE Stay(l, key) == \A j \in Passed(l, key) :
                 j \in Passed(l, key)' /\ decided'[j][l] = decided[j][l]
           Final(k, l) == at[k] = Refused[l] =>
              at'[k] = at[k] /\ who'[k] = who[k] /\ decided'[k] = decided[k]
<1>1. CASE Tick
  BY <1>1 DEF Tick, Passed, Decided
<1>2. ASSUME NEW k \in Calls, NEW id \in Identities, Arrive(k, id)
      PROVE  /\ now <= now'
             /\ \A l \in Limiters : \A key \in Keys(l) : Stay(l, key)
             /\ \A c \in Calls, l \in Limiters : Final(c, l)
  <2>1. \A l \in Limiters : \A key : k \notin Passed(l, key)
    BY <1>2 DEF Arrive, OnceInv, Passed, Decided, Limiters
  <2>2. \A l \in Limiters : \A key : Passed(l, key) \subseteq Passed(l, key)'
    BY <1>2, <2>1 DEF Arrive, Passed, Decided
  <2>3. \A c \in Calls, l \in Limiters : Final(c, l)
    BY <1>2 DEF Arrive, Refused, Limiters
  <2> QED BY <1>2, <2>2, <2>3 DEF Arrive
<1>3. ASSUME NEW k \in Calls, NEW l \in Limiters, Pass(k, l) \/ Refuse(k, l)
      PROVE  /\ now <= now'
             /\ \A m \in Limiters : \A key \in Keys(m) : Stay(m, key)
             /\ \A c \in Calls, m \in Limiters : Final(c, m)
  <2>1. /\ at[k] = l
        /\ at' = [at EXCEPT ![k] = at'[k]]
        /\ at'[k] \in {After[l], Refused[l]}
        /\ decided' = [decided EXCEPT ![k][l] = now]
        /\ UNCHANGED <<now, who, stamp>>
    BY <1>3 DEF Pass, Refuse
  <2>2. decided[k][l] = -1
    BY <2>1 DEF OnceInv, Limiters
  <2>3. ASSUME NEW m \in Limiters, NEW key \in Keys(m), NEW j \in Passed(m, key)
        PROVE  j \in Passed(m, key)' /\ decided'[j][m] = decided[j][m]
    <3>1. j \in Calls /\ decided[j][m] >= 0 /\ who[j][m] = key /\ at[j] # Refused[m]
      BY DEF Passed, Decided
    <3>2. ~(j = k /\ m = l)  BY <2>2, <3>1
    <3>3. decided'[j][m] = decided[j][m]
      BY <2>1, <3>1, <3>2
    <3>4. at'[j] # Refused[m]
      BY <2>1, <3>1, <3>2 DEF Refused, After, Limiters
    <3> QED BY <2>1, <3>1, <3>3, <3>4 DEF Passed, Decided
  <2>4. \A c \in Calls, m \in Limiters : Final(c, m)
    BY <2>1 DEF Refused, Limiters
  <2> QED BY <2>1, <2>3, <2>4
<1>4. CASE UNCHANGED vars
  BY <1>4 DEF vars, Passed, Decided
<1> QED BY <1>1, <1>2, <1>3, <1>4 DEF Next, Quiescent
(* A limiter's count of the past only grows. *)
LEMMA SinceGrows ==
  ASSUME RefusalInv, [Next]_vars, NEW l \in Limiters, NEW key \in Keys(l),
         NEW t \in Int
  PROVE  /\ Since(l, key, t) \subseteq Since(l, key, t)'
         /\ Since(l, key, t)' \in SUBSET Calls
  BY DecisionsStay DEF Since, Passed, Decided

LEMMA ClockStep == RefusalInv /\ [Next]_vars => ClockInv'
<1> SUFFICES ASSUME RefusalInv, [Next]_vars PROVE ClockInv'
  OBVIOUS
<1> USE DEF RefusalInv, CountInv, TypeOK
<1>1. CASE Tick
  <2>1. InFlight' = InFlight  BY <1>1 DEF Tick, InFlight
  <2>2. \A k \in InFlight : stamp'[k] <= now' /\ now' <= stamp'[k] + MaxDelay
    BY <1>1 DEF Tick, ClockInv, InFlight
  <2>3. \A k \in Calls, l \in Limiters : decided'[k][l] <= now'
    BY <1>1 DEF Tick, ClockInv
  <2>4. \A l \in Limiters : \A key \in Keys(l) : bucket'[l][key].start <= now'
    BY <1>1 DEF Tick, ClockInv
  <2> QED BY <2>1, <2>2, <2>3, <2>4 DEF ClockInv
<1>2. ASSUME NEW k \in Calls, NEW id \in Identities, Arrive(k, id)  PROVE ClockInv'
  <2>1. \A j \in InFlight' : stamp'[j] <= now' /\ now' <= stamp'[j] + MaxDelay
    BY <1>2 DEF Arrive, ClockInv, InFlight
  <2> QED BY <1>2, <2>1 DEF Arrive, ClockInv
<1>3. ASSUME NEW k \in Calls, NEW l \in Limiters, Pass(k, l) \/ Refuse(k, l)
      PROVE  ClockInv'
  <2>1. /\ at[k] = l
        /\ at' = [at EXCEPT ![k] = at'[k]]
        /\ decided' = [decided EXCEPT ![k][l] = now]
        /\ UNCHANGED <<now, who, stamp>>
    BY <1>3 DEF Pass, Refuse
  <2>2. InFlight' \subseteq InFlight /\ k \in InFlight
    BY <2>1 DEF InFlight
  <2>3. \A j \in Calls, m \in Limiters : decided'[j][m] <= now'
    BY <2>1 DEF ClockInv
  <2>4. \A m \in Limiters : \A key \in Keys(m) : bucket'[m][key].start <= now'
    <3>1. CASE UNCHANGED bucket  BY <2>1, <3>1 DEF ClockInv
    <3>2. CASE bucket' = [bucket EXCEPT ![l][who[k][l]] =
                            Counted(bucket[l][who[k][l]], stamp[k])]
      <4>1. /\ who[k][l] \in Keys(l) /\ stamp[k] <= now
            /\ bucket[l] \in [Keys(l) -> Bucket(l)]
        BY <2>1, <2>2 DEF ClockInv, Keys, Bucket, Limiters
      <4>2. /\ Counted(bucket[l][who[k][l]], stamp[k]).start <= now
        BY <4>1 DEF Counted, Expired, ClockInv, Bucket
      <4> DEFINE key == who[k][l]  new == Counted(bucket[l][key], stamp[k])
      <4>3. bucket' = [m \in Limiters |->
                         IF m = l THEN [bucket[l] EXCEPT ![key] = new] ELSE bucket[m]]
        BY <3>2
      <4>4. new.start <= now'  BY <2>1, <4>2
      <4> HIDE DEF new, key
      <4> QED BY <2>1, <4>1, <4>3, <4>4 DEF ClockInv
    <3> QED BY <1>3, <3>1, <3>2 DEF Pass, Refuse
  <2> QED BY <2>1, <2>2, <2>3, <2>4 DEF ClockInv
<1>4. CASE UNCHANGED vars
  BY <1>4 DEF vars, ClockInv, InFlight
<1> QED BY <1>1, <1>2, <1>3, <1>4 DEF Next, Quiescent

LEMMA OnceStep == RefusalInv /\ [Next]_vars => OnceInv'
<1> SUFFICES ASSUME RefusalInv, [Next]_vars PROVE OnceInv'
  OBVIOUS
<1> USE DEF RefusalInv, CountInv, TypeOK, OnceInv
<1>1. CASE Tick  BY <1>1 DEF Tick
<1>2. ASSUME NEW k \in Calls, NEW id \in Identities, Arrive(k, id)  PROVE OnceInv'
  BY <1>2 DEF Arrive
<1>3. ASSUME NEW k \in Calls, NEW l \in Limiters, Pass(k, l) \/ Refuse(k, l)
      PROVE  OnceInv'
  <2>1. /\ at[k] = l
        /\ at' = [at EXCEPT ![k] = at'[k]]
        /\ at'[k] \in {After[l], Refused[l]}
        /\ decided' = [decided EXCEPT ![k][l] = now]
    BY <1>3 DEF Pass, Refuse
  <2>2. at'[k] = After[l] /\ l = "agent" => at'[k] = "user"  BY DEF After, Limiters
  <2> QED BY <2>1, <2>2 DEF After, Refused, Limiters
<1>4. CASE UNCHANGED vars  BY <1>4 DEF vars
<1> QED BY <1>1, <1>2, <1>3, <1>4 DEF Next, Quiescent

(* A bucket is started anew by the call, or counts it. *)
LEMMA CountedFields ==
  ASSUME NEW l \in Limiters, NEW b \in Bucket(l), NEW t \in Nat
  PROVE  /\ Expired(b, t) => Counted(b, t) = [start |-> t, count |-> 1]
         /\ ~Expired(b, t) => /\ Counted(b, t).start = b.start
                              /\ Counted(b, t).count = b.count + 1
  BY DEF Counted, Bucket

(* A limiter that counts a call has let it through. *)
LEMMA PassBacked ==
  ASSUME RefusalInv, ClockInv', NEW k \in Calls, NEW l \in Limiters, Pass(k, l),
         NEW key, key = who[k][l], ~Exempt(l, key)
  PROVE  (bucket[l][key].count <= Cardinality(Since(l, key, bucket[l][key].start)))'
<1> USE DEF RefusalInv, CountInv, TypeOK
<1> DEFINE b   == bucket[l][key]
           new == Counted(b, stamp[k])
           old == Since(l, key, b.start)
           fresh == Since(l, key, bucket[l][key].start)'
<1>0. [Next]_vars  BY DEF Next
<1>1. /\ key \in Keys(l) /\ at[k] = l /\ at'[k] = After[l] /\ now \in Nat
      /\ stamp[k] \in Nat /\ stamp[k] <= now /\ b \in Bucket(l)
      /\ decided'[k][l] = now /\ decided[k][l] = -1 /\ who' = who
  BY DEF Pass, Keys, ClockInv, OnceInv, InFlight, Bucket, Limiters
<1>2. bucket'[l][key] = new
  <2>1. bucket' = [bucket EXCEPT ![l][key] = new]  BY DEF Pass
  <2> QED BY <2>1, <1>1
<1>3. new.start \in Int /\ new.start <= now
  BY <1>1 DEF Counted, Expired, ClockInv, Bucket
<1>4. k \in fresh
  <2>1. at'[k] # Refused[l]  BY <1>1 DEF After, Refused, Limiters
  <2> QED BY <1>1, <1>2, <1>3, <2>1 DEF Since, Passed, Decided
<1>5. fresh \in SUBSET Calls  BY DEF Since, Passed, Decided
<1>6. CASE Expired(b, stamp[k])
  <2>1. new.count = 1  BY <1>6 DEF Counted
  <2>2. Cardinality({k}) = 1  BY FS_Singleton
  <2>3. {k} \in SUBSET fresh  BY <1>4
  <2>4. 1 <= Cardinality(fresh)  BY <2>2, <2>3, <1>5, CallSets
  <2> QED BY <1>2, <2>1, <2>4
<1>7. CASE ~Expired(b, stamp[k])
  <2>1. new.start = b.start /\ new.count = b.count + 1
    BY <1>1, <1>7, CountedFields
  <2>2. old \subseteq fresh
    BY <1>0, <1>1, <1>2, <2>1, <1>3, SinceGrows
  <2>3. k \notin old /\ old \in SUBSET Calls
    BY <1>1 DEF Since, Passed, Decided
  <2>4. IsFiniteSet(old)  BY <2>3, CallsAssumption, FS_Subset DEF CallsAssumption
  <2>5. Cardinality(old \cup {k}) = Cardinality(old) + 1
    BY <2>3, <2>4, FS_AddElement
  <2>6. Cardinality(old \cup {k}) <= Cardinality(fresh)
    BY <1>4, <1>5, <2>2, CallSets
  <2>7. b.count <= Cardinality(old)  BY <1>1 DEF BackedInv
  <2>8. Cardinality(old) \in Nat /\ Cardinality(fresh) \in Nat
    <3> HIDE DEF old, fresh
    <3> QED BY <2>3, <1>5, CallSets
  <2>9. b.count \in Nat
    BY <1>1 DEF Bucket
  <2> QED
    <3> HIDE DEF old, fresh, new, b
    <3> QED BY <1>2, <2>1, <2>5, <2>6, <2>7, <2>8, <2>9 DEF fresh
<1> QED BY <1>6, <1>7
LEMMA BackedStep == RefusalInv /\ [Next]_vars => BackedInv'
<1> SUFFICES ASSUME RefusalInv, [Next]_vars,
                    NEW m \in Limiters, NEW name \in Keys(m)
             PROVE  (bucket[m][name].count
                       <= Cardinality(Since(m, name, bucket[m][name].start)))'
  BY DEF BackedInv, Keys
<1> DEFINE Backed == bucket[m][name].count
                       <= Cardinality(Since(m, name, bucket[m][name].start))
<1> USE DEF RefusalInv, CountInv, TypeOK
<1>1. bucket[m][name] \in Bucket(m)
  BY DEF Bucket
<1>2. ASSUME bucket'[m][name] = bucket[m][name]  PROVE Backed'
  <2> DEFINE old == Since(m, name, bucket[m][name].start)
             all == Since(m, name, bucket[m][name].start)'
  <2>1. bucket[m][name].start \in Int /\ bucket[m][name].count \in Nat
    BY <1>1 DEF Bucket
  <2>2. Since(m, name, bucket[m][name].start)' \in SUBSET Calls
    BY DEF Since, Passed, Decided
  <2>3. old \subseteq all
    BY <1>2, <2>1, SinceGrows DEF Since
  <2>4. bucket[m][name].count <= Cardinality(old)  BY DEF BackedInv
  <2> HIDE DEF old, all
  <2>5. Cardinality(old) <= Cardinality(all)
        /\ Cardinality(old) \in Nat /\ Cardinality(all) \in Nat
    BY <2>2, <2>3, CallSets DEF all
  <2> QED BY <1>2, <2>1, <2>4, <2>5 DEF all
<1>3. ASSUME NEW k \in Calls, NEW l \in Limiters, Pass(k, l)  PROVE Backed'
  <2>1. CASE UNCHANGED bucket  BY <1>2, <2>1
  <2>2. CASE ~Exempt(l, who[k][l]) /\ m = l /\ name = who[k][l]
    BY <1>3, <2>2, ClockStep, PassBacked
  <2>3. CASE /\ bucket' = [bucket EXCEPT ![l][who[k][l]] =
                              Counted(bucket[l][who[k][l]], stamp[k])]
             /\ ~(m = l /\ name = who[k][l])
    <3> DEFINE new == Counted(bucket[l][who[k][l]], stamp[k])
    <3>1. bucket' = [n \in Limiters |->
                       IF n = l THEN [bucket[l] EXCEPT ![who[k][l]] = new] ELSE bucket[n]]
      BY <2>3
    <3> HIDE DEF new
    <3>2. bucket'[m][name] = bucket[m][name]
      BY <2>3, <3>1
    <3> QED BY <1>2, <3>2
  <2> QED BY <1>3, <2>1, <2>2, <2>3 DEF Pass
<1>4. CASE UNCHANGED bucket  BY <1>2, <1>4
<1> QED BY <1>3, <1>4 DEF Next, Tick, Arrive, Refuse, Quiescent, vars

(* The calls that a refusal of the limiter l at time t rests on. *)
Before(l, key, t) ==
    {j \in Passed(l, key) : decided[j][l] \in (t - Window - MaxDelay + 1)..t}

LEMMA RefusedInTime ==
  ASSUME RefusalInv, [Next]_vars, NEW k \in Calls, NEW l \in Limiters, Refuse(k, l)
  PROVE  (Limit[l] <= Cardinality(Before(l, who[k][l], decided[k][l])))'
<1> USE DEF RefusalInv, CountInv, TypeOK
<1> DEFINE key == who[k][l]
           b   == bucket[l][key]
           old == Since(l, key, b.start)
           due == Before(l, who[k][l], decided[k][l])'
<1>1. /\ key \in Keys(l) /\ b \in Bucket(l) /\ now \in Nat
      /\ stamp[k] \in Nat /\ now <= stamp[k] + MaxDelay
      /\ decided'[k][l] = now /\ who' = who
  BY DEF Refuse, Keys, ClockInv, InFlight, Bucket, Limiters
<1>2. stamp[k] - b.start < Window /\ Limit[l] <= b.count /\ b.start \in Int
  BY <1>1 DEF Refuse, Admits, Expired, Bucket
<1>3. old \subseteq due
  <2>1. SUFFICES ASSUME NEW j \in old PROVE j \in due
    OBVIOUS
  <2>2. j \in Passed(l, key)' /\ decided'[j][l] = decided[j][l]
    BY <1>1, DecisionsStay DEF Since
  <2>3. /\ decided[j][l] \in Int /\ decided[j][l] <= now /\ b.start <= decided[j][l]
    BY DEF Since, Passed, Decided, ClockInv
  <2>4. decided[j][l] \in (now - Window - MaxDelay + 1)..now
    BY <1>1, <1>2, <2>3
  <2> QED BY <1>1, <2>2, <2>4 DEF Before
<1>4. due \in SUBSET Calls /\ old \in SUBSET Calls
  BY DEF Before, Since, Passed, Decided
<1>5. Limit[l] \in Nat /\ b.count \in Nat /\ b.count <= Cardinality(old)
  BY <1>1 DEF BackedInv, Bucket
<1> HIDE DEF b, old, due
<1>6. Cardinality(old) <= Cardinality(due)
      /\ Cardinality(old) \in Nat /\ Cardinality(due) \in Nat
  BY <1>3, <1>4, CallSets
<1> QED BY <1>2, <1>5, <1>6 DEF due

LEMMA DeservedStep == RefusalInv /\ [Next]_vars => RefusalIsDeserved'
<1> SUFFICES ASSUME RefusalInv, [Next]_vars,
                    NEW m \in Limiters, NEW c \in Calls, at'[c] = Refused[m]
             PROVE  (Limit[m] <= Cardinality(Before(m, who[c][m], decided[c][m])))'
  BY DEF RefusalIsDeserved, Before
<1> USE DEF RefusalInv, CountInv, TypeOK
<1>1. CASE at[c] = Refused[m]
  <2>0. c \in Calls /\ at[c] # "idle"  BY <1>1 DEF Refused, Limiters
  <2>1. /\ who'[c] = who[c] /\ decided'[c] = decided[c]
        /\ who[c][m] \in Keys(m)
    BY <1>1, <2>0, DecisionsStay DEF Keys
  <2> DEFINE old == Before(m, who[c][m], decided[c][m])
             all == Before(m, who[c][m], decided[c][m])'
  <2>2. old \subseteq all
    BY <2>1, DecisionsStay DEF Before
  <2>3. old \in SUBSET Calls /\ all \in SUBSET Calls
    BY DEF Before, Passed, Decided
  <2>4. Limit[m] \in Nat /\ Limit[m] <= Cardinality(old)
    BY <1>1 DEF RefusalIsDeserved, Before
  <2> HIDE DEF old, all
  <2>5. Cardinality(old) <= Cardinality(all)
        /\ Cardinality(old) \in Nat /\ Cardinality(all) \in Nat
    BY <2>2, <2>3, CallSets
  <2> QED BY <2>4, <2>5 DEF all
<1>2. CASE at[c] # Refused[m]
  <2>1. PICK k \in Calls, l \in Limiters : Refuse(k, l) /\ k = c /\ l = m
    <3>1. ASSUME NEW k \in Calls, NEW id \in Identities, Arrive(k, id)  PROVE FALSE
      BY <1>2, <3>1 DEF Arrive, Refused, Limiters
    <3>2. ASSUME NEW k \in Calls, NEW l \in Limiters, Pass(k, l)  PROVE FALSE
      BY <1>2, <3>2 DEF Pass, After, Refused, Limiters
    <3>3. ASSUME NEW k \in Calls, NEW l \in Limiters, Refuse(k, l)
          PROVE  k = c /\ l = m
      BY <1>2, <3>3 DEF Refuse, Refused, Limiters
    <3> QED BY <1>2, <3>1, <3>2, <3>3 DEF Next, Tick, Quiescent, vars
  <2> QED BY <2>1, RefusedInTime
<1> QED BY <1>1, <1>2

LEMMA RefusalInvStep == RefusalInv /\ [Next]_vars => RefusalInv'
BY CountInvStep, ClockStep, OnceStep, BackedStep, DeservedStep DEF RefusalInv

(* Only a key that has used up its limit within a window and the age of    *)
(* one clock reading is refused.                                           *)
THEOREM RefusalsAreDeserved == Spec => []RefusalIsDeserved
<1>1. RefusalInv => RefusalIsDeserved  BY DEF RefusalInv
<1> QED BY <1>1, RefusalInit, RefusalInvStep, PTL DEF Spec
-----------------------------------------------------------------------------
(* Bursts are bounded: every call that was let through belongs to a window *)
(* and has a number there, and windows are at least Window apart.          *)

\* start and number of the window of each call that l has let through for key
Windows(l, key, start, number) ==
    /\ \A k \in Passed(l, key) :
         /\ start[k] >= -1 /\ start[k] <= decided[k][l]
         /\ stamp[k] < start[k] + Window
         /\ number[k] \in 1..Limit[l]
         /\ \/ start[k] = bucket[l][key].start /\ number[k] <= bucket[l][key].count
            \/ start[k] + Window <= bucket[l][key].start
    /\ \A j, k \in Passed(l, key) :
         j # k => \/ start[j] = start[k] /\ number[j] # number[k]
                  \/ start[j] + Window <= start[k]
                  \/ start[k] + Window <= start[j]

WindowsInv ==
    \A l \in Limiters : \A key \in Keys(l) : ~Exempt(l, key) =>
        \E start, number \in [Calls -> Int] : Windows(l, key, start, number)

DelayInv ==
    \A k \in Calls, l \in Limiters :
        decided[k][l] >= 0 => decided[k][l] <= stamp[k] + MaxDelay

\* a bucket without a start has counted nothing
EmptyInv ==
    \A l \in Limiters : \A key \in Keys(l) :
        bucket[l][key].start = -1 => bucket[l][key].count = 0

BurstInv == RefusalInv /\ DelayInv /\ EmptyInv /\ WindowsInv

LEMMA BurstInit == Init => BurstInv
<1> SUFFICES ASSUME Init PROVE BurstInv
  OBVIOUS
<1>1. RefusalInv  BY RefusalInit
<1>2. DelayInv  BY DEF Init, DelayInv
<1>3. EmptyInv  BY DEF Init, EmptyInv, NoBucket
<1>4. WindowsInv
  <2>1. ASSUME NEW l \in Limiters, NEW key \in Keys(l)
        PROVE  \E start, number \in [Calls -> Int] : Windows(l, key, start, number)
    <3>1. Passed(l, key) = {}  BY DEF Init, Passed, Decided
    <3>2. [k \in Calls |-> 0] \in [Calls -> Int]  OBVIOUS
    <3>3. Windows(l, key, [k \in Calls |-> 0], [k \in Calls |-> 0])
      BY <3>1 DEF Windows
    <3> QED BY <3>2, <3>3
  <2> QED BY <2>1 DEF WindowsInv
<1> QED BY <1>1, <1>2, <1>3, <1>4 DEF BurstInv

LEMMA DelayStep == BurstInv /\ [Next]_vars => DelayInv'
<1> SUFFICES ASSUME BurstInv, [Next]_vars PROVE DelayInv'
  OBVIOUS
<1> USE DEF BurstInv, RefusalInv, CountInv, TypeOK
<1>1. CASE Tick  BY <1>1 DEF Tick, DelayInv
<1>2. ASSUME NEW k \in Calls, NEW id \in Identities, Arrive(k, id)  PROVE DelayInv'
  <2>1. \A l \in Limiters : decided[k][l] = -1
    BY <1>2 DEF Arrive, OnceInv, Limiters
  <2> QED BY <1>2, <2>1 DEF Arrive, DelayInv
<1>3. ASSUME NEW k \in Calls, NEW l \in Limiters, Pass(k, l) \/ Refuse(k, l)
      PROVE  DelayInv'
  <2>1. /\ at[k] = l
        /\ decided' = [decided EXCEPT ![k][l] = now]
        /\ UNCHANGED <<now, who, stamp>>
    BY <1>3 DEF Pass, Refuse
  <2>2. now <= stamp[k] + MaxDelay  BY <2>1 DEF ClockInv, InFlight
  <2> QED BY <2>1, <2>2 DEF DelayInv
<1>4. CASE UNCHANGED vars  BY <1>4 DEF vars, DelayInv
<1> QED BY <1>1, <1>2, <1>3, <1>4 DEF Next, Quiescent

LEMMA EmptyStep == BurstInv /\ [Next]_vars => EmptyInv'
<1> SUFFICES ASSUME BurstInv, [Next]_vars PROVE EmptyInv'
  OBVIOUS
<1> USE DEF BurstInv, RefusalInv, CountInv, TypeOK
<1>1. CASE UNCHANGED bucket  BY <1>1 DEF EmptyInv, Keys
<1>2. ASSUME NEW k \in Calls, NEW l \in Limiters, Pass(k, l),
             bucket' # bucket
      PROVE  EmptyInv'
  <2> DEFINE key == who[k][l]
             new == Counted(bucket[l][key], stamp[k])
  <2>1. /\ key \in Keys(l) /\ stamp[k] \in Nat /\ bucket[l][key] \in Bucket(l)
    BY <1>2 DEF Pass, Keys, Limiters, Bucket
  <2>2. new.start # -1
    <3>1. CASE Expired(bucket[l][key], stamp[k])
      BY <2>1, <3>1, CountedFields
    <3>2. CASE ~Expired(bucket[l][key], stamp[k])
      <4>1. bucket[l][key] # NoBucket  BY <3>2 DEF Expired
      <4>2. bucket[l][key].start # -1
        BY <2>1, <4>1 DEF EmptyInv, NoBucket, Bucket
      <4> QED BY <2>1, <3>2, <4>2, CountedFields
    <3> QED BY <3>1, <3>2
  <2>3. bucket' = [bucket EXCEPT ![l][key] = new]
    BY <1>2 DEF Pass
  <2> HIDE DEF new, key
  <2>4. bucket' = [n \in Limiters |->
                     IF n = l THEN [bucket[l] EXCEPT ![key] = new] ELSE bucket[n]]
    BY <2>3
  <2> QED BY <2>1, <2>2, <2>4 DEF EmptyInv, Keys
<1> QED BY <1>1, <1>2 DEF Next, Tick, Arrive, Refuse, Quiescent, vars

(* Whom a limiter has let through for a key changes only when it lets      *)
(* another call of that key through.                                       *)
LEMMA PassedFrame ==
  ASSUME BurstInv, [Next]_vars, NEW l \in Limiters, NEW key \in Keys(l),
         ~\E k \in Calls : Pass(k, l) /\ who[k][l] = key
  PROVE  /\ Passed(l, key)' = Passed(l, key)
         /\ \A k \in Passed(l, key) :
              decided'[k][l] = decided[k][l] /\ stamp'[k] = stamp[k]
<1> USE DEF BurstInv, RefusalInv, CountInv, TypeOK
<1>1. CASE Tick \/ UNCHANGED vars
  BY <1>1 DEF Tick, vars, Passed, Decided
<1>2. ASSUME NEW k \in Calls, NEW id \in Identities, Arrive(k, id)
      PROVE  /\ Passed(l, key)' = Passed(l, key)
             /\ \A c \in Passed(l, key) :
                  decided'[c][l] = decided[c][l] /\ stamp'[c] = stamp[c]
  <2>1. decided[k][l] = -1  BY <1>2 DEF Arrive, OnceInv, Limiters
  <2>2. k \notin Passed(l, key) /\ k \notin Passed(l, key)'
    BY <1>2, <2>1 DEF Arrive, Passed, Decided
  <2>3. \A c \in Calls : c # k => /\ at'[c] = at[c] /\ who'[c] = who[c]
                                  /\ stamp'[c] = stamp[c]
    BY <1>2 DEF Arrive
  <2>4. decided' = decided  BY <1>2 DEF Arrive
  <2> QED BY <2>2, <2>3, <2>4 DEF Passed, Decided
<1>3. ASSUME NEW k \in Calls, NEW m \in Limiters, Pass(k, m) \/ Refuse(k, m)
      PROVE  /\ Passed(l, key)' = Passed(l, key)
             /\ \A c \in Passed(l, key) :
                  decided'[c][l] = decided[c][l] /\ stamp'[c] = stamp[c]
  <2>1. /\ at[k] = m
        /\ at' = [at EXCEPT ![k] = at'[k]]
        /\ at'[k] \in {After[m], Refused[m]}
        /\ decided' = [decided EXCEPT ![k][m] = now]
        /\ UNCHANGED <<now, who, stamp>>
    BY <1>3 DEF Pass, Refuse
  <2>2. decided[k][m] = -1  BY <2>1 DEF OnceInv, Limiters
  <2>3. \A c \in Calls : c # k \/ l # m => decided'[c][l] = decided[c][l]
    BY <2>1
  <2>4. \A c \in Calls : c # k \/ l # m => (at'[c] = Refused[l] <=> at[c] = Refused[l])
    BY <2>1 DEF After, Refused, Limiters
  <2>5. CASE l # m
    BY <2>1, <2>3, <2>4, <2>5 DEF Passed, Decided
  <2>6. CASE l = m
    <3>1. k \notin Passed(l, key)  BY <2>2, <2>6 DEF Passed, Decided
    <3>2. k \notin Passed(l, key)'
      BY <1>3, <2>1, <2>6 DEF Refuse, Passed, Decided
    <3> QED BY <2>1, <2>3, <2>4, <3>1, <3>2 DEF Passed, Decided
  <2> QED BY <2>5, <2>6
<1> QED BY <1>1, <1>2, <1>3 DEF Next, Quiescent
LEMMA BucketFrame ==
  ASSUME BurstInv, [Next]_vars, NEW l \in Limiters, NEW key \in Keys(l),
         ~\E k \in Calls : Pass(k, l) /\ who[k][l] = key
  PROVE  bucket'[l][key] = bucket[l][key]
<1> USE DEF BurstInv, RefusalInv, CountInv, TypeOK
<1>1. CASE UNCHANGED bucket  BY <1>1
<1>2. ASSUME NEW k \in Calls, NEW m \in Limiters, Pass(k, m), bucket' # bucket
      PROVE  bucket'[l][key] = bucket[l][key]
  <2> DEFINE new == Counted(bucket[m][who[k][m]], stamp[k])
  <2>1. bucket' = [bucket EXCEPT ![m][who[k][m]] = new]  BY <1>2 DEF Pass
  <2>2. ~(m = l /\ who[k][m] = key)  BY <1>2
  <2> HIDE DEF new
  <2>3. bucket' = [n \in Limiters |->
                     IF n = m THEN [bucket[m] EXCEPT ![who[k][m]] = new] ELSE bucket[n]]
    BY <2>1
  <2> QED BY <2>2, <2>3
<1> QED BY <1>1, <1>2 DEF Next, Tick, Arrive, Refuse, Quiescent, vars

(* A call of a window that lies before the bucket's, or in it, lies Window *)
(* before a time at which the bucket is unused or its window has passed.   *)
LEMMA WindowPassed ==
  ASSUME NEW w \in Nat \ {0}, NEW s \in Int, NEW n \in Nat, NEW at0 \in Nat,
         NEW first \in Int, NEW count \in Nat, s >= -1, n >= 1,
         first = -1 => count = 0,
         first = -1 \/ at0 - first >= w,
         (s = first /\ n <= count) \/ s + w <= first
  PROVE  s + w <= at0
OBVIOUS

(* The call that a limiter lets through joins the bucket's window, or      *)
(* opens one that is Window away from all before it.                       *)
LEMMA PassJoins ==
  ASSUME BurstInv, NEW k \in Calls, NEW l \in Limiters, Pass(k, l),
         NEW key, key = who[k][l], ~Exempt(l, key),
         NEW start \in [Calls -> Int], NEW number \in [Calls -> Int],
         Windows(l, key, start, number)
  PROVE  \E S, N \in [Calls -> Int] : Windows(l, key, S, N)'
<1> USE DEF BurstInv, RefusalInv, CountInv, TypeOK
<1> DEFINE b   == bucket[l][key]
           new == Counted(b, stamp[k])
<1>1. /\ key \in Keys(l) /\ at[k] = l /\ now \in Nat
      /\ stamp[k] \in Nat /\ stamp[k] <= now /\ b \in Bucket(l)
      /\ decided[k][l] = -1 /\ UNCHANGED <<now, who, stamp>>
      /\ decided' = [decided EXCEPT ![k][l] = now]
      /\ at' = [at EXCEPT ![k] = After[l]]
  BY DEF Pass, Keys, ClockInv, OnceInv, InFlight, Bucket, Limiters
<1>2. bucket'[l][key] = new
  <2>1. bucket' = [bucket EXCEPT ![l][key] = new]  BY DEF Pass
  <2> QED BY <2>1, <1>1
<1>3. /\ b.start \in Int /\ b.start <= now /\ b.start >= -1 /\ b.count \in Nat
      /\ b.start = -1 => b.count = 0
      /\ Limit[l] \in Nat \ {0} /\ Window \in Nat \ {0}
  <2>1. b.start \in Int /\ b.start >= -1 /\ b.count \in Nat  BY <1>1 DEF Bucket
  <2>2. b.start <= now /\ (b.start = -1 => b.count = 0)
    BY <1>1 DEF ClockInv, EmptyInv
  <2>3. Limit[l] \in Nat \ {0} /\ Window \in Nat \ {0}  BY DEF Exempt
  <2> QED BY <2>1, <2>2, <2>3
<1>4. Passed(l, key)' = Passed(l, key) \cup {k} /\ k \notin Passed(l, key)
  <2>1. k \notin Passed(l, key)  BY <1>1 DEF Passed, Decided
  <2>2. k \in Passed(l, key)'
    BY <1>1 DEF Passed, Decided, After, Refused, Limiters
  <2>3. \A c \in Calls : c # k => decided'[c] = decided[c] /\ at'[c] = at[c]
    BY <1>1
  <2> QED BY <1>1, <2>1, <2>2, <2>3 DEF Passed, Decided
<1>0. PICK S \in [Calls -> Int], N \in [Calls -> Int] :
        /\ S = [start EXCEPT ![k] = new.start]
        /\ N = [number EXCEPT ![k] = new.count]
  <2>1. new.start \in Int /\ new.count \in Int
    <3> HIDE DEF b
    <3>1. CASE Expired(b, stamp[k])
      BY <1>1, <3>1, CountedFields
    <3>2. CASE ~Expired(b, stamp[k])
      BY <1>1, <1>3, <3>2, CountedFields
    <3> QED BY <3>1, <3>2
  <2> HIDE DEF new
  <2> QED BY <2>1
<1>5. \A j \in Passed(l, key) :
        /\ j \in Calls /\ j # k /\ S[j] = start[j] /\ N[j] = number[j]
        /\ decided'[j][l] = decided[j][l] /\ stamp'[j] = stamp[j]
  <2>1. \A j \in Passed(l, key) : j \in Calls /\ j # k
    BY <1>4 DEF Passed, Decided
  <2> QED BY <1>0, <1>1, <2>1
<1>6. S[k] = new.start /\ N[k] = new.count /\ decided'[k][l] = now /\ stamp'[k] = stamp[k]
  BY <1>0, <1>1
\* the window of the new call, and how the earlier ones lie before it
<1>7. /\ new.start >= -1 /\ new.start <= now /\ stamp[k] < new.start + Window
      /\ new.start \in Int /\ new.count \in 1..Limit[l]
      /\ \A j \in Passed(l, key) :
           \/ start[j] = new.start /\ number[j] < new.count
           \/ start[j] + Window <= new.start
  <2> HIDE DEF new
  <2>0. \A j \in Passed(l, key) :
          /\ start[j] \in Int /\ number[j] \in Nat /\ start[j] >= -1 /\ number[j] >= 1
          /\ \/ start[j] = b.start /\ number[j] <= b.count
             \/ start[j] + Window <= b.start
    BY <1>5, <1>3 DEF Windows
  <2> HIDE DEF b
  <2>1. CASE Expired(b, stamp[k])
    <3>1. new.start = stamp[k] /\ new.count = 1
      BY <2>1, <1>1, CountedFields DEF new
    <3>2. ASSUME NEW j \in Passed(l, key)  PROVE start[j] + Window <= stamp[k]
      <4>1. b.start = -1 \/ stamp[k] - b.start >= Window
        BY <2>1 DEF Expired, NoBucket
      <4>2. /\ start[j] \in Int /\ number[j] \in Nat
            /\ start[j] >= -1 /\ number[j] >= 1
            /\ \/ start[j] = b.start /\ number[j] <= b.count
               \/ start[j] + Window <= b.start
        BY <2>0, <3>2
      <4>3. /\ b.start \in Int /\ b.count \in Nat /\ (b.start = -1 => b.count = 0)
            /\ Window \in Nat \ {0} /\ stamp[k] \in Nat
        BY <1>1, <1>3
      <4> HIDE DEF BurstInv
      <4> QED BY <4>1, <4>2, <4>3, WindowPassed
    <3> QED BY <1>1, <1>3, <3>1, <3>2
  <2>2. CASE ~Expired(b, stamp[k])
    <3>1. new.start = b.start /\ new.count = b.count + 1
      BY <2>2, <1>1, CountedFields DEF new
    <3>2. b.count < Limit[l]
      BY <2>2 DEF Pass, Admits, b
    <3>3. stamp[k] - b.start < Window
      BY <2>2, <1>1, <1>3 DEF Expired
    <3>4. \A j \in Passed(l, key) :
            \/ start[j] = new.start /\ number[j] < new.count
            \/ start[j] + Window <= new.start
      BY <1>3, <2>0, <3>1
    <3>5. new.count \in 1..Limit[l]
      BY <1>3, <3>1, <3>2
    <3>6. /\ new.start \in Int /\ new.start >= -1 /\ new.start <= now
          /\ stamp[k] < new.start + Window
      BY <1>1, <1>3, <3>1, <3>3
    <3> QED BY <3>4, <3>5, <3>6
  <2> QED BY <2>1, <2>2
<1> HIDE DEF new
<1>8. ASSUME NEW j \in Passed(l, key)'
      PROVE  /\ S[j] >= -1 /\ S[j] <= decided'[j][l]
             /\ stamp'[j] < S[j] + Window
             /\ N[j] \in 1..Limit[l]
             /\ \/ S[j] = bucket'[l][key].start /\ N[j] <= bucket'[l][key].count
                \/ S[j] + Window <= bucket'[l][key].start
  <2>1. CASE j = k
    BY <2>1, <1>2, <1>6, <1>7
  <2>2. CASE j \in Passed(l, key)
    <3>2. number[j] \in Int /\ new.count \in Int
      BY <2>2, <1>5, <1>7, <1>3
    <3>3. /\ start[j] >= -1 /\ start[j] <= decided[j][l]
          /\ stamp[j] < start[j] + Window /\ number[j] \in 1..Limit[l]
      BY <2>2 DEF Windows
    <3>4. \/ start[j] = new.start /\ number[j] <= new.count
          \/ start[j] + Window <= new.start
      BY <2>2, <1>7, <3>2
    <3> QED BY <2>2, <1>2, <1>5, <3>3, <3>4
  <2> QED BY <2>1, <2>2, <1>4
<1>9. ASSUME NEW i \in Passed(l, key)', NEW j \in Passed(l, key)', i # j
      PROVE  \/ S[i] = S[j] /\ N[i] # N[j]
             \/ S[i] + Window <= S[j]
             \/ S[j] + Window <= S[i]
  <2>1. CASE i \in Passed(l, key) /\ j \in Passed(l, key)
    BY <2>1, <1>5, <1>9 DEF Windows
  <2>2. CASE i = k /\ j \in Passed(l, key)
    <3>1. number[j] \in Int /\ new.count \in Int  BY <2>2, <1>5, <1>7, <1>3
    <3> QED BY <2>2, <1>5, <1>6, <1>7, <3>1
  <2>3. CASE j = k /\ i \in Passed(l, key)
    <3>1. number[i] \in Int /\ new.count \in Int  BY <2>3, <1>5, <1>7, <1>3
    <3> QED BY <2>3, <1>5, <1>6, <1>7, <3>1
  <2> QED BY <2>1, <2>2, <2>3, <1>4, <1>9
<1>10. Windows(l, key, S, N)'
  BY <1>8, <1>9 DEF Windows
<1> QED BY <1>0, <1>10
LEMMA WindowsStep == BurstInv /\ [Next]_vars => WindowsInv'
<1> SUFFICES ASSUME BurstInv, [Next]_vars,
                    NEW l \in Limiters, NEW key \in Keys(l), ~Exempt(l, key)
             PROVE  \E S, N \in [Calls -> Int] : Windows(l, key, S, N)'
  BY DEF WindowsInv, Keys, Exempt
<1>1. PICK start \in [Calls -> Int], number \in [Calls -> Int] :
        Windows(l, key, start, number)
  BY DEF BurstInv, WindowsInv
<1>2. ASSUME NEW k \in Calls, Pass(k, l), who[k][l] = key
      PROVE  \E S, N \in [Calls -> Int] : Windows(l, key, S, N)'
  BY <1>1, <1>2, PassJoins
<1>3. CASE ~\E k \in Calls : Pass(k, l) /\ who[k][l] = key
  <2>1. /\ Passed(l, key)' = Passed(l, key)
        /\ \A k \in Passed(l, key) :
             decided'[k][l] = decided[k][l] /\ stamp'[k] = stamp[k]
    BY <1>3, PassedFrame
  <2>2. bucket'[l][key] = bucket[l][key]
    BY <1>3, BucketFrame
  <2>3. Windows(l, key, start, number)'
    BY <1>1, <2>1, <2>2 DEF Windows
  <2> QED BY <2>3
<1> QED BY <1>2, <1>3

LEMMA BurstInvStep == BurstInv /\ [Next]_vars => BurstInv'
BY RefusalInvStep, DelayStep, EmptyStep, WindowsStep DEF BurstInv

LEMMA DivApart ==
  ASSUME NEW w \in Nat \ {0}, NEW a \in Nat, NEW b \in Nat, a + w <= b
  PROVE  a \div w # b \div w
  OBVIOUS

LEMMA DivWithin ==
  ASSUME NEW w \in Nat \ {0}, NEW n \in Int, NEW a \in 0..n
  PROVE  a \div w \in 0..(n \div w)
  OBVIOUS

LEMMA DivFloor ==
  ASSUME NEW w \in Nat \ {0}, NEW n \in Int, n >= -1
  PROVE  n \div w \in Int /\ n \div w >= -1
  OBVIOUS

LEMMA NumbersUpTo ==
  ASSUME NEW m \in Nat
  PROVE  IsFiniteSet(1..m) /\ Cardinality(1..m) = m
<1>1. IsFiniteSet(1..m) /\ Cardinality(1..m) = IF 1 > m THEN 0 ELSE m - 1 + 1
  BY FS_Interval
<1>2. CASE m = 0  BY <1>1, <1>2
<1>3. CASE m # 0  BY <1>1, <1>3
<1> QED BY <1>2, <1>3

(***************************************************************************)
(* The calls decided in t..(t + Window - 1) belong to one window that      *)
(* starts at t - MaxDelay or before, because its calls read the clock      *)
(* after that and a second such window would start Window later still, and *)
(* to those that start in the Window + MaxDelay - 1 ticks that follow.     *)
(* Numbering the windows, and the calls in each, is an injection.          *)
(***************************************************************************)
LEMMA WindowsBoundBursts ==
  ASSUME BurstInv, NEW l \in Limiters, NEW key \in Keys(l), ~Exempt(l, key),
         NEW t \in 0..MaxTime
  PROVE  Cardinality({k \in Passed(l, key) : decided[k][l] \in t..(t + Window - 1)})
           <= Limit[l] * (2 + (Window + MaxDelay - 2) \div Window)
<1> USE DEF BurstInv, RefusalInv, CountInv, TypeOK
<1> DEFINE S == {k \in Passed(l, key) : decided[k][l] \in t..(t + Window - 1)}
           n == Window + MaxDelay - 2
           base == t - MaxDelay + 1
<1>1. PICK start \in [Calls -> Int], number \in [Calls -> Int] :
        Windows(l, key, start, number)
  BY DEF WindowsInv
<1> DEFINE class(k) == IF start[k] < base THEN 1 ELSE 2 + (start[k] - base) \div Window
           T == (1..(2 + n \div Window)) \X (1..Limit[l])
           f == [k \in S |-> <<class(k), number[k]>>]
<1>2. /\ Window \in Nat \ {0} /\ MaxDelay \in Nat /\ Limit[l] \in Nat /\ t \in Nat
      /\ n \in Int /\ n >= -1 /\ base \in Int
  <2>1. Window \in Nat \ {0} /\ MaxDelay \in Nat /\ Limit[l] \in Nat /\ t \in Nat
    OBVIOUS
  <2> HIDE DEF BurstInv
  <2>2. Window + MaxDelay - 2 \in Int /\ Window + MaxDelay - 2 >= -1
        /\ t - MaxDelay + 1 \in Int
    BY <2>1
  <2> QED BY <2>1, <2>2
<1>3. \A k \in S :
        /\ start[k] \in Int /\ number[k] \in 1..Limit[l]
        /\ start[k] <= t + Window - 1 /\ base <= stamp[k] + 1
        /\ stamp[k] \in Int /\ stamp[k] < start[k] + Window
  <2>1. ASSUME NEW k \in S
        PROVE  /\ start[k] \in Int /\ stamp[k] \in Int /\ decided[k][l] \in Int
               /\ t <= decided[k][l] /\ decided[k][l] <= t + Window - 1
               /\ decided[k][l] <= stamp[k] + MaxDelay
               /\ start[k] <= decided[k][l] /\ stamp[k] < start[k] + Window
               /\ number[k] \in 1..Limit[l]
    <3>1. /\ k \in Passed(l, key) /\ k \in Calls /\ decided[k][l] >= 0
          /\ decided[k][l] \in t..(t + Window - 1)
      BY DEF Passed, Decided
    <3> HIDE DEF S
    <3>2. decided[k][l] \in Int /\ stamp[k] \in Int /\ start[k] \in Int
      BY <3>1
    <3>3. decided[k][l] <= stamp[k] + MaxDelay
      BY <3>1 DEF DelayInv
    <3>4. /\ start[k] <= decided[k][l] /\ stamp[k] < start[k] + Window
          /\ number[k] \in 1..Limit[l]
      BY <3>1, <1>1 DEF Windows
    <3>5. t <= decided[k][l] /\ decided[k][l] <= t + Window - 1
      BY <1>2, <3>1, <3>2
    <3> QED BY <3>2, <3>3, <3>4, <3>5
  <2> QED BY <2>1, <1>2
<1>4. \A j, k \in S : j # k =>
        \/ start[j] = start[k] /\ number[j] # number[k]
        \/ start[j] + Window <= start[k]
        \/ start[k] + Window <= start[j]
  BY <1>1 DEF Windows
<1>5. \A k \in S : class(k) \in 1..(2 + n \div Window)
  <2>1. ASSUME NEW k \in S, start[k] >= base
        PROVE  (start[k] - base) \div Window \in 0..(n \div Window)
    <3>1. start[k] - base \in 0..n  BY <1>2, <1>3, <2>1
    <3> QED BY <1>2, <3>1, DivWithin
  <2> HIDE DEF n, base, S
  <2>2. n \div Window >= -1 /\ n \div Window \in Int
    BY <1>2, DivFloor
  <2> QED BY <2>1, <2>2, <1>2, <1>3
\* two calls of windows apart are in different classes
<1>6. ASSUME NEW j \in S, NEW k \in S, start[j] + Window <= start[k]
      PROVE  class(j) # class(k)
  <2>1. start[k] >= base
    BY <1>2, <1>3, <1>6
  <2>2. CASE start[j] < base
    <3>1. (start[k] - base) \div Window \in Nat
      <4>1. start[k] - base \in 0..(start[k] - base)  BY <1>2, <1>3, <2>1
      <4> QED BY <4>1, <1>2, <1>3, DivWithin
    <3>2. ~(start[k] < base)  BY <1>2, <1>3, <2>1
    <3>3. 2 + (start[k] - base) \div Window # 1  BY <3>1
    <3> QED BY <2>2, <3>2, <3>3
  <2>3. CASE start[j] >= base
    <3>1. start[j] - base \in Nat /\ start[k] - base \in Nat
          /\ (start[j] - base) + Window <= start[k] - base
      BY <1>2, <1>3, <1>6, <2>1, <2>3
    <3>2. (start[j] - base) \div Window # (start[k] - base) \div Window
      BY <1>2, <3>1, DivApart
    <3>3. ~(start[j] < base) /\ ~(start[k] < base)
      BY <1>2, <1>3, <2>1, <2>3
    <3>4. (start[j] - base) \div Window \in Int /\ (start[k] - base) \div Window \in Int
      BY <1>2, <3>1
    <3> QED BY <3>2, <3>3, <3>4
  <2> QED BY <1>2, <1>3, <2>2, <2>3
<1>7. f \in Injection(S, T)
  <2>1. f \in [S -> T]
    BY <1>3, <1>5
  <2>2. ASSUME NEW j \in S, NEW k \in S, f[j] = f[k]  PROVE j = k
    <3>1. class(j) = class(k) /\ number[j] = number[k]  BY <2>2
    <3> QED BY <3>1, <1>4, <1>6
  <2> HIDE DEF f, T, S
  <2> QED BY <2>1, <2>2 DEF Injection, IsInjective
<1>8. IsFiniteSet(T) /\ Cardinality(T) = (2 + n \div Window) * Limit[l]
  <2> HIDE DEF n
  <2>1. n \div Window >= -1 /\ n \div Window \in Int
    BY <1>2, DivFloor
  <2> DEFINE m == 2 + n \div Window  A == 1..m  B == 1..Limit[l]
  <2>2. IsFiniteSet(A) /\ Cardinality(A) = m
    <3>1. m \in Nat  BY <2>1
    <3> HIDE DEF m
    <3> QED BY <3>1, NumbersUpTo
  <2>3. IsFiniteSet(B) /\ Cardinality(B) = Limit[l]
    BY <1>2, NumbersUpTo
  <2> HIDE DEF A, B
  <2>4. IsFiniteSet(A \X B) /\ Cardinality(A \X B) = Cardinality(A) * Cardinality(B)
    BY <2>2, <2>3, FS_Product
  <2> QED BY <2>2, <2>3, <2>4 DEF A, B
<1>9. Cardinality(S) <= Cardinality(T)
  <2> HIDE DEF S, T, f
  <2> QED BY <1>7, <1>8, FS_Injection
<1>10. (2 + n \div Window) * Limit[l] = Limit[l] * (2 + n \div Window)
  BY <1>2
<1> QED BY <1>8, <1>9, <1>10

(* Around a boundary, and with readings of the past, a limiter lets no     *)
(* more calls of a key through than the windows it may have open.          *)
THEOREM BurstsAreBounded == Spec => []BurstIsBounded
<1>1. BurstInv => BurstIsBounded  BY WindowsBoundBursts DEF BurstIsBounded
<1> QED BY <1>1, BurstInit, BurstInvStep, PTL DEF Spec
=============================================================================
