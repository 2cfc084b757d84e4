-------------------------- MODULE RateLimiterProofs --------------------------
(* The buckets of RateLimiter behave as buckets that are never dropped, for    *)
(* any keys, rates, bursts and times.                                          *)
EXTENDS RateLimiter, TLAPS

\* A bucket's clock is never ahead of the time the cleanup looks at.
LastOrder == \A k \in DOMAIN limiters : limiters[k].last <= limiters[k].lastRequest

\* What has been spent and what is left never exceed what was earned.
SpentAndLeft == \A k \in Keys : spent[k] + Refilled(k) <= Capacity[k] + now

IndInv == TypeOK /\ LastOrder /\ SpentAndLeft

-----------------------------------------------------------------------------
(* What a request finds *)

\* A bucket's fields.
LEMMA BucketType ==
    ASSUME TypeOK, NEW k \in Keys
    PROVE  /\ Bucket(k) \in [tokens : Nat, last : Nat, lastRequest : Nat]
           /\ Bucket(k).tokens <= Capacity[k] /\ Bucket(k).last <= now
BY BucketsAssumption DEF TypeOK, Bucket, NewBucket

\* What a request finds is a number of tokens no larger than the capacity.
LEMMA RefilledType ==
    ASSUME TypeOK, NEW k \in Keys
    PROVE  Refilled(k) \in Nat /\ Refilled(k) <= Capacity[k]
<1> DEFINE b == Bucket(k)
<1>1. b.tokens \in Nat /\ b.last \in Nat /\ b.last <= now
    BY BucketType
<1>2. Capacity[k] \in Nat /\ now \in Nat
    BY BucketsAssumption DEF TypeOK
<1> QED
    BY <1>1, <1>2 DEF Refilled

\* Only the asked key's bucket changes.
LEMMA OthersStay ==
    ASSUME NEW k \in Keys, NEW j \in Keys, j # k, NEW b, Stored(k, b), now' = now
    PROVE  Refilled(j)' = Refilled(j)
<1>1. j \in DOMAIN limiters' <=> j \in DOMAIN limiters
    BY DEF Stored
<1>2. j \in DOMAIN limiters => limiters'[j] = limiters[j]
    BY DEF Stored
<1> QED
    BY <1>1, <1>2 DEF Refilled, Bucket, NewBucket

\* An allowed request takes exactly its cost.
LEMMA AllowTakes ==
    ASSUME TypeOK, NEW k \in Keys, Allow(k)
    PROVE  /\ Refilled(k)' = Refilled(k) - Cost[k]
           /\ \A j \in Keys \ {k} : Refilled(j)' = Refilled(j)
<1> DEFINE b == [tokens |-> Refilled(k) - Cost[k], last |-> now, lastRequest |-> now]
<1>1. Stored(k, b) /\ now' = now
    BY DEF Allow
<1>2. Bucket(k)' = b
    BY <1>1 DEF Stored, Bucket
<1>3. /\ Refilled(k) \in Nat /\ Refilled(k) <= Capacity[k]
      /\ Cost[k] \in Nat \ {0} /\ Capacity[k] \in Nat /\ now \in Nat
    BY RefilledType, BucketsAssumption DEF TypeOK
<1>4. Refilled(k)' = Refilled(k) - Cost[k]
    <2>1. Bucket(k)'.tokens + (now' - Bucket(k)'.last) = Refilled(k) - Cost[k]
        BY <1>1, <1>2, <1>3
    <2>2. Refilled(k)' = IF Bucket(k)'.tokens + (now' - Bucket(k)'.last) < Capacity[k]
                         THEN Bucket(k)'.tokens + (now' - Bucket(k)'.last) ELSE Capacity[k]
        BY DEF Refilled
    <2> QED
        BY <2>1, <2>2, <1>3
<1> QED
    BY <1>1, <1>4, OthersStay

\* A refused request takes nothing.
LEMMA RefuseTakesNothing ==
    ASSUME NEW k \in Keys, Refuse(k)
    PROVE  \A j \in Keys : Refilled(j)' = Refilled(j)
<1>1. Stored(k, Bucket(k)) /\ now' = now
    BY DEF Refuse
<1>2. Bucket(k)' = Bucket(k)
    BY <1>1 DEF Stored, Bucket
<1>3. Refilled(k)' = Refilled(k)
    BY <1>1, <1>2 DEF Refilled
<1> QED
    BY <1>1, <1>3, OthersStay

\* A bucket that is dropped was full.
LEMMA CleanupTakesNothing ==
    ASSUME TypeOK, LastOrder, Cleanup
    PROVE  \A k \in Keys : Refilled(k)' = Refilled(k)
<1> SUFFICES ASSUME NEW k \in Keys
             PROVE  Refilled(k)' = Refilled(k)
    OBVIOUS
<1> DEFINE kept == {j \in DOMAIN limiters : ~Expired(j)}
<1>1. limiters' = [j \in kept |-> limiters[j]] /\ now' = now
    BY DEF Cleanup
<1>2. CASE k \in kept \/ k \notin DOMAIN limiters
    <2>1. Bucket(k)' = Bucket(k)
        BY <1>1, <1>2 DEF Bucket, NewBucket
    <2> QED
        BY <1>1, <2>1 DEF Refilled
<1>3. CASE k \in DOMAIN limiters /\ k \notin kept
    <2>1. now - limiters[k].lastRequest > Expiry
        BY <1>3 DEF Expired
    <2>2. /\ limiters[k].last <= limiters[k].lastRequest
          /\ limiters[k].tokens \in Nat /\ limiters[k].last \in Nat
          /\ limiters[k].lastRequest \in Nat
          /\ now \in Nat /\ Expiry \in Nat /\ Capacity[k] \in Nat /\ Capacity[k] <= Expiry
        BY <1>3, BucketsAssumption, TimesAssumption, ExpiryAssumption DEF TypeOK, LastOrder
    <2>3. Refilled(k) = Capacity[k]
        BY <1>3, <2>1, <2>2 DEF Refilled, Bucket
    <2>4. Bucket(k)' = [tokens |-> Capacity[k], last |-> now, lastRequest |-> now]
        BY <1>1, <1>3 DEF Bucket, NewBucket
    <2>5. Refilled(k)' = Capacity[k]
        BY <2>4, <1>1, <2>2 DEF Refilled
    <2> QED
        BY <2>3, <2>5
<1> QED
    BY <1>2, <1>3

\* A tick adds a unit to every bucket that is not full, the missing ones being full.
LEMMA TickAdds ==
    ASSUME TypeOK, Tick, NEW k \in Keys
    PROVE  Refilled(k)' = IF Refilled(k) < Capacity[k] THEN Refilled(k) + 1 ELSE Capacity[k]
<1>1. now' = now + 1 /\ limiters' = limiters
    BY DEF Tick
<1>2. now \in Nat /\ Capacity[k] \in Nat
    BY BucketsAssumption DEF TypeOK
<1>3. CASE k \in DOMAIN limiters
    <2>1. Bucket(k) = limiters[k] /\ Bucket(k)' = limiters[k]
        BY <1>1, <1>3 DEF Bucket
    <2>2. limiters[k].tokens \in Nat /\ limiters[k].last \in Nat /\ limiters[k].last <= now
        BY <1>3 DEF TypeOK
    <2> QED
        BY <1>1, <1>2, <2>1, <2>2 DEF Refilled
<1>4. CASE k \notin DOMAIN limiters
    <2>1. /\ Bucket(k) = [tokens |-> Capacity[k], last |-> now, lastRequest |-> now]
          /\ Bucket(k)' = [tokens |-> Capacity[k], last |-> now + 1, lastRequest |-> now + 1]
        BY <1>1, <1>4 DEF Bucket, NewBucket
    <2> QED
        BY <1>1, <1>2, <2>1 DEF Refilled
<1> QED
    BY <1>3, <1>4

-----------------------------------------------------------------------------
(* The inductive invariant *)

\* Every initial state satisfies the inductive invariant.
THEOREM InitEstablishes == Init => IndInv
BY BucketsAssumption DEF Init, IndInv, TypeOK, LastOrder, SpentAndLeft, Refilled, Bucket, NewBucket

\* An allowed request keeps the invariant.
LEMMA AllowKeeps ==
    ASSUME IndInv, NEW k \in Keys, Allow(k)
    PROVE  IndInv'
<1> USE DEF IndInv
<1> DEFINE b == [tokens |-> Refilled(k) - Cost[k], last |-> now, lastRequest |-> now]
<1>1. /\ limiters' = [j \in DOMAIN limiters \cup {k} |-> IF j = k THEN b ELSE limiters[j]]
      /\ now' = now /\ cleaning' = cleaning
      /\ answer' = [answer EXCEPT ![k] = "allowed"]
      /\ spent' = [spent EXCEPT ![k] = @ + Cost[k]]
      /\ Refilled(k) >= Cost[k]
    BY DEF Allow, Stored
<1>2. /\ Refilled(k) \in Nat /\ Refilled(k) <= Capacity[k]
      /\ Cost[k] \in Nat \ {0} /\ Capacity[k] \in Nat /\ now \in Nat
    BY RefilledType, BucketsAssumption DEF TypeOK
<1>3. b \in [tokens : Nat, last : Nat, lastRequest : Nat] /\ b.tokens <= Capacity[k]
    BY <1>1, <1>2
<1>4. TypeOK'
    <2>1. \A j \in DOMAIN limiters' :
             /\ limiters'[j] \in [tokens : Nat, last : Nat, lastRequest : Nat]
             /\ limiters'[j].tokens <= Capacity[j]
             /\ limiters'[j].last <= now' /\ limiters'[j].lastRequest <= now'
        <3> SUFFICES ASSUME NEW j \in DOMAIN limiters'
                     PROVE  /\ limiters'[j] \in [tokens : Nat, last : Nat, lastRequest : Nat]
                            /\ limiters'[j].tokens <= Capacity[j]
                            /\ limiters'[j].last <= now' /\ limiters'[j].lastRequest <= now'
            OBVIOUS
        <3>1. CASE j = k
            BY <3>1, <1>1, <1>2, <1>3
        <3>2. CASE j # k
            BY <3>2, <1>1 DEF TypeOK
        <3> QED
            BY <3>1, <3>2
    <2>2. spent' \in [Keys -> Nat]
        BY <1>1, <1>2 DEF TypeOK
    <2> QED
        BY <1>1, <2>1, <2>2 DEF TypeOK
<1>5. LastOrder'
    BY <1>1, <1>2 DEF LastOrder
<1>6. SpentAndLeft'
    <2> SUFFICES ASSUME NEW j \in Keys
                 PROVE  spent'[j] + Refilled(j)' <= Capacity[j] + now'
        BY DEF SpentAndLeft
    <2>1. spent[j] + Refilled(j) <= Capacity[j] + now
        BY DEF SpentAndLeft
    <2>2. CASE j = k
        BY <2>1, <2>2, <1>1, <1>2, AllowTakes DEF TypeOK
    <2>3. CASE j # k
        BY <2>1, <2>3, <1>1, AllowTakes DEF TypeOK
    <2> QED
        BY <2>2, <2>3
<1> QED
    BY <1>4, <1>5, <1>6

\* A refused request keeps the invariant.
LEMMA RefuseKeeps ==
    ASSUME IndInv, NEW k \in Keys, Refuse(k)
    PROVE  IndInv'
<1> USE DEF IndInv
<1>1. /\ limiters' = [j \in DOMAIN limiters \cup {k} |-> IF j = k THEN Bucket(k) ELSE limiters[j]]
      /\ now' = now /\ cleaning' = cleaning /\ spent' = spent
      /\ answer' = [answer EXCEPT ![k] = "refused"]
    BY DEF Refuse, Stored
<1>2. /\ Bucket(k) \in [tokens : Nat, last : Nat, lastRequest : Nat]
      /\ Bucket(k).tokens <= Capacity[k] /\ Bucket(k).last <= now
    BY BucketType
<1>3. Bucket(k).last <= Bucket(k).lastRequest /\ Bucket(k).lastRequest <= now
    BY DEF Bucket, NewBucket, TypeOK, LastOrder
<1>4. TypeOK'
    BY <1>1, <1>2, <1>3 DEF TypeOK
<1>5. LastOrder'
    BY <1>1, <1>3 DEF LastOrder
<1>6. SpentAndLeft'
    BY <1>1, RefuseTakesNothing DEF SpentAndLeft
<1> QED
    BY <1>4, <1>5, <1>6

\* The cleanup keeps the invariant.
LEMMA CleanupKeeps ==
    ASSUME IndInv, Cleanup
    PROVE  IndInv'
<1> USE DEF IndInv
<1>1. limiters' = [j \in {i \in DOMAIN limiters : ~Expired(i)} |-> limiters[j]]
    BY DEF Cleanup
<1>2. UNCHANGED <<now, cleaning, answer, spent>>
    BY DEF Cleanup
<1>3. TypeOK' /\ LastOrder'
    BY <1>1, <1>2 DEF TypeOK, LastOrder
<1>4. SpentAndLeft'
    BY <1>2, CleanupTakesNothing DEF SpentAndLeft
<1> QED
    BY <1>3, <1>4

\* The passing of time keeps the invariant.
LEMMA TickKeeps ==
    ASSUME IndInv, Tick
    PROVE  IndInv'
<1> USE DEF IndInv
<1>1. /\ now' = now + 1 /\ limiters' = limiters /\ cleaning' = cleaning /\ spent' = spent
      /\ answer' = [k \in Keys |-> "none"]
    BY DEF Tick
<1>2. TypeOK' /\ LastOrder'
    BY <1>1 DEF TypeOK, LastOrder
<1>3. SpentAndLeft'
    <2> SUFFICES ASSUME NEW k \in Keys
                 PROVE  spent'[k] + Refilled(k)' <= Capacity[k] + now'
        BY DEF SpentAndLeft
    <2>1. spent[k] + Refilled(k) <= Capacity[k] + now
        BY DEF SpentAndLeft
    <2>2. /\ Refilled(k) \in Nat /\ Refilled(k) <= Capacity[k] /\ Capacity[k] \in Nat
          /\ spent[k] \in Nat /\ now \in Nat
        BY RefilledType, BucketsAssumption DEF TypeOK
    <2>3. Refilled(k)' <= Refilled(k) + 1
        BY <2>2, TickAdds
    <2>4. Refilled(k)' \in Nat
        BY <2>2, TickAdds
    <2> QED
        BY <1>1, <2>1, <2>2, <2>3, <2>4
<1> QED
    BY <1>2, <1>3

\* Every step keeps the inductive invariant.
THEOREM IndInvInductive == IndInv /\ [Next]_vars => IndInv'
<1> SUFFICES ASSUME IndInv, [Next]_vars
             PROVE  IndInv'
    OBVIOUS
<1>1. CASE Tick
    BY <1>1, TickKeeps
<1>2. CASE Cleanup
    BY <1>2, CleanupKeeps
<1>3. CASE StopCleanup
    BY <1>3 DEF StopCleanup, IndInv, TypeOK, LastOrder, SpentAndLeft, Refilled, Bucket, NewBucket
<1>4. ASSUME NEW k \in Keys, CheckLimit(k)
      PROVE  IndInv'
    BY <1>4, AllowKeeps, RefuseKeeps DEF CheckLimit
<1>5. CASE UNCHANGED vars
    BY <1>5 DEF vars, IndInv, TypeOK, LastOrder, SpentAndLeft, Refilled, Bucket, NewBucket
<1> QED
    BY <1>1, <1>2, <1>3, <1>4, <1>5 DEF Next

\* The inductive invariant holds in every reachable state.
THEOREM Invariance == Spec => []IndInv
BY InitEstablishes, IndInvInductive, PTL DEF Spec

\* Buckets hold between nothing and their capacity, for any number of keys.
THEOREM TypeCorrect == Spec => []TypeOK
BY Invariance, PTL DEF IndInv

\* No key ever gets more than its burst and what its rate gives: dropping
\* buckets gives nobody a token.
THEOREM RateBounded == Spec => []RateBound
<1>1. IndInv => RateBound
    <2> SUFFICES ASSUME IndInv, NEW k \in Keys
                 PROVE  spent[k] <= Capacity[k] + now
        BY DEF RateBound
    <2>1. spent[k] + Refilled(k) <= Capacity[k] + now
        BY DEF IndInv, SpentAndLeft
    <2>2. Refilled(k) \in Nat /\ spent[k] \in Nat /\ Capacity[k] \in Nat /\ now \in Nat
        BY RefilledType, BucketsAssumption DEF IndInv, TypeOK
    <2> QED
        BY <2>1, <2>2
<1> QED
    BY <1>1, Invariance, PTL

-----------------------------------------------------------------------------
(* The refinement *)

\* No buckets stand for full ones.
LEMMA InitRefines == Init => Ideal!Init
<1> SUFFICES ASSUME Init
             PROVE  Level = Capacity /\ answer = [k \in Keys |-> "none"]
    BY DEF Ideal!Init
<1>1. \A k \in Keys : Refilled(k) = Capacity[k]
    <2> SUFFICES ASSUME NEW k \in Keys
                 PROVE  Refilled(k) = Capacity[k]
        OBVIOUS
    <2>1. DOMAIN limiters = {} /\ now = 0
        BY DEF Init
    <2>2. Bucket(k) = [tokens |-> Capacity[k], last |-> 0, lastRequest |-> 0]
        BY <2>1 DEF Bucket, NewBucket
    <2> QED
        BY <2>1, <2>2, BucketsAssumption DEF Refilled
<1>2. Level = [k \in Keys |-> Capacity[k]]
    BY <1>1 DEF Level
<1> QED
    BY <1>2, BucketsAssumption DEF Init

\* A step that leaves what every request would find leaves the ideal buckets.
LEMMA LevelStays ==
    ASSUME \A k \in Keys : Refilled(k)' = Refilled(k)
    PROVE  Level' = Level
BY DEF Level

\* Every step of the manager is one of the everlasting buckets, or a stutter.
LEMMA StepRefines ==
    ASSUME IndInv, Next
    PROVE  [Ideal!Next]_<<Level, answer>>
<1>1. CASE Tick
    <2>1. Level' = [k \in Keys |-> IF Level[k] < Capacity[k] THEN Level[k] + 1 ELSE Capacity[k]]
        BY <1>1, TickAdds DEF Level, IndInv
    <2> QED
        BY <1>1, <2>1 DEF Tick, Ideal!Next, Ideal!Tick
<1>2. CASE Cleanup
    BY <1>2, CleanupTakesNothing, LevelStays DEF Cleanup, IndInv
<1>3. CASE StopCleanup
    BY <1>3 DEF StopCleanup, Level, Refilled, Bucket, NewBucket
<1>4. ASSUME NEW k \in Keys, Allow(k)
      PROVE  Ideal!Allow(k)
    <2>1. Level' = [Level EXCEPT ![k] = @ - Cost[k]]
        BY <1>4, AllowTakes DEF Level, IndInv
    <2>2. Level[k] >= Cost[k]
        BY <1>4 DEF Allow, Level
    <2> QED
        BY <1>4, <2>1, <2>2 DEF Allow, Ideal!Allow
<1>5. ASSUME NEW k \in Keys, Refuse(k)
      PROVE  Ideal!Refuse(k)
    BY <1>5, RefuseTakesNothing, LevelStays DEF Refuse, Level, Ideal!Refuse
<1> QED
    BY <1>1, <1>2, <1>3, <1>4, <1>5 DEF Next, CheckLimit, Ideal!Next

\* The manager implements buckets that are never dropped.
THEOREM BucketRefinement == Spec => ImplementsTokenBucket
<1>1. IndInv /\ [Next]_vars => [Ideal!Next]_<<Level, answer>>
    <2> SUFFICES ASSUME IndInv, [Next]_vars
                 PROVE  [Ideal!Next]_<<Level, answer>>
        OBVIOUS
    <2>1. CASE UNCHANGED vars
        BY <2>1 DEF vars, Level, Refilled, Bucket, NewBucket
    <2> QED
        BY <2>1, StepRefines
<1> QED
    BY <1>1, InitRefines, Invariance, PTL DEF Spec, ImplementsTokenBucket, Ideal!Spec

=============================================================================
