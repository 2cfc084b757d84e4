----------------------------- MODULE RateLimiter -----------------------------
(***************************************************************************)
(* The token buckets of src/internal/security/limiter.go, per key, with    *)
(* the cleanup that deletes the buckets of idle keys.  Each operation runs *)
(* under the manager's mutex and is one action.                            *)
(*                                                                         *)
(* Time is counted in ticks and tokens in units, one unit per tick: a      *)
(* request of key k costs Cost[k] units (ticks per token, the inverse of   *)
(* the rate), and Capacity[k] units are the burst.  A key is always        *)
(* checked with the same rate and burst (gateway_server.go:174,            *)
(* tcp_server.go:130), so the branch that changes a bucket's is not taken. *)
(***************************************************************************)
EXTENDS Integers

CONSTANTS
    Keys,       \* "conn" and "msg" keys
    Cost,       \* units one request of a key takes
    Capacity,   \* units in a full bucket of a key
    Expiry,     \* ticks without an allowed request until a bucket may go
    MaxTime     \* bound: ticks

ASSUME BucketsAssumption ==
    /\ Cost \in [Keys -> Nat \ {0}]
    /\ Capacity \in [Keys -> Nat \ {0}]
    /\ \A k \in Keys : Cost[k] <= Capacity[k]
ASSUME TimesAssumption == Expiry \in Nat /\ MaxTime \in Nat

\* A bucket has filled up by the time it may be deleted: the gateway's buckets
\* fill in 5 seconds and a connection's in one, and Expiry is an hour.
ASSUME ExpiryAssumption == \A k \in Keys : Capacity[k] <= Expiry

VARIABLES
    now,        \* the clock
    limiters,   \* the map from keys to buckets
    cleaning,   \* the cleanup goroutine runs
    answer,     \* what CheckLimit last returned to each key in this tick
    spent       \* history: units of all requests allowed to each key

vars == <<now, limiters, cleaning, answer, spent>>

Init ==
    /\ now = 0
    /\ limiters = [k \in {} |-> 0]
    /\ cleaning = TRUE
    /\ answer = [k \in Keys |-> "none"]
    /\ spent = [k \in Keys |-> 0]

\* Mutation: a new bucket has no tokens.
EmptyBucket(k) == [tokens |-> 0, last |-> now, lastRequest |-> now]

\* rate.NewLimiter: a full bucket.
NewBucket(k) == [tokens |-> Capacity[k], last |-> now, lastRequest |-> now]

\* The bucket CheckLimit finds or makes.
Bucket(k) == IF k \in DOMAIN limiters THEN limiters[k] ELSE NewBucket(k)

\* Mutation: nothing stops the tokens at the burst.
RefilledWithoutCap(k) == Bucket(k).tokens + (now - Bucket(k).last)

\* rate.Limiter counts the tokens earned since its last allowed request only
\* when it is asked.
Refilled(k) ==
    LET earned == Bucket(k).tokens + (now - Bucket(k).last)
    IN  IF earned < Capacity[k] THEN earned ELSE Capacity[k]

Stored(k, b) ==
    limiters' = [j \in DOMAIN limiters \cup {k} |-> IF j = k THEN b ELSE limiters[j]]

\* CheckLimit returns true: the token is taken, lastRequest is now.
Allow(k) ==
    /\ Refilled(k) >= Cost[k]
    /\ Stored(k, [tokens |-> Refilled(k) - Cost[k], last |-> now, lastRequest |-> now])
    /\ answer' = [answer EXCEPT ![k] = "allowed"]
    /\ spent' = [spent EXCEPT ![k] = @ + Cost[k]]
    /\ UNCHANGED <<now, cleaning>>

\* CheckLimit returns false: a bucket too empty stays as it is.
Refuse(k) ==
    /\ Refilled(k) < Cost[k]
    /\ Stored(k, Bucket(k))
    /\ answer' = [answer EXCEPT ![k] = "refused"]
    /\ UNCHANGED <<now, cleaning, spent>>

CheckLimit(k) == Allow(k) \/ Refuse(k)

\* Mutation: "expiry := 1", a tick instead of an hour.
ExpiredAtOnce(k) == now - limiters[k].lastRequest > 1

Expired(k) == now - limiters[k].lastRequest > Expiry

\* Every five minutes, at any tick here.
Cleanup ==
    /\ cleaning
    /\ limiters' = [k \in {j \in DOMAIN limiters : ~Expired(j)} |-> limiters[k]]
    /\ UNCHANGED <<now, cleaning, answer, spent>>

StopCleanup ==
    /\ cleaning
    /\ cleaning' = FALSE
    /\ UNCHANGED <<now, limiters, answer, spent>>

Tick ==
    /\ now < MaxTime
    /\ now' = now + 1
    /\ answer' = [k \in Keys |-> "none"]
    /\ UNCHANGED <<limiters, cleaning, spent>>

Next == Tick \/ Cleanup \/ StopCleanup \/ \E k \in Keys : CheckLimit(k)

Spec == Init /\ [][Next]_vars

-----------------------------------------------------------------------------
(* Properties *)

\* The type invariant.  No bucket holds more than its capacity or less than
\* nothing, and none was last used in the future.
TypeOK ==
    /\ now \in Nat
    /\ cleaning \in BOOLEAN
    /\ answer \in [Keys -> {"none", "allowed", "refused"}]
    /\ spent \in [Keys -> Nat]
    /\ DOMAIN limiters \subseteq Keys
    /\ \A k \in DOMAIN limiters :
          /\ limiters[k] \in [tokens : Nat, last : Nat, lastRequest : Nat]
          /\ limiters[k].tokens <= Capacity[k]
          /\ limiters[k].last <= now /\ limiters[k].lastRequest <= now

\* Over any length of time a key gets no more than the burst and what the rate
\* gives in that time, however often its bucket is dropped and made again.
RateBound == \A k \in Keys : spent[k] <= Capacity[k] + now

\* What a key that asks now finds, whether its bucket exists or not.
Level == [k \in Keys |-> Refilled(k)]

Ideal == INSTANCE TokenBucket WITH level <- Level

\* Dropping the bucket of an idle key cannot be noticed: requests are allowed
\* and refused exactly as by buckets that last for ever.
ImplementsTokenBucket == Ideal!Spec

=============================================================================
