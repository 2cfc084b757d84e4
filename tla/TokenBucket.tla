----------------------------- MODULE TokenBucket -----------------------------
(* What a rate limiter promises: one bucket per key that is never thrown       *)
(* away.  It gains one unit per tick up to its capacity; an allowed request    *)
(* costs Cost[k] units, and only a request that finds fewer is refused.        *)
EXTENDS Naturals

CONSTANTS Keys, Cost, Capacity

VARIABLES
    level,   \* units in each key's bucket
    answer   \* the last answer given to each key in this tick

Init ==
    /\ level = Capacity
    /\ answer = [k \in Keys |-> "none"]

Tick ==
    /\ level' = [k \in Keys |-> IF level[k] < Capacity[k] THEN level[k] + 1 ELSE Capacity[k]]
    /\ answer' = [k \in Keys |-> "none"]

Allow(k) ==
    /\ level[k] >= Cost[k]
    /\ level' = [level EXCEPT ![k] = @ - Cost[k]]
    /\ answer' = [answer EXCEPT ![k] = "allowed"]

Refuse(k) ==
    /\ level[k] < Cost[k]
    /\ answer' = [answer EXCEPT ![k] = "refused"]
    /\ UNCHANGED level

Next == Tick \/ \E k \in Keys : Allow(k) \/ Refuse(k)

Spec == Init /\ [][Next]_<<level, answer>>

=============================================================================
