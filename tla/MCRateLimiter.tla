--------------------------- MODULE MCRateLimiter ---------------------------
(* A connection key and a message key with different rates; buckets that fill  *)
(* just before they may be dropped.                                            *)
EXTENDS RateLimiter

MCCost == [k \in Keys |-> IF k = "conn" THEN 2 ELSE 1]
MCCapacity == [k \in Keys |-> IF k = "conn" THEN 4 ELSE 3]

=============================================================================
