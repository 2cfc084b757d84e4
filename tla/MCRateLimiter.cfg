SPECIFICATION Spec
CONSTANTS
    Keys = {"conn", "msg"}
    Cost <- MCCost
    Capacity <- MCCapacity
    Expiry = 4
    MaxTime = 11
INVARIANTS TypeOK RateBound
PROPERTY ImplementsTokenBucket
