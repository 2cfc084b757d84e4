SPECIFICATION FairSpec
CONSTANTS
    Shutdowns = {"shutdown"}
    Calls = {"call"}
    MaxLeases = 1
PROPERTY UpdateReturns
CHECK_DEADLOCK FALSE
