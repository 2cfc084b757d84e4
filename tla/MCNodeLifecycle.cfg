SPECIFICATION FairSpec
CONSTANTS
    Shutdowns = {"shutdown1", "shutdown2"}
    Calls = {"call"}
    MaxLeases = 3
INVARIANTS TypeOK StoppedMeansQuiet RegisteredWhileRunning
PROPERTIES StatusAdvances KeyEventuallyGone StopCompletes
\* every life may be over and every lease granted
CHECK_DEADLOCK FALSE
