\* A pc run chains its redeem task while web handlers and scheduler start,
\* stop and duplicate tasks, the program closes, crashes and restarts.
SPECIFICATION Spec
CONSTANTS
    a1 = a1
    Account <- OneAccount
    TaskType <- ChainTypes
    MaxRuns = 3
    MaxAttempts = 2
INVARIANTS
    TypeOK
    OneTaskPerKey
    LiveRowsAreOwned
    ClosedIsQuiet
    PreparedIsQuiet
PROPERTIES
    VerdictsStand
CHECK_DEADLOCK FALSE
