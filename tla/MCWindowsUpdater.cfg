\* Installations and recoveries, either process gone anywhere.
SPECIFICATION Spec
CONSTANTS
    Version <- Versions
    MaxInstalls = 2
    MaxCrashes = 2
INVARIANTS
    TypeOK
    ServesWhole
    HistoryIsTrue
PROPERTIES
    ImplementsTransaction
CHECK_DEADLOCK FALSE
