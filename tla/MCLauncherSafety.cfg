\* Installations, rollbacks and image changes, cut off anywhere.
SPECIFICATION Spec
CONSTANTS
    Version <- ThreeVersions
    Image <- Images
    MinLauncher <- Needs
    MaxChanges = 5
INVARIANTS
    TypeOK
    ResultsAreTrue
PROPERTIES
    JournalExcludesInstall
    ImplementsTransaction
CHECK_DEADLOCK FALSE
