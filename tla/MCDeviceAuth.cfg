\* Keepers, tasks, edits, deletion and verification of one account; an edit may
\* change the password, or the user or device code.
CONSTANTS
    c1 = c1
    c2 = c2
    c3 = c3
    d1 = d1
    d2 = d2
    Credential <- Credentials
    Device <- DeviceOf
    Keeper = {k1}
    Task = {t1}
    Page = {p1}
    Object = {o1}
    None = None
    MaxEdits = 1
SYMMETRY Symmetry
CONSTRAINT BeginsWithThePair
SPECIFICATION AuthSpec
INVARIANTS
    AuthTypeOK
    OldLoginsAreCleared
PROPERTY
    VerifiedOnEvidence
CHECK_DEADLOCK FALSE
