\* Every order of messages, breaks, preemptions, cancellations and deadlines.
SPECIFICATION Spec
CONSTANTS
    Keeper = {k1}
    RetryDelay = 1
    ReadDeadline = 1
    ConnectionLife = 2
    YieldTime = 5
    RefreshLimit = 1
    HandshakeLimit = 1
    ActivationLimit = 1
    UsageLimit = 2
INVARIANTS
    TypeOK
    NothingOutlives
PROPERTIES
    Yields
