SPECIFICATION FairSpec
CONSTANTS
    Lengths <- Short
    Fails = {4}
    Malformed = {3}
    MaxAbandoned = 2
    MaxFailures = 2
INVARIANTS
    TypeOK
    HandledExactly
    FreedExactlyOnce
    OutlivesThread
PROPERTIES
    FailureEndsSession
    QuitReturns
    QueuedIsHandled
