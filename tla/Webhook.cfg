SPECIFICATION FairSpec
CONSTANTS
    Items = {n1, n2, n3, n4}
    QueueSize = 2
    MaxRetries = 1
    Threshold = 2
    Recovery = 2
    Nothing = Nothing
INVARIANTS
    TypeOK
    BreakerIsConsistent
    ReceivedAsTried
PROPERTY ImplementsNotifier
\* Once the sender has stopped, or the process died, nothing more happens.
CHECK_DEADLOCK FALSE
