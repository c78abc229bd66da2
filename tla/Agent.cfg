SPECIFICATION FairSpec
CONSTANTS
    MaxRuns = 2
    MaxGen = 3
    MaxHups = 3
INVARIANTS
    TypeOK
    ExitIsOrderly
PROPERTIES
    OldGenerationsOnlyDrain
    GenerationsArePools
    ReloadReschedules
    QueuedTermStops
\* The agent exits, or dies.
CHECK_DEADLOCK FALSE
