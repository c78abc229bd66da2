\* Two containers, two slots, an expression that cron refuses, two versions of the
\* rest of a specification, three entries; no symmetry, for liveness.
SPECIFICATION FairSpec
CONSTANTS
    Containers = {c1, c2}
    Crons = {"daily", "hourly", "bad"}
    ValidCrons = {"daily", "hourly"}
    Details = {"old", "new"}
    Limit = 2
    MaxId = 3
    NoJob = NoJob
INVARIANTS
    TypeOK
    EntriesAreRecorded
    RecordedAreScheduled
    SlotsCountBackups
    OverlapNeedsReschedule
PROPERTIES
    TokensReturn
    ImplementsPool
\* A stopped scheduler does nothing more.
CHECK_DEADLOCK FALSE
