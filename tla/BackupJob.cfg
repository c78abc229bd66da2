\* Three reads of stdout, a kernel pipe of two: the tool blocks, and runs ahead.
SPECIFICATION FairSpec
CONSTANTS
    Chunks = 3
    OsPipe = 2
INVARIANTS
    TypeOK
    SuccessIsComplete
    MetadataDescribesObject
    FailureLeavesNoData
    NothingOutlivesTheJob
    TimeoutLeavesNoCircle
PROPERTIES
    JobEndsUnlessStranded
    ImplementsBackup
    EveryStepCounts
\* A job that has ended does nothing more.
CHECK_DEADLOCK FALSE
