SPECIFICATION FairSpec
CONSTANTS
    Chunks = 2
    OsPipe = 1
INVARIANT MetadataMeansWhole
CHECK_DEADLOCK FALSE
