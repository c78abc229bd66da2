SPECIFICATION FairSpec
CONSTANTS
    Chunks = 2
    OsPipe = 1
PROPERTY JobEnds
CHECK_DEADLOCK FALSE
