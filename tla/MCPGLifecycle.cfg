SPECIFICATION FairSpec
CONSTANTS
    p1 = p1
    p2 = p2
    g1 = g1
    g2 = g2
    c1 = c1
    NULL = NULL
    PGs <- MCPGs
    Groups <- MCGroups
    Chunks <- MCChunks
    NumChunk = 1
    MaxCrash = 2
    MaxResync = 1
CONSTRAINT Explored
CHECK_DEADLOCK FALSE
INVARIANTS
    AssertsHold
    OneOwner
    NothingLeaks
PROPERTY
    ExitEnds
