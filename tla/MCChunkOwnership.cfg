CONSTANTS
    Chunks <- MCChunks
    PDevs <- MCPDevs
    pdev_id <- MCpdev_id
    PGs <- MCPGs
    num_chunk <- MCnum_chunk
    TotalBlks = 1
    Reserved <- MCReserved
    NULL = NULL
    c1 = c1
    c2 = c2
    c3 = c3
    r = r
    d1 = d1
    d2 = d2
    pg1 = pg1
    pg2 = pg2
SPECIFICATION Spec
INVARIANTS
    OneOwner
    HeapIsFresh
    
PROPERTY ChunksMoveOnlyByGC
SYMMETRY ChunkSymmetry
CONSTRAINT CountBound
CHECK_DEADLOCK FALSE
