CONSTANTS
    Chunks <- MCChunks
    PDevs <- MCPDevs
    pdev_id <- MCpdev_id
    PGs <- MCPGs
    num_chunk <- MCnum_chunk
    TotalBlks = 0
    Reserved <- MCReserved
    NULL = NULL
    Tasks = {t1, t2, t3}
    EGCThreads = 1
    MaxCreate = 1
    c1 = c1
    c2 = c2
    r1 = r1
    r2 = r2
    d1 = d1
    pg1 = pg1
SPECIFICATION Spec
INVARIANTS
    AssertsHold
    InUseIffOpen
    ReadNeverBlocks
    DrainedMeansNoGC
PROPERTY KeepsContract
SYMMETRY GCSymmetry
CHECK_DEADLOCK FALSE
