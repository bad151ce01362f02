CONSTANTS
    Chunks <- MCChunks
    PDevs = {d1}
    pdev_id <- MCpdev_id
    PGs <- MCPGs
    num_chunk <- MCnum_chunk
    TotalBlks = 3
    Reserved <- MCReserved
    NULL = NULL
    PG = pg1
    Blobs <- MCBlobs
    Shards <- MCShards
    shard_of <- MCshard_of
    OldBlobs <- MCOldBlobs
    OldShards <- MCOldShards
    ClientsWait = TRUE
    MaxGC = 2
    MaxCrash = 2
    NONE = NONE
    TOMBSTONE = TOMBSTONE
    c1 = c1
    r1 = r1
    r2 = r2
    d1 = d1
    pg1 = pg1
    s1 = s1
    s2 = s2
    b1 = b1
    b2 = b2
SPECIFICATION Spec
INVARIANTS
    BlobsReadable
    NoResurrection
    ReservedHoldNothing
    AssertsHold
    SettledState
SYMMETRY ReservedSymmetry
CHECK_DEADLOCK FALSE
