CONSTANTS
    Shards <- MCShards
    shard_lsn <- MCshard_lsn
    v_chunk_num <- MCv_chunk_num
    Sealed <- MCSealed
    blobs <- MCblobs
    Tombstones <- MCTombstones
    blob_size <- MCblob_size
    max_batch_size = 2
    END = END
    NULL = NULL
    Lsns = {1, 3}
    LeaderContinues = TRUE
    MaxLost = 1
    MaxFail = 1
    MaxIndexFail = 1
    MaxTimeout = 0
    MaxRace = 0
    MaxCrash = 1
SPECIFICATION FairSpec
INVARIANT LastObjFindsPG
PROPERTY ResyncEnds
CHECK_DEADLOCK FALSE
