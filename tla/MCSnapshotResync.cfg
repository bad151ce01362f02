CONSTANTS
    Shards <- MCShards
    shard_lsn <- MCshard_lsn
    v_chunk_num <- MCv_chunk_num
    Sealed <- MCSealed
    blobs <- MCblobs
    Tombstones <- MCTombstones
    blob_size <- MCblob_size
    max_batch_size = 2
    END = END
    NULL = NULL
    Lsns = {2, 3}
    LeaderContinues = FALSE
    MaxLost = 1
    MaxFail = 1
    MaxIndexFail = 0
    MaxTimeout = 1
    MaxRace = 1
    MaxCrash = 2
SPECIFICATION Spec
 
 
INVARIANT AssertsHold
PROPERTY WritesIntoChunkInUse
CHECK_DEADLOCK FALSE
