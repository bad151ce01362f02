-------------------------- MODULE SnapshotReceiver --------------------------
(***************************************************************************)
(* The follower's side of a baseline resync: write_snapshot_obj of         *)
(* replication_state_machine.cpp and snapshot_receive_handler.cpp.         *)
(*                                                                         *)
(* Superblks (pg, shards, the two of the receiver, the snapshot's) are on  *)
(* disk once written; an index entry is on disk with the next checkpoint;  *)
(* the context and the state of the chunks are lost with the process.      *)
(* Each operator below is what one message makes of this state; the answer *)
(* the follower gives to it is set by SnapshotResync.                      *)
(***************************************************************************)
EXTENDS PGBlobIterator

VARIABLES
    handler,        \* m_snp_rcv_handler exists
    ctx,            \* its SnapshotContext, NULL if none
    cp_fut,         \* NULL, or the checkpoint update_snp_info_sb waits for
    pg_exists,
    shard_map,      \* the shards created here
    index,          \* the blobs in the index table
    index_disk,     \* the blobs of the last checkpoint
    in_use,         \* the v_chunks in state INUSE
    snp_info_sb,    \* NULL or [snp_lsn, shard_cursor]
    snp_list_sb,    \* NULL or [snp_lsn, shard_list]
    snapshot_sb     \* lsn of the snapshot, 0 if none

rcvVars == <<handler, ctx, cp_fut, pg_exists, shard_map, index, index_disk,
             in_use, snp_info_sb, snp_list_sb, snapshot_sb>>

invalid_shard_id == 0

AllBlobs == UNION {ToSet(blobs[s]) : s \in Shards}
LiveBlobs(s) == ToSet(blobs[s]) \ Tombstones

\* A new member, or one that has fallen behind: the latter has the shards,
\* and the blobs that were deleted since.
ReceiverInit ==
    /\ handler = FALSE /\ ctx = NULL /\ cp_fut = NULL
    /\ pg_exists \in BOOLEAN
    /\ shard_map = IF pg_exists THEN Shards ELSE {}
    /\ index = IF pg_exists THEN AllBlobs \cap Tombstones ELSE {}
    /\ index_disk = index
    /\ in_use = {v_chunk_num[s] : s \in shard_map \ Sealed}
    /\ snp_info_sb = NULL /\ snp_list_sb = NULL /\ snapshot_sb = 0

-----------------------------------------------------------------------------
(* The context *)

NewContext(lsn, list) ==
    [snp_lsn |-> lsn, shard_list |-> list, shard_cursor |-> invalid_shard_id,
     cur_batch_num |-> 0]

\* load_prev_context_and_metrics: "Always resume from the beginning of the
\* shard".
PrevContext ==
    IF \/ ~pg_exists \/ snp_info_sb = NULL \/ snp_list_sb = NULL
       \/ snp_info_sb.snp_lsn # snp_list_sb.snp_lsn
    THEN NULL
    ELSE [snp_lsn |-> snp_info_sb.snp_lsn,
          shard_list |-> snp_list_sb.shard_list,
          shard_cursor |-> snp_info_sb.shard_cursor, cur_batch_num |-> 0]

\* The context a message finds: the first one after a start loads it.
CurContext == IF handler THEN ctx ELSE PrevContext

get_context_lsn(c) == IF c = NULL THEN -1 ELSE c.snp_lsn
get_shard_cursor(c) == IF c = NULL THEN invalid_shard_id ELSE c.shard_cursor

get_next_shard(c) ==
    LET i == SelectInSeq(c.shard_list, LAMBDA s : s = c.shard_cursor)
    IN IF c = NULL THEN invalid_shard_id
       ELSE IF c.shard_list = <<>> THEN END
       ELSE IF c.shard_cursor = 0 THEN c.shard_list[1]
       ELSE IF i = 0 THEN invalid_shard_id
       ELSE IF i < Len(c.shard_list) THEN c.shard_list[i + 1] ELSE END

is_valid_obj_id(c, id) ==
    IF c = NULL THEN id[1] = 0
    ELSE \/ id[1] = 0
         \/ id[1] = get_next_shard(c) /\ id[2] = 0
         \/ /\ id[1] = c.shard_cursor
            /\ id[2] \in {0, c.cur_batch_num, c.cur_batch_num + 1}

snapshot_offset_for_next_shard(s) ==
    IF s = END THEN LAST_OBJ_ID ELSE objId(s, 0)

\* Where the follower wants to go on when the object it got is not valid.
ResumeOffset(c) ==
    IF get_shard_cursor(c) = invalid_shard_id THEN objId(0, 0)
    ELSE snapshot_offset_for_next_shard(c.shard_cursor)

\* A message that changes nothing but the context it loads.
OnlyLoads ==
    /\ handler' = TRUE /\ ctx' = CurContext
    /\ UNCHANGED <<cp_fut, pg_exists, shard_map, index, index_disk, in_use,
                   snp_info_sb, snp_list_sb, snapshot_sb>>

-----------------------------------------------------------------------------
(* PG metadata *)

CanResume(lsn) ==
    /\ get_context_lsn(CurContext) = lsn
    /\ get_shard_cursor(CurContext) # 0

\* Mutant of CPSettled: pg_destroy waits for no checkpoint.
CPAnyTime == TRUE

\* pg_destroy forces a checkpoint and waits for it, so that the one that
\* update_snp_info_sb started has run its continuation.
CPSettled == cp_fut = NULL


\* "If PG already exists, clean the stale pg resources": pg_destroy,
\* reset_context_and_metrics and process_pg_snapshot_data, whose creation of
\* the pg succeeds or not.
ProcessPG(lsn, list, created) ==
    /\ pg_exists => CPSettled
    /\ handler' = TRUE
    /\ ctx' = NewContext(lsn, list)
    /\ pg_exists' = created
    /\ shard_map' = {} /\ index' = {} /\ index_disk' = {} /\ in_use' = {}
    /\ snp_info_sb' = NULL /\ snp_list_sb' = NULL /\ snapshot_sb' = 0
    /\ UNCHANGED cp_fut

-----------------------------------------------------------------------------
(* Shard metadata *)

\* The allocation for the shard's info selects the chunk; local_create_shard
\* writes the superblk of a shard it does not know.
ProcessShard(s) ==
    /\ handler' = TRUE
    /\ in_use' = in_use \cup {v_chunk_num[s]}
    /\ shard_map' = shard_map \cup {s}
    /\ ctx' = [CurContext EXCEPT !.shard_cursor = s, !.cur_batch_num = 0]
    /\ UNCHANGED <<cp_fut, pg_exists, index, index_disk, snp_info_sb,
                   snp_list_sb, snapshot_sb>>

\* The write of the shard's info fails: its blks are freed, the chunk stays
\* selected.
ShardWriteFails(s) ==
    /\ handler' = TRUE /\ ctx' = CurContext
    /\ in_use' = in_use \cup {v_chunk_num[s]}
    /\ UNCHANGED <<cp_fut, pg_exists, shard_map, index, index_disk,
                   snp_info_sb, snp_list_sb, snapshot_sb>>

-----------------------------------------------------------------------------
(* Blob batches *)

\* update_snp_info_sb: the checkpoint has at least what is in the index now;
\* its continuation will write the cursor, which is the NEXT shard.
StartCP(c, ix) ==
    [pc |-> "flush", init |-> c.shard_cursor = c.shard_list[1],
     shard_cursor |-> get_next_shard(c), index |-> ix]

\* "Release chunk for sealed shard"
ReleaseSealed(s) == IF s \in Sealed THEN in_use \ {v_chunk_num[s]} ELSE in_use

\* Mutant of ProcessBatch: every batch releases the chunk.
ProcessBatchReleases(id, got, is_last) ==
    LET c == [CurContext EXCEPT !.cur_batch_num = id[2]]
    IN /\ is_last => cp_fut = NULL
       /\ handler' = TRUE
       /\ ctx' = c
       /\ index' = index \cup got
       /\ in_use' = ReleaseSealed(c.shard_cursor)
       /\ cp_fut' = IF is_last THEN StartCP(c, index') ELSE cp_fut
       /\ UNCHANGED <<pg_exists, shard_map, index_disk, snp_info_sb,
                      snp_list_sb, snapshot_sb>>

\* process_blobs_snapshot_data with "got" the blobs of the batch that it put
\* into the index.  The last batch waits for the previous checkpoint.
ProcessBatch(id, got, is_last) ==
    LET c == [CurContext EXCEPT !.cur_batch_num = id[2]]
    IN /\ is_last => cp_fut = NULL
       /\ handler' = TRUE
       /\ ctx' = c
       /\ index' = index \cup got
       /\ in_use' = IF is_last THEN ReleaseSealed(c.shard_cursor) ELSE in_use
       /\ cp_fut' = IF is_last THEN StartCP(c, index') ELSE cp_fut
       /\ UNCHANGED <<pg_exists, shard_map, index_disk, snp_info_sb,
                      snp_list_sb, snapshot_sb>>

\* An allocation or a write fails: some of the blobs may be in the index.
BatchFails(id, got) ==
    /\ handler' = TRUE
    /\ ctx' = [CurContext EXCEPT !.cur_batch_num = id[2]]
    /\ index' = index \cup got
    /\ UNCHANGED <<cp_fut, pg_exists, shard_map, index_disk, in_use,
                   snp_info_sb, snp_list_sb, snapshot_sb>>

-----------------------------------------------------------------------------
(* Checkpoints *)


\* The checkpoint is on disk, and the continuation runs: for the first shard
\* it writes the shard list, ...
CPFlushed ==
    /\ cp_fut # NULL /\ cp_fut.pc = "flush"
    /\ index_disk' = index_disk \cup cp_fut.index
    /\ cp_fut' = [cp_fut EXCEPT !.pc = "info"]
    /\ IF cp_fut.init
       THEN /\ snp_info_sb' = NULL
            /\ snp_list_sb' = [snp_lsn |-> ctx.snp_lsn,
                               shard_list |-> ctx.shard_list]
       ELSE UNCHANGED <<snp_info_sb, snp_list_sb>>
    /\ UNCHANGED <<handler, ctx, pg_exists, shard_map, index, in_use,
                   snapshot_sb>>

\* ... and then the info with the cursor.
WriteSnpInfo ==
    /\ cp_fut # NULL /\ cp_fut.pc = "info"
    /\ snp_info_sb' = [snp_lsn |-> ctx.snp_lsn,
                       shard_cursor |-> cp_fut.shard_cursor]
    /\ cp_fut' = NULL
    /\ UNCHANGED <<handler, ctx, pg_exists, shard_map, index, index_disk,
                   in_use, snp_list_sb, snapshot_sb>>

\* A checkpoint of the timer.
BackgroundCP ==
    /\ index_disk # index
    /\ index_disk' = index
    /\ UNCHANGED <<handler, ctx, cp_fut, pg_exists, shard_map, index, in_use,
                   snp_info_sb, snp_list_sb, snapshot_sb>>

-----------------------------------------------------------------------------
(* The end of the transfer, and restarts *)

\* write_snapshot_obj of the last object.
LastObj(lsn) ==
    /\ CurContext # NULL
    /\ handler' = TRUE /\ ctx' = CurContext
    /\ snapshot_sb' = lsn
    /\ UNCHANGED <<cp_fut, pg_exists, shard_map, index, index_disk, in_use,
                   snp_info_sb, snp_list_sb>>

\* apply_snapshot and destroy_context_and_metrics.
ApplySnapshot(lsn) ==
    /\ ctx' = NULL /\ snp_info_sb' = NULL /\ snp_list_sb' = NULL
    /\ snapshot_sb' = lsn
    /\ UNCHANGED <<handler, cp_fut, pg_exists, shard_map, index, index_disk,
                   in_use>>

\* The process ends and starts again: the superblks and the last checkpoint
\* are there, and the chunks of the open shards are in use.
Restart ==
    /\ handler' = FALSE /\ ctx' = NULL /\ cp_fut' = NULL
    /\ index' = index_disk
    /\ in_use' = {v_chunk_num[s] : s \in shard_map \ Sealed}
    /\ UNCHANGED <<pg_exists, shard_map, index_disk, snp_info_sb, snp_list_sb,
                   snapshot_sb>>

ReceiverType ==
    /\ handler \in BOOLEAN /\ pg_exists \in BOOLEAN
    /\ shard_map \subseteq Shards
    /\ index_disk \subseteq index /\ index \subseteq AllBlobs
    /\ in_use \subseteq {v_chunk_num[s] : s \in Shards}
    /\ snapshot_sb \in Nat
    /\ ctx # NULL => ctx.shard_cursor \in Shards \cup {invalid_shard_id, END}
    /\ cp_fut # NULL => cp_fut.pc \in {"flush", "info"}
    /\ snp_info_sb # NULL => snp_info_sb.shard_cursor \in Shards \cup {END}

=============================================================================
