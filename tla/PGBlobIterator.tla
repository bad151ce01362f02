--------------------------- MODULE PGBlobIterator ---------------------------
(***************************************************************************)
(* The leader's side of a baseline resync (pg_blob_iterator.cpp): an       *)
(* iterator over the shards of a pg and the blobs of each, which is asked  *)
(* for one object at a time.  The object <<0, 0>> is the metadata of the   *)
(* pg, <<s, 0>> that of shard s, <<s, k>> the k-th batch of blobs of s.    *)
(*                                                                         *)
(* The operators take the iterator as a record and return what the method  *)
(* makes of it, so that SnapshotResync can keep it in raft's user_ctx.     *)
(* The shards and blobs are the ones the leader had when the snapshot was  *)
(* taken: constants.                                                       *)
(***************************************************************************)
EXTENDS Integers, FiniteSets, SequencesExt

CONSTANTS
    Shards,          \* sequence numbers, from 1
    shard_lsn,       \* shard -> lsn of its creation
    v_chunk_num,     \* shard -> v_chunk
    Sealed,          \* the shards that are sealed; the others are open
    blobs,           \* shard -> sequence of its blobs, by blob id
    Tombstones,      \* the deleted blobs
    blob_size,       \* blob -> bytes
    max_batch_size,
    END,             \* shard_list_end_marker
    NULL

ASSUME ShardAssumption ==
    /\ Shards \subseteq Nat \ {0}
    /\ shard_lsn \in [Shards -> Nat \ {0}]
    /\ DOMAIN v_chunk_num = Shards /\ DOMAIN blobs = Shards
    /\ Sealed \subseteq Shards

ASSUME OneOpenPerChunk ==
    \A s, t \in Shards : 
       s # t /\ v_chunk_num[s] = v_chunk_num[t] /\ shard_lsn[s] < shard_lsn[t]
         => s \in Sealed

objId(shard_seq_num, batch_id) == <<shard_seq_num, batch_id>>
LAST_OBJ_ID == objId(END, 0)

ShardsUpTo(lsn) == {s \in Shards : shard_lsn[s] <= lsn}

\* "to ensure open shards positioned after sealed shards within each chunk"
ShardBefore(a, b) ==
    IF v_chunk_num[a] # v_chunk_num[b] THEN v_chunk_num[a] < v_chunk_num[b]
    ELSE shard_lsn[a] < shard_lsn[b]

SnapshotShards(lsn) == SetToSortSeq(ShardsUpTo(lsn), ShardBefore)

\* cur_shard_idx counts from 1; 0 stands for the -1 of the code.
NewIterator(lsn) ==
    [shard_list |-> SnapshotShards(lsn), cur_obj_id |-> objId(0, 0),
     cur_shard_idx |-> 0, cur_blob_list |-> <<>>, cur_start_blob_idx |-> 0,
     cur_batch_blob_count |-> 0, prefetched_blobs |-> {},
     inflight_prefetch_bytes |-> 0]

-----------------------------------------------------------------------------
(* The cursor *)

AtShard(it, idx, id) ==
    [it EXCEPT !.cur_obj_id = id, !.cur_shard_idx = idx,
               !.cur_start_blob_idx = 0, !.cur_batch_blob_count = 0]

expected_next_obj_id(it) ==
    LET shard == it.cur_obj_id[1]
        batch == it.cur_obj_id[2]
    IN IF \/ it.cur_start_blob_idx + it.cur_batch_blob_count
               < Len(it.cur_blob_list)
          \/ batch = 0 /\ it.cur_blob_list = <<>>
       THEN objId(shard, batch + 1)
       ELSE IF it.cur_shard_idx < Len(it.shard_list)
       THEN objId(it.shard_list[it.cur_shard_idx + 1], 0)
       ELSE LAST_OBJ_ID

\* "this may be a request for resuming from specific shard"
IsResume(it, id) == it.cur_obj_id[1] = 0 /\ id[1] # 0 /\ id[2] = 0

\* The result of update_cursor.
update_cursor_valid(it, id) ==
    \/ id \in {LAST_OBJ_ID, it.cur_obj_id}
    \/ IF IsResume(it, id) THEN Contains(it.shard_list, id[1])
                           ELSE id = expected_next_obj_id(it)

\* Its effect, when the result is true.
update_cursor(it, id) ==
    IF id \in {LAST_OBJ_ID, it.cur_obj_id} THEN it
    ELSE IF IsResume(it, id)
    THEN AtShard(it, SelectInSeq(it.shard_list, LAMBDA s : s = id[1]), id)
    ELSE IF id[1] # it.cur_obj_id[1]
    THEN AtShard(it, it.cur_shard_idx + 1, id)
    ELSE [it EXCEPT !.cur_obj_id = id, !.cur_batch_blob_count = 0,
                    !.cur_start_blob_idx = @ + it.cur_batch_blob_count]

\* Mutant of reset_cursor: the cursor stays where it is.
ResetForgotten(it) == it

\* The cur_blob_list_ it declares is a local variable: the member keeps its
\* blobs, and so do the prefetched ones.
reset_cursor(it) == AtShard(it, 0, objId(0, 0))

-----------------------------------------------------------------------------
(* The objects *)

\* The bytes of the blobs at the given places of the blob list that are not
\* deleted.
Live(it, places) ==
    {k \in places : it.cur_blob_list[k] \notin Tombstones}
Bytes(it, places) ==
    MapThenSumSet(LAMBDA k : blob_size[it.cur_blob_list[k]], Live(it, places))

\* Reads blobs from the batch on, those it has not read yet, while fewer than
\* twice the size of a batch are in flight.
prefetch_blobs_snapshot_data(it) ==
    LET todo == {k \in Live(it, it.cur_start_blob_idx + 1
                                  .. Len(it.cur_blob_list)) :
                   it.cur_blob_list[k] \notin it.prefetched_blobs}
        before(k) == Bytes(it, {j \in todo : j < k})
        list == {k \in todo : it.inflight_prefetch_bytes + before(k)
                                < 2 * max_batch_size}
    IN [it EXCEPT !.prefetched_blobs =
                     @ \cup {it.cur_blob_list[k] : k \in list},
                  !.inflight_prefetch_bytes = @ + Bytes(it, list)]

\* generate_shard_blob_list reads the blobs of the shard from the index, and
\* create_shard_snapshot_data starts to prefetch them.
ReadShard(it) ==
    prefetch_blobs_snapshot_data(
       [it EXCEPT !.cur_blob_list = blobs[it.cur_obj_id[1]]])

\* The places of the list that go into the batch: up to and including the
\* blob that makes it max_batch_size large.
BatchPlaces(it) ==
    LET rest == it.cur_start_blob_idx + 1 .. Len(it.cur_blob_list)
    IN {k \in rest :
          Bytes(it, {j \in rest : j < k}) < max_batch_size}

BatchBlobs(it) == {it.cur_blob_list[k] : k \in Live(it, BatchPlaces(it))}

\* "blob {} not found in prefetched blob map" does not happen.
AllPrefetched(it) ==
    BatchBlobs(it) \subseteq prefetch_blobs_snapshot_data(it).prefetched_blobs

\* create_blobs_snapshot_data when it finds every blob.
ReadBatch(it) ==
    LET pre == prefetch_blobs_snapshot_data(it)
    IN [pre EXCEPT !.prefetched_blobs = @ \ BatchBlobs(it),
                   !.inflight_prefetch_bytes = @ - Bytes(it, BatchPlaces(it)),
                   !.cur_batch_blob_count = Cardinality(BatchPlaces(it))]

is_last_batch(it) ==
    it.cur_start_blob_idx + Cardinality(BatchPlaces(it)) = Len(it.cur_blob_list)

IteratorType(it) ==
    /\ it.cur_shard_idx \in 0..Len(it.shard_list)
    /\ it.cur_start_blob_idx + it.cur_batch_blob_count \in Nat
    /\ it.inflight_prefetch_bytes \in Nat
    /\ it.cur_batch_blob_count <= Len(it.cur_blob_list)

=============================================================================
