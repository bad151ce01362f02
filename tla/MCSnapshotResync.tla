-------------------------- MODULE MCSnapshotResync --------------------------
(***************************************************************************)
(* SnapshotResync with three shards, which are sent in the order 2, 1, 3:  *)
(* shard 2 is in v_chunk 0, and 1 and 3 in v_chunk 1, of which 3 is open.  *)
(***************************************************************************)
EXTENDS SnapshotResync

\* Shard 2 has two batches of two blobs, shard 1 one of a blob and one of a
\* deleted blob, and shard 3 is empty.
MCShards == 1..3
MCshard_lsn == [s \in MCShards |-> s]
MCv_chunk_num == [s \in MCShards |-> IF s = 2 THEN 0 ELSE 1]
MCSealed == {1, 2}
MCblobs == <<<<11, 12>>, <<21, 22, 23, 24>>, <<>>>>
MCTombstones == {12}
MCblob_size == [b \in 11..24 |-> IF b \in {11, 24} THEN 2 ELSE 1]

=============================================================================
