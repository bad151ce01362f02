----------------------------- MODULE GCRecovery -----------------------------
(***************************************************************************)
(* One gc task at a time on one v_chunk, down to the blob index, the       *)
(* superblks and the checkpoints, with a crash after every step and the    *)
(* boot sequence that follows (gc_manager.cpp, hs_homeobject.cpp           *)
(* on_replica_restart, hs_pg_manager.cpp, hs_shard_manager.cpp,            *)
(* hs_blob_manager.cpp, index_kv.cpp).  Deletes commit while a chunk is    *)
(* copied; puts and seals commit around it.                                *)
(*                                                                         *)
(* A pba is abstracted to its chunk: data[c] are the blobs whose data is   *)
(* in chunk c, and an index entry is the chunk it points to.  The index    *)
(* tables live in a write-back cache; a checkpoint (CP) makes them durable *)
(* together with the lsn they reflect.  After a crash the log is replayed  *)
(* from there: up to dc_lsn before anything else runs, the rest when raft  *)
(* commits it again.                                                       *)
(***************************************************************************)
EXTENDS HeapChunkSelector, Sequences

CONSTANTS
    PG,            \* the pg, with the single v_chunk 0
    Blobs,
    Shards,        \* all in v_chunk 0
    shard_of,      \* [Blobs -> Shards]
    OldBlobs,      \* the blobs put before the model starts
    OldShards,     \* the shards sealed before the model starts
    ClientsWait,   \* whether a shard is sealed only when its puts are answered
    MaxGC, MaxCrash, \* bounds on the number of gc tasks and of crashes
    NONE, TOMBSTONE  \* no index entry; tombstone_pbas

ASSUME RecoveryAssumption ==
    /\ PGs = {PG} /\ num_chunk[PG] = 1
    /\ shard_of \in [Blobs -> Shards]
    /\ OldBlobs \subseteq Blobs /\ OldShards \subseteq Shards
    /\ ClientsWait \in BOOLEAN
    /\ MaxGC \in Nat /\ MaxCrash \in Nat

VARIABLES
    \* Durable.
    pg_sb,         \* the chunk id of v_chunk 0 in the pg superblk
    shard_sb,      \* [Shards -> [p_chunk_id, state]], the shard superblks
    reserved_sb,   \* the chunk ids of the reserved chunk superblks
    gc_task_sb,    \* the gc task superblk, or NULL
    data,          \* [Chunks -> SUBSET Blobs]
    log,           \* the raft log from the start of the model
    disk,          \* what the last CP wrote: both index tables and the lsn
    dc_lsn,        \* the durable commit lsn of the repl_dev
    \* Lost in a crash.
    index,         \* pg index table: [Blobs -> Chunks \cup {NONE, TOMBSTONE}]
    gc_index,      \* gc index table: [Chunks -> SUBSET Blobs]
    lsn,           \* the last lsn applied
    inflight,      \* puts that passed the state check and are not yet appended
    m_reserved_chunk_queue,
    gc,            \* the gc task: [pc, move_from, move_to, priority, todo]
    recovering,    \* the task is run by handle_recovered_gc_task
    gcs, crashes   \* counters for the bounds

durable == <<pg_sb, shard_sb, reserved_sb, gc_task_sb, data, log, disk, dc_lsn>>
bounds == <<gcs, crashes>>
vars == <<m_state, m_pg_id, m_v_chunk_id, available_blks, m_heap,
          m_per_pg_chunks, m_pg_chunks, available_num_chunks,
          available_blk_count, pg_sb, shard_sb, reserved_sb, gc_task_sb, data,
          log, disk, dc_lsn, index, gc_index, lsn, inflight,
          m_reserved_chunk_queue, gc, recovering, gcs, crashes>>

NoGC == [pc |-> "idle", move_from |-> NULL, move_to |-> NULL,
         priority |-> "normal", todo |-> {}]

GCPC == {"boot", "recover", "replay", "idle", "read", "copy", "tombstones", "cp",
         "persist", "replace", "pg_meta", "shard_meta", "cp2", "reserved",
         "destroy", "update", "push", "abort", "giveback"}

Put(b, c) == [op |-> "put", blob |-> b, shard |-> shard_of[b], chunk |-> c]
Del(b) == [op |-> "del", blob |-> b, shard |-> shard_of[b], chunk |-> NULL]
Seal(s) == [op |-> "seal", blob |-> NULL, shard |-> s, chunk |-> NULL]

InLog(P(_)) == \E i \in 1 .. Len(log) : P(log[i])
Applied(P(_)) == \E i \in 1 .. lsn : P(log[i])

\* The in-memory state of a shard: pre_commit marks it sealed as soon as the
\* seal is in the log.
Sealed(s) == \/ shard_sb[s].state = "SEALED"
             \/ InLog(LAMBDA e : e.op = "seal" /\ e.shard = s)

FirstChunk == CHOOSE c \in Chunks : c \notin Reserved

-----------------------------------------------------------------------------
\* The pg exists, its chunk holds the old, sealed shards and one open shard.
Init ==
    LET c0 == FirstChunk IN
    /\ pg_sb = c0
    /\ shard_sb = [s \in Shards |->
                     [p_chunk_id |-> c0,
                      state |-> IF s \in OldShards THEN "SEALED" ELSE "OPEN"]]
    /\ reserved_sb = Reserved
    /\ gc_task_sb = NULL
    /\ data = [c \in Chunks |-> IF c = c0 THEN OldBlobs ELSE {}]
    /\ log = <<>>
    /\ index = [b \in Blobs |-> IF b \in OldBlobs THEN c0 ELSE NONE]
    /\ gc_index = [c \in Chunks |-> {}]
    /\ disk = [index |-> index, gc_index |-> gc_index, lsn |-> 0]
    /\ dc_lsn = 0 /\ lsn = 0
    /\ inflight = {}
    /\ m_reserved_chunk_queue = Reserved
    /\ gc = NoGC /\ recovering = FALSE
    /\ gcs = 0 /\ crashes = 0
    /\ m_per_pg_chunks = {PG}
    /\ m_pg_chunks = [p \in PGs |-> [v \in VChunkIds |-> c0]]
    /\ m_pg_id = [c \in Chunks |-> IF c = c0 THEN PG ELSE NULL]
    /\ m_v_chunk_id = [c \in Chunks |-> IF c = c0 THEN 0 ELSE NULL]
    /\ m_state = [c \in Chunks |-> CASE c \in Reserved -> "GC"
                                     [] c = c0 -> "INUSE"
                                     [] OTHER -> "AVAILABLE"]
    /\ m_heap = Chunks \ (Reserved \cup {c0})
    /\ available_blks = [c \in Chunks |-> TotalBlks - Cardinality(data[c])]
    /\ available_num_chunks = [p \in PGs |-> 0]
    /\ available_blk_count = [p \in PGs |-> 0]

-----------------------------------------------------------------------------
(***************************************************************************)
(* Clients, raft and the state machine.                                    *)
(***************************************************************************)

\* Booting, a recovered gc task and the replay up to dc_lsn come first.
Up == gc.pc \notin {"boot", "recover", "replay"} /\ ~recovering

\* An emergent gc runs while the repl_dev is quiesced: it refuses requests.
\* The promise of the task is set before "push" and "giveback".
Quiesced == gc.priority = "emergent" /\ gc.pc \notin {"idle", "push", "giveback"}

\* BlobManager::put rejects a sealed shard before anything else.
put_blob(b) ==
    /\ Up
    /\ ~Sealed(shard_of[b])
    /\ b \notin inflight \cup OldBlobs
    /\ ~InLog(LAMBDA e : e.op = "put" /\ e.blob = b)
    /\ inflight' = inflight \cup {b}
    /\ UNCHANGED <<index, gc_index, lsn, m_reserved_chunk_queue, gc, recovering>>
    /\ UNCHANGED durable
    /\ UNCHANGED bounds
    /\ UNCHANGED selectorVars

\* blob_put_get_blk_alloc_hints directs the data to the p_chunk of the shard,
\* sealed or not; then the put is appended with its local pba.
append_put(b) ==
    LET c == shard_sb[shard_of[b]].p_chunk_id IN
    /\ Up /\ ~Quiesced
    /\ b \in inflight /\ available_blks[c] > 0
    /\ inflight' = inflight \ {b}
    /\ data' = [data EXCEPT ![c] = @ \cup {b}]
    /\ available_blks' = [available_blks EXCEPT ![c] = @ - 1]
    /\ log' = Append(log, Put(b, c))
    /\ UNCHANGED <<pg_sb, shard_sb, reserved_sb, gc_task_sb, disk, dc_lsn, index,
                   gc_index, lsn, m_reserved_chunk_queue, gc, recovering,
                   m_state, m_pg_id, m_v_chunk_id, m_heap>>
    /\ UNCHANGED bounds
    /\ UNCHANGED pgVars

AppendEntry(e) ==
    /\ Up /\ ~Quiesced
    /\ log' = Append(log, e)
    /\ UNCHANGED <<pg_sb, shard_sb, reserved_sb, gc_task_sb, data, disk, dc_lsn,
                   index, gc_index, lsn, inflight, m_reserved_chunk_queue, gc,
                   recovering>>
    /\ UNCHANGED bounds
    /\ UNCHANGED selectorVars

del_blob(b) ==
    /\ index[b] \in Chunks
    /\ ~InLog(LAMBDA e : e.op = "del" /\ e.blob = b)
    /\ AppendEntry(Del(b))

seal_shard(s) ==
    /\ ~Sealed(s)
    /\ ClientsWait => \A b \in Blobs : shard_of[b] = s =>
         /\ b \notin inflight
         /\ InLog(LAMBDA e : e.op = "put" /\ e.blob = b)
              => Applied(LAMBDA e : e.op = "put" /\ e.blob = b)
    /\ AppendEntry(Seal(s))

\* Mutant: nothing is applied before the node is up.
CommitOnlyUp(op) == Up /\ lsn < Len(log) /\ log[lsn + 1].op = op

\* Entries are applied in order, in replay and afterwards.
CanCommit(op) == /\ Up \/ (gc.pc = "replay" /\ lsn < dc_lsn)
                 /\ lsn < Len(log) /\ log[lsn + 1].op = op

\* add_to_index_table: an entry with the same pba, a tombstone or a conflicting
\* pba is left as it is.
on_blob_put_commit ==
    LET e == log[lsn + 1] IN
    /\ CanCommit("put")
    /\ index' = IF index[e.blob] = NONE
                  THEN [index EXCEPT ![e.blob] = e.chunk] ELSE index
    /\ lsn' = lsn + 1
    /\ UNCHANGED <<gc_index, inflight, m_reserved_chunk_queue, gc, recovering>>
    /\ UNCHANGED durable
    /\ UNCHANGED bounds
    /\ UNCHANGED selectorVars

\* An update: a key that is not there stays away.
on_blob_del_commit ==
    LET e == log[lsn + 1] IN
    /\ CanCommit("del")
    /\ index' = IF index[e.blob] # NONE
                  THEN [index EXCEPT ![e.blob] = TOMBSTONE] ELSE index
    /\ lsn' = lsn + 1
    /\ UNCHANGED <<gc_index, inflight, m_reserved_chunk_queue, gc, recovering>>
    /\ UNCHANGED durable
    /\ UNCHANGED bounds
    /\ UNCHANGED selectorVars

\* The commit of a seal first makes the commit lsn durable ...
flush_durable_commit_lsn ==
    /\ CanCommit("seal")
    /\ dc_lsn < lsn
    /\ dc_lsn' = lsn
    /\ UNCHANGED <<pg_sb, shard_sb, reserved_sb, gc_task_sb, data, log, disk,
                   index, gc_index, lsn, inflight, m_reserved_chunk_queue, gc,
                   recovering>>
    /\ UNCHANGED bounds
    /\ UNCHANGED selectorVars

\* Mutant: the seal does not wait for the flush.
SealNotFlushed == TRUE

SealFlushed == dc_lsn >= lsn

\* ... then writes the shard superblk and releases the v_chunk.
on_seal_shard_commit ==
    LET e == log[lsn + 1] IN
    /\ CanCommit("seal")
    /\ SealFlushed
    /\ shard_sb' = [shard_sb EXCEPT ![e.shard].state = "SEALED"]
    /\ release_chunk(PG, 0)
    /\ lsn' = lsn + 1
    /\ UNCHANGED <<pg_sb, reserved_sb, gc_task_sb, data, log, disk, dc_lsn, index,
                   gc_index, inflight, m_reserved_chunk_queue, gc, recovering>>
    /\ UNCHANGED bounds

\* A CP writes both index tables and the lsn they reflect.
CP ==
    /\ disk' = [index |-> index, gc_index |-> gc_index, lsn |-> lsn]
    /\ dc_lsn' = IF dc_lsn < lsn THEN lsn ELSE dc_lsn

\* The CP timer.
cp_flush ==
    /\ gc.pc \notin {"boot", "recover"}
    /\ disk # [index |-> index, gc_index |-> gc_index, lsn |-> lsn]
    /\ CP
    /\ UNCHANGED <<pg_sb, shard_sb, reserved_sb, gc_task_sb, data, log, index,
                   gc_index, lsn, inflight, m_reserved_chunk_queue, gc,
                   recovering>>
    /\ UNCHANGED bounds
    /\ UNCHANGED selectorVars

-----------------------------------------------------------------------------
(***************************************************************************)
(* The gc task.                                                            *)
(***************************************************************************)
\* Mutant: the chunk of an open shard becomes available after an emergent gc.
AlwaysAvailable(priority) == "AVAILABLE"

final_state(priority) == IF priority = "normal" THEN "AVAILABLE" ELSE "INUSE"

\* get_shards_in_chunk, from the in-memory copy of the shard superblks.
ShardsIn(c) == {s \in Shards : shard_sb[s].p_chunk_id = c}

BlobsOf(S) == {b \in Blobs : shard_of[b] \in S}

GCStep(from, to) == gc.pc = from /\ gc' = [gc EXCEPT !.pc = to]

\* add_gc_task.  An emergent task finds the repl_dev drained.
add_gc_task(priority) ==
    LET c == get_pg_vchunk(PG, 0) IN
    /\ Up /\ gc.pc = "idle" /\ gcs < MaxGC
    /\ m_state[c] = IF priority = "emergent" THEN "INUSE" ELSE "AVAILABLE"
    /\ priority = "emergent" => lsn = Len(log)
    /\ try_mark_chunk_to_gc_state(c, priority = "emergent")
    /\ gc' = [NoGC EXCEPT !.pc = "read", !.move_from = c, !.priority = priority]
    /\ gcs' = gcs + 1
    /\ UNCHANGED <<index, gc_index, lsn, inflight, m_reserved_chunk_queue,
                   recovering, crashes>>
    /\ UNCHANGED durable

\* blockingRead, then purge_reserved_chunk empties the chunk and its gc index;
\* when the index cannot be emptied the task gives up.
ReadReserved(c) ==
    /\ gc.pc = "read"
    /\ c \in m_reserved_chunk_queue
    /\ m_reserved_chunk_queue' = m_reserved_chunk_queue \ {c}
    /\ data' = [data EXCEPT ![c] = {}]
    /\ available_blks' = [available_blks EXCEPT ![c] = TotalBlks]
    /\ \/ /\ gc_index' = [gc_index EXCEPT ![c] = {}]
          /\ gc' = [gc EXCEPT !.pc = "copy", !.move_to = c,
                              !.todo = ShardsIn(gc.move_from)]
       \/ /\ gc' = [gc EXCEPT !.pc = "abort", !.move_to = c]
          /\ UNCHANGED gc_index
    /\ UNCHANGED <<pg_sb, shard_sb, reserved_sb, gc_task_sb, log, disk, dc_lsn,
                   index, lsn, inflight, recovering, m_state, m_pg_id,
                   m_v_chunk_id, m_heap>>
    /\ UNCHANGED bounds
    /\ UNCHANGED pgVars

\* Blobs reach the target, then its gc index.
CopyBlobs(S) ==
    /\ data' = [data EXCEPT ![gc.move_to] = @ \cup S]
    /\ gc_index' = [gc_index EXCEPT ![gc.move_to] = @ \cup S]
    /\ available_blks' =
           [available_blks EXCEPT ![gc.move_to] = @ - Cardinality(S)]
    /\ UNCHANGED <<pg_sb, shard_sb, reserved_sb, gc_task_sb, log, disk, dc_lsn,
                   index, lsn, inflight, m_reserved_chunk_queue, recovering,
                   m_state, m_pg_id, m_v_chunk_id, m_heap>>
    /\ UNCHANGED bounds
    /\ UNCHANGED pgVars

\* The blobs of a shard that copy_valid_data finds in the pg index.
ValidBlobs(s) == {b \in BlobsOf({s}) : index[b] \in Chunks}

\* Shard by shard.  A normal task gives up on an open shard.
copy_valid_data(s) ==
    /\ gc.pc = "copy" /\ s \in gc.todo
    /\ gc.priority = "normal" => Sealed(s)
    /\ \A b \in ValidBlobs(s) : b \in data[index[b]]
    /\ CopyBlobs(ValidBlobs(s))
    /\ gc' = [gc EXCEPT !.todo = @ \ {s}]

\* A read, a write or an index insert fails after some of the blobs.
CopyFails(s, done) ==
    /\ gc.pc = "copy" /\ s \in gc.todo
    /\ done \subseteq ValidBlobs(s)
    /\ CopyBlobs(done)
    /\ gc' = [gc EXCEPT !.pc = "abort", !.todo = {}]

\* All copied; the tombstones of the shards are removed next.  A chunk without
\* shards has nothing to copy or to remove.
CopyDone ==
    /\ gc.pc = "copy" /\ gc.todo = {}
    /\ gc' = [gc EXCEPT !.pc = IF ShardsIn(gc.move_from) = {}
                                 THEN "cp" ELSE "tombstones",
                        !.todo = ShardsIn(gc.move_from)]
    /\ UNCHANGED <<index, gc_index, lsn, inflight, m_reserved_chunk_queue,
                   recovering>>
    /\ UNCHANGED durable
    /\ UNCHANGED bounds
    /\ UNCHANGED selectorVars

\* Also those of blobs that were deleted after they were copied.  It does not
\* matter when some cannot be removed.
remove_tombstones(s, gone) ==
    /\ gc.pc = "tombstones" /\ s \in gc.todo
    /\ \A b \in gone : shard_of[b] = s /\ index[b] = TOMBSTONE
    /\ index' = [b \in Blobs |-> IF b \in gone THEN NONE ELSE index[b]]
    /\ gc' = [gc EXCEPT !.todo = @ \ {s},
                        !.pc = IF gc.todo = {s} THEN "cp" ELSE @]
    /\ UNCHANGED <<gc_index, lsn, inflight, m_reserved_chunk_queue, recovering>>
    /\ UNCHANGED durable
    /\ UNCHANGED bounds
    /\ UNCHANGED selectorVars

\* get_blobs_to_replace cannot read the gc index.
QueryFails ==
    /\ GCStep("cp", "abort")
    /\ UNCHANGED <<index, gc_index, lsn, inflight, m_reserved_chunk_queue,
                   recovering>>
    /\ UNCHANGED durable
    /\ UNCHANGED bounds
    /\ UNCHANGED selectorVars

\* trigger_cp_flush, before the gc task superblk and after the index is replaced.
ForcedCP ==
    /\ GCStep("cp", "persist") \/ GCStep("cp2", "reserved")
    /\ CP
    /\ UNCHANGED <<pg_sb, shard_sb, reserved_sb, gc_task_sb, data, log, index,
                   gc_index, lsn, inflight, m_reserved_chunk_queue, recovering>>
    /\ UNCHANGED bounds
    /\ UNCHANGED selectorVars

\* The task can be redone from here on: valid_blob_indexes is what the gc index
\* has for the target.
PersistTask ==
    /\ gc.pc = "persist"
    /\ gc_task_sb' = [move_from |-> gc.move_from, move_to |-> gc.move_to,
                      priority |-> gc.priority]
    /\ gc' = [gc EXCEPT !.pc = "replace", !.todo = gc_index[gc.move_to]]
    /\ UNCHANGED <<pg_sb, shard_sb, reserved_sb, data, log, disk, dc_lsn, index,
                   gc_index, lsn, inflight, m_reserved_chunk_queue, recovering>>
    /\ UNCHANGED bounds
    /\ UNCHANGED selectorVars

\* Mutant: the index is replaced without a filter.
ReplacedUnfiltered(b) == gc.move_to

\* The filter of replace_blob_index: a tombstone is removed, an entry that is
\* not in move_from is kept, a missing key stays missing.
Replaced(b) ==
    CASE index[b] = TOMBSTONE -> NONE
      [] index[b] = gc.move_from -> gc.move_to
      [] OTHER -> index[b]

replace_blob_index(b) ==
    /\ gc.pc = "replace"
    /\ b \in gc.todo
    /\ index' = [index EXCEPT ![b] = Replaced(b)]
    /\ gc' = [gc EXCEPT !.todo = @ \ {b}]
    /\ UNCHANGED <<gc_index, lsn, inflight, m_reserved_chunk_queue, recovering>>
    /\ UNCHANGED durable
    /\ UNCHANGED bounds
    /\ UNCHANGED selectorVars

ReplaceDone ==
    /\ gc.todo = {}
    /\ GCStep("replace", "pg_meta")
    /\ UNCHANGED <<index, gc_index, lsn, inflight, m_reserved_chunk_queue,
                   recovering>>
    /\ UNCHANGED durable
    /\ UNCHANGED bounds
    /\ UNCHANGED selectorVars

\* The superblk is written before the selector switches; when it already has
\* the new chunk (a redone task) neither happens.
update_pg_meta_after_gc ==
    /\ GCStep("pg_meta", "shard_meta")
    /\ pg_sb' = gc.move_to
    /\ IF pg_sb = gc.move_to
         THEN UNCHANGED selectorVars
         ELSE switch_chunks_for_pg(PG, gc.move_from, gc.move_to)
    /\ UNCHANGED <<shard_sb, reserved_sb, gc_task_sb, data, log, disk, dc_lsn,
                   index, gc_index, lsn, inflight, m_reserved_chunk_queue,
                   recovering>>
    /\ UNCHANGED bounds

\* One shard superblk after the other.
update_shard_meta_after_gc(s) ==
    /\ gc.pc = "shard_meta"
    /\ s \in ShardsIn(gc.move_from)
    /\ shard_sb' = [shard_sb EXCEPT ![s].p_chunk_id = gc.move_to]
    /\ UNCHANGED <<pg_sb, reserved_sb, gc_task_sb, data, log, disk, dc_lsn, index,
                   gc_index, lsn, inflight, m_reserved_chunk_queue, gc, recovering>>
    /\ UNCHANGED bounds
    /\ UNCHANGED selectorVars

ShardMetaDone ==
    /\ ShardsIn(gc.move_from) = {}
    /\ GCStep("shard_meta", "cp2")
    /\ UNCHANGED <<index, gc_index, lsn, inflight, m_reserved_chunk_queue,
                   recovering>>
    /\ UNCHANGED durable
    /\ UNCHANGED bounds
    /\ UNCHANGED selectorVars

\* Mutant: the reserved chunk superblk is left as it is.
ReservedSBKept ==
    /\ GCStep("reserved", "destroy")
    /\ UNCHANGED <<index, gc_index, lsn, inflight, m_reserved_chunk_queue,
                   recovering>>
    /\ UNCHANGED durable
    /\ UNCHANGED bounds
    /\ UNCHANGED selectorVars

UpdateReservedSB ==
    /\ GCStep("reserved", "destroy")
    /\ reserved_sb' = IF gc.move_to \in reserved_sb
                        THEN (reserved_sb \ {gc.move_to}) \cup {gc.move_from}
                        ELSE reserved_sb
    /\ UNCHANGED <<pg_sb, shard_sb, gc_task_sb, data, log, disk, dc_lsn, index,
                   gc_index, lsn, inflight, m_reserved_chunk_queue, recovering>>
    /\ UNCHANGED bounds
    /\ UNCHANGED selectorVars

\* Mutant: the gc task superblk is not destroyed.
TaskSBKept ==
    /\ GCStep("destroy", "update")
    /\ UNCHANGED <<index, gc_index, lsn, inflight, m_reserved_chunk_queue,
                   recovering>>
    /\ UNCHANGED durable
    /\ UNCHANGED bounds
    /\ UNCHANGED selectorVars

DestroyTaskSB ==
    /\ GCStep("destroy", "update")
    /\ gc_task_sb' = NULL
    /\ UNCHANGED <<pg_sb, shard_sb, reserved_sb, data, log, disk, dc_lsn, index,
                   gc_index, lsn, inflight, m_reserved_chunk_queue, recovering>>
    /\ UNCHANGED bounds
    /\ UNCHANGED selectorVars

\* A recovered task ends here: handle_recovered_gc_task does not put move_from
\* into the reserved queue.
UpdateVChunk ==
    /\ gc.pc = "update"
    /\ update_vchunk_info_after_gc(gc.move_from, gc.move_to,
                                   final_state(gc.priority), PG, 0)
    /\ gc' = IF recovering THEN [NoGC EXCEPT !.pc = "replay"]
                            ELSE [gc EXCEPT !.pc = "push"]
    /\ recovering' = FALSE
    /\ UNCHANGED <<index, gc_index, lsn, inflight, m_reserved_chunk_queue>>
    /\ UNCHANGED durable
    /\ UNCHANGED bounds

PushReserved ==
    /\ gc.pc = "push"
    /\ m_reserved_chunk_queue' = m_reserved_chunk_queue \cup {gc.move_from}
    /\ gc' = NoGC
    /\ UNCHANGED <<index, gc_index, lsn, inflight, recovering>>
    /\ UNCHANGED durable
    /\ UNCHANGED bounds
    /\ UNCHANGED selectorVars

\* handle_error_before_persisting_gc_metablk.
AbortTask ==
    /\ GCStep("abort", "giveback")
    /\ mark_chunk_out_of_gc_state(gc.move_from, final_state(gc.priority))
    /\ UNCHANGED <<index, gc_index, lsn, inflight, m_reserved_chunk_queue,
                   recovering>>
    /\ UNCHANGED durable
    /\ UNCHANGED bounds

\* Mutant: the wrong chunk goes back to the queue.
GiveBackFrom ==
    /\ gc.pc = "giveback"
    /\ m_reserved_chunk_queue' = m_reserved_chunk_queue \cup {gc.move_from}
    /\ gc' = NoGC
    /\ UNCHANGED <<index, gc_index, lsn, inflight, recovering>>
    /\ UNCHANGED durable
    /\ UNCHANGED bounds
    /\ UNCHANGED selectorVars

GiveBackReserved ==
    /\ gc.pc = "giveback"
    /\ m_reserved_chunk_queue' = m_reserved_chunk_queue \cup {gc.move_to}
    /\ gc' = NoGC
    /\ UNCHANGED <<index, gc_index, lsn, inflight, recovering>>
    /\ UNCHANGED durable
    /\ UNCHANGED bounds
    /\ UNCHANGED selectorVars

-----------------------------------------------------------------------------
(***************************************************************************)
(* Crash and restart.                                                      *)
(***************************************************************************)

\* What is in memory is lost: the index tables are those of the last CP.
Crash ==
    /\ crashes < MaxCrash
    /\ gc.pc # "boot"
    /\ crashes' = crashes + 1
    /\ index' = disk.index /\ gc_index' = disk.gc_index /\ lsn' = disk.lsn
    /\ inflight' = {}
    /\ m_reserved_chunk_queue' = {}
    /\ gc' = [NoGC EXCEPT !.pc = "boot"]
    /\ recovering' = FALSE
    /\ UNCHANGED durable
    /\ UNCHANGED gcs
    /\ UNCHANGED selectorVars

\* on_replica_restart: the pg superblk, the shard superblks, the reserved
\* chunks and the heap.
on_replica_restart ==
    LET open == {s \in Shards : shard_sb[s].state = "OPEN"} IN
    /\ gc.pc = "boot"
    /\ recover([p \in PGs |-> [v \in VChunkIds |-> pg_sb]],
               [p \in PGs |-> IF open = {} THEN {} ELSE {0}], reserved_sb)
    /\ m_reserved_chunk_queue' = reserved_sb
    /\ gc' = [gc EXCEPT !.pc = IF gc_task_sb = NULL THEN "replay" ELSE "recover"]
    /\ UNCHANGED <<available_blks, index, gc_index, lsn, inflight, recovering>>
    /\ UNCHANGED durable
    /\ UNCHANGED bounds

\* The first of the two chunks that is found leaves the queue.  Both are put
\* back into the state of a task that has just written its superblk;
\* process_after_gc_metablk_persisted follows.
handle_recovered_gc_task ==
    LET from == gc_task_sb.move_from
        to == gc_task_sb.move_to
    IN  /\ gc.pc = "recover"
        /\ \E found \in m_reserved_chunk_queue \cap {from, to} :
             m_reserved_chunk_queue' = m_reserved_chunk_queue \ {found}
        /\ m_state' = [m_state EXCEPT ![from] = "GC", ![to] = "GC"]
        /\ m_pg_id' = [m_pg_id EXCEPT ![from] = PG, ![to] = NULL]
        /\ m_v_chunk_id' = [m_v_chunk_id EXCEPT ![from] = 0, ![to] = NULL]
        /\ gc' = [pc |-> "replace", move_from |-> from, move_to |-> to,
                  priority |-> gc_task_sb.priority, todo |-> gc_index[to]]
        /\ recovering' = TRUE
        /\ UNCHANGED <<available_blks, m_heap, index, gc_index, lsn, inflight>>
        /\ UNCHANGED pgVars
        /\ UNCHANGED durable
        /\ UNCHANGED bounds

\* After the replay the v_chunk of an open shard is selected again.
on_log_replay_done ==
    /\ gc.pc = "replay" /\ lsn >= dc_lsn
    /\ IF \E s \in Shards : shard_sb[s].state = "OPEN"
         THEN select_specific_chunk(PG, 0)
         ELSE UNCHANGED selectorVars
    /\ gc' = NoGC
    /\ UNCHANGED <<index, gc_index, lsn, inflight, m_reserved_chunk_queue,
                   recovering>>
    /\ UNCHANGED durable
    /\ UNCHANGED bounds

-----------------------------------------------------------------------------
ClientStep ==
    \/ \E b \in Blobs : put_blob(b) \/ append_put(b) \/ del_blob(b)
    \/ \E s \in Shards : seal_shard(s)

CommitStep ==
    \/ on_blob_put_commit
    \/ on_blob_del_commit
    \/ flush_durable_commit_lsn
    \/ on_seal_shard_commit

process_gc_task ==
    \/ \E c \in Chunks : ReadReserved(c)
    \/ \E s \in Shards :
         \/ copy_valid_data(s)
         \/ \E S \in SUBSET Blobs : CopyFails(s, S) \/ remove_tombstones(s, S)
         \/ update_shard_meta_after_gc(s)
    \/ CopyDone
    \/ QueryFails
    \/ ForcedCP
    \/ PersistTask
    \/ \E b \in Blobs : replace_blob_index(b)
    \/ ReplaceDone
    \/ update_pg_meta_after_gc
    \/ ShardMetaDone
    \/ UpdateReservedSB
    \/ DestroyTaskSB
    \/ UpdateVChunk
    \/ PushReserved
    \/ AbortTask
    \/ GiveBackReserved

BootStep == on_replica_restart \/ handle_recovered_gc_task \/ on_log_replay_done

Next ==
    \/ ClientStep
    \/ CommitStep
    \/ cp_flush
    \/ \E priority \in {"normal", "emergent"} : add_gc_task(priority)
    \/ process_gc_task
    \/ Crash
    \/ BootStep

Spec == Init /\ [][Next]_vars

\* The thread of a gc task, the boot thread and the commits of raft go on.
FairSpec == Spec /\ WF_vars(process_gc_task) /\ WF_vars(BootStep)
                 /\ WF_vars(CommitStep)

-----------------------------------------------------------------------------
TypeOK ==
    /\ pg_sb \in Chunks
    /\ shard_sb \in [Shards -> [p_chunk_id : Chunks, state : {"OPEN", "SEALED"}]]
    /\ reserved_sb \subseteq Chunks
    /\ gc_task_sb \in {NULL} \cup [move_from : Chunks, move_to : Chunks,
                                  priority : {"normal", "emergent"}]
    /\ data \in [Chunks -> SUBSET Blobs]
    /\ lsn \in 0 .. Len(log) /\ dc_lsn \in 0 .. Len(log)
    /\ disk.lsn <= lsn /\ disk.lsn <= dc_lsn
    /\ index \in [Blobs -> Chunks \cup {NONE, TOMBSTONE}]
    /\ gc_index \in [Chunks -> SUBSET Blobs]
    /\ m_reserved_chunk_queue \subseteq Chunks
    /\ gc.pc \in GCPC
    /\ available_blks \in [Chunks -> 0 .. TotalBlks]

IsPut(b) == b \in OldBlobs \/ Applied(LAMBDA e : e.op = "put" /\ e.blob = b)
IsDeleted(b) == Applied(LAMBDA e : e.op = "del" /\ e.blob = b)

\* No blob is lost: whatever gc, checkpoints and crashes do in between, the
\* index entry of a blob that was put and not deleted points to a chunk that
\* has its data (copy_valid_data, replace_blob_index, purge_reserved_chunk).
BlobsReadable ==
    \A b \in Blobs : IsPut(b) /\ ~IsDeleted(b) =>
       index[b] \in Chunks /\ b \in data[index[b]]

\* No deleted blob comes back: not through the replay of its put, not through
\* gc replacing the entry of a blob that was deleted after it was copied, and
\* not through the removal of its tombstone.
NoResurrection ==
    \A b \in Blobs : IsDeleted(b) => index[b] \in {NONE, TOMBSTONE}

\* "the reserved_chunk metablk tells us this is a reserved chunk and will be
\* involved in new gc task. this case, data loss will happen": a crash at any
\* moment leaves superblks and a checkpoint that, unless a gc task will be
\* redone, name no reserved chunk as the home of the pg, a shard or a blob.
ReservedHoldNothing ==
    gc_task_sb = NULL =>
       /\ pg_sb \notin reserved_sb
       /\ \A s \in Shards : shard_sb[s].p_chunk_id = pg_sb
       /\ \A b \in Blobs : disk.index[b] \notin reserved_sb
       /\ Cardinality(reserved_sb) = Cardinality(Reserved)

\* Every variable keeps its kind (TypeOK), and no
\* RELEASE_ASSERT of a gc task fails, be it the first run or a redone one:
\* purge_reserved_chunk, handle_recovered_gc_task ("can not find neither
\* move_to_chunk nor move_from_chunk"), update_pg_meta_after_gc,
\* switch_chunks_for_pg and update_vchunk_info_after_gc.
AssertsHold ==
    /\ TypeOK
    /\ gc.pc = "read" => \A c \in m_reserved_chunk_queue :
                            m_pg_id[c] = NULL /\ m_state[c] = "GC"
    /\ gc_task_sb # NULL =>
         /\ reserved_sb \cap {gc_task_sb.move_from, gc_task_sb.move_to} # {}
         /\ pg_sb \in {gc_task_sb.move_from, gc_task_sb.move_to}
    /\ gc.pc = "pg_meta" /\ pg_sb # gc.move_to =>
         switch_chunks_for_pg_asserts(PG, gc.move_from, gc.move_to)
    /\ gc.pc = "update" =>
         update_vchunk_info_after_gc_asserts(gc.move_from, gc.move_to)

\* Once a node is up and no gc runs, memory and superblks tell the same: the
\* v_chunk maps to the chunk of the superblks, every blob is in it, and it is
\* in use exactly while a shard is open (on_log_replay_done: "make all the
\* chunks, which contains open shards, to inuse state").
SettledState ==
    gc.pc = "idle" =>
       /\ get_pg_vchunk(PG, 0) = pg_sb
       /\ m_pg_id[pg_sb] = PG /\ m_v_chunk_id[pg_sb] = 0
       /\ \A b \in Blobs : index[b] \in {pg_sb, NONE, TOMBSTONE}
       /\ m_state[pg_sb] = IF \E s \in Shards : shard_sb[s].state = "OPEN"
                             THEN "INUSE" ELSE "AVAILABLE"

\* A gc task whose superblk is written is finished, after a crash by
\* handle_all_recovered_gc_tasks.
TaskIsFinished == gc_task_sb # NULL ~> gc_task_sb = NULL

\* A node that crashed comes up again: neither the recovered gc task nor
\* select_specific_chunk in on_log_replay_done ("causing replay to stall")
\* waits for ever.
ComesUp == gc.pc = "boot" ~> Up

=============================================================================
