--------------------------- MODULE SnapshotResync ---------------------------
(***************************************************************************)
(* Baseline resync of one follower: the leader's iterator, the follower's  *)
(* receiver and, between them, raft (external), which keeps the snapshot   *)
(* and the offset of the next object, and has one request under way.       *)
(*                                                                         *)
(* Raft resends a request that got no answer.  It gives up its context,    *)
(* and starts again at offset 0 with the snapshot it has then, when a read *)
(* fails and when the context is older than sync_ctx_timeout; a new leader *)
(* does the same.                                                          *)
(***************************************************************************)
EXTENDS SnapshotReceiver

CONSTANTS
    Lsns,             \* the snapshots the leaders may have
    LeaderContinues,  \* the follower restarts within sync_ctx_timeout
    MaxLost,          \* bounds: requests and answers lost,
    MaxFail,          \* failed reads and writes, which are reported,
    MaxIndexFail,     \* failed commits of blks and inserts into the index,
    MaxTimeout,       \* contexts given up,
    MaxRace,          \* contexts freed while a read is starting,
    MaxCrash          \* restarts of the follower

VARIABLES
    sync,       \* raft's context: [lsn, offset]
    pg_iter,    \* the iterator in it (user_ctx), NULL if none
    net,        \* the request under way: [pc |-> ...]
    spent       \* how much of each bound is used

vars == <<rcvVars, sync, pg_iter, net, spent>>

ASSUME BoundAssumption ==
    /\ Lsns \subseteq Nat \ {0} /\ LeaderContinues \in BOOLEAN
    /\ {MaxLost, MaxFail, MaxIndexFail, MaxTimeout, MaxRace, MaxCrash}
         \subseteq Nat

Bound == [lost |-> MaxLost, fail |-> MaxFail, index |-> MaxIndexFail,
          timeout |-> MaxTimeout, race |-> MaxRace, crash |-> MaxCrash]

Spend(what) == /\ spent[what] < Bound[what]
               /\ spent' = [spent EXCEPT ![what] = @ + 1]

Idle == [pc |-> "idle"]
Request(obj) == [pc |-> "request", id |-> sync.offset, lsn |-> sync.lsn,
                 obj |-> obj]
Answer(offset) == [pc |-> "answer", offset |-> offset]

\* The objects: an empty message, and what the iterator packs.
Empty == [type |-> "EMPTY"]
LastMessage == [type |-> "LAST"]
PGMeta(it) == [type |-> "PG_META", shard_list |-> it.shard_list]
ShardMeta(it) == [type |-> "SHARD_META", shard |-> it.cur_obj_id[1]]
Batch(it) == [type |-> "SHARD_BATCH", blobs |-> BatchBlobs(it),
              is_last |-> is_last_batch(it)]

Init ==
    /\ ReceiverInit
    /\ sync \in [lsn : Lsns, offset : {objId(0, 0)}]
    /\ pg_iter = NULL
    /\ net = Idle
    /\ spent = [b \in DOMAIN Bound |-> 0]

-----------------------------------------------------------------------------
(* The leader *)

\* "Create the pg blob iterator for the first time."
Iterator == IF pg_iter = NULL THEN NewIterator(sync.lsn) ELSE pg_iter

\* The iterator and the message that read_snapshot_obj gives for an offset
\* that update_cursor accepts.
ReadObj(it) ==
    IF sync.offset = LAST_OBJ_ID THEN <<it, LastMessage>>
    ELSE IF it.cur_obj_id[1] = 0 THEN <<it, PGMeta(it)>>
    ELSE IF it.cur_obj_id[2] = 0 THEN <<ReadShard(it), ShardMeta(it)>>
    ELSE <<ReadBatch(it), Batch(it)>>

IsBatch(id) == id # LAST_OBJ_ID /\ id[1] # 0 /\ id[2] # 0

ReadSnapshotObj ==
    /\ net.pc = "idle"
    /\ update_cursor_valid(Iterator, sync.offset)
    /\ LET it == update_cursor(Iterator, sync.offset)
       IN /\ IsBatch(sync.offset) => AllPrefetched(it)
          /\ pg_iter' = ReadObj(it)[1]
          /\ net' = Request(ReadObj(it)[2])
    /\ UNCHANGED <<rcvVars, sync, spent>>

\* "If inconsistency happens, reset the cursor to the beginning(0|0), send an
\* empty message"
ReadInvalidObj ==
    /\ net.pc = "idle"
    /\ ~update_cursor_valid(Iterator, sync.offset)
    /\ pg_iter' = reset_cursor(Iterator)
    /\ net' = Request(Empty)
    /\ UNCHANGED <<rcvVars, sync, spent>>

\* clear_snapshot_sync_ctx, which calls free_user_snp_ctx: the iterator is
\* stopped and deleted.
ClearSyncCtx(lsn) ==
    /\ sync' = [lsn |-> lsn, offset |-> objId(0, 0)]
    /\ pg_iter' = NULL
    /\ net' = Idle

\* A blob of the batch was not prefetched: read_snapshot_obj returns -1.
ReadNotPrefetched ==
    /\ net.pc = "idle" /\ IsBatch(sync.offset)
    /\ update_cursor_valid(Iterator, sync.offset)
    /\ ~AllPrefetched(update_cursor(Iterator, sync.offset))
    /\ ClearSyncCtx(sync.lsn)
    /\ UNCHANGED <<rcvVars, spent>>

\* The pg is gone, the index cannot be read, or the read of a blob fails.
ReadFails ==
    /\ net.pc = "idle" /\ sync.offset # LAST_OBJ_ID
    /\ update_cursor_valid(Iterator, sync.offset)
    /\ Spend("fail")
    /\ ClearSyncCtx(sync.lsn)
    /\ UNCHANGED rcvVars

SyncCtxTimeout ==
    /\ net.pc \in {"idle", "request", "answer"} /\ Spend("timeout")
    /\ \E lsn \in Lsns : ClearSyncCtx(lsn)
    /\ UNCHANGED rcvVars

\* "free_user_snp_ctx and read_snapshot_obj ... occur at the same time, and
\* free_user_snp_ctx is called first"
FreeUserCtxRace ==
    /\ net.pc = "idle" /\ pg_iter # NULL /\ Spend("race")
    /\ pg_iter' = NULL
    /\ UNCHANGED <<rcvVars, sync, net>>

\* The follower's answer sets the offset of the next object.
LeaderGetsAnswer ==
    /\ net.pc = "answer"
    /\ sync' = [sync EXCEPT !.offset = net.offset]
    /\ net' = Idle
    /\ UNCHANGED <<rcvVars, pg_iter, spent>>

Lose ==
    /\ net.pc \in {"request", "answer"} /\ Spend("lost")
    /\ net' = Idle
    /\ UNCHANGED <<rcvVars, sync, pg_iter>>

-----------------------------------------------------------------------------
(* The follower: write_snapshot_obj *)

Got(type) == net.pc = "request" /\ net.obj.type = type
AnswerWith(offset) == net' = Answer(offset) /\ UNCHANGED <<sync, pg_iter>>
Resend == AnswerWith(net.id)

WriteEmpty ==
    /\ Got("EMPTY") /\ OnlyLoads
    /\ Resend
    /\ UNCHANGED spent

WritePGResume ==
    /\ Got("PG_META") /\ CanResume(net.lsn) /\ OnlyLoads
    /\ AnswerWith(snapshot_offset_for_next_shard(CurContext.shard_cursor))
    /\ UNCHANGED spent

WritePG ==
    /\ Got("PG_META") /\ ~CanResume(net.lsn)
    /\ ProcessPG(net.lsn, net.obj.shard_list, TRUE)
    /\ AnswerWith(snapshot_offset_for_next_shard(get_next_shard(ctx')))
    /\ UNCHANGED spent

\* The pg cannot be created, ...
WritePGFails ==
    /\ Got("PG_META") /\ ~CanResume(net.lsn) /\ Spend("fail")
    /\ ProcessPG(net.lsn, net.obj.shard_list, FALSE)
    /\ Resend

\* ... or the old one not be destroyed: "let raft retry".
PGDestroyFails ==
    /\ Got("PG_META") /\ ~CanResume(net.lsn) /\ pg_exists /\ Spend("fail")
    /\ OnlyLoads
    /\ Resend

\* "all the follower needs is to simply resume from the beginning of its
\* shard cursor if it's not valid"
WriteInvalid ==
    /\ Got("SHARD_META") \/ Got("SHARD_BATCH")
    /\ ~is_valid_obj_id(CurContext, net.id)
    /\ OnlyLoads
    /\ AnswerWith(ResumeOffset(CurContext))
    /\ UNCHANGED spent

GotValid(type) == Got(type) /\ is_valid_obj_id(CurContext, net.id)

WriteShard ==
    /\ GotValid("SHARD_META") /\ ProcessShard(net.obj.shard)
    /\ AnswerWith(objId(net.obj.shard, 1))
    /\ UNCHANGED spent

WriteShardFails ==
    /\ GotValid("SHARD_META") /\ Spend("fail")
    /\ OnlyLoads \/ ShardWriteFails(net.obj.shard)
    /\ Resend

\* "Check duplication to avoid reprocessing."
NewBlobs == net.obj.blobs \ index

\* Mutant of AfterBatch: no answer waits for a checkpoint.
AfterBatchAsync ==
    IF ~net.obj.is_last THEN Answer(objId(net.id[1], net.id[2] + 1))
    ELSE Answer(snapshot_offset_for_next_shard(get_next_shard(ctx')))

\* The answer to the last batch of the last shard waits for the checkpoint.
AfterBatch ==
    IF ~net.obj.is_last THEN Answer(objId(net.id[1], net.id[2] + 1))
    ELSE LET next == get_next_shard(ctx')
             answer == Answer(snapshot_offset_for_next_shard(next))
         IN IF next = END THEN [answer EXCEPT !.pc = "sync_cp"] ELSE answer

WriteBatch ==
    /\ GotValid("SHARD_BATCH")
    /\ ProcessBatch(net.id, NewBlobs, net.obj.is_last)
    /\ net' = AfterBatch
    /\ UNCHANGED <<sync, pg_iter, spent>>

\* "sync wait for last shard before returning LAST_OBJ_ID."
SyncCPDone ==
    /\ net.pc = "sync_cp" /\ cp_fut = NULL
    /\ net' = [net EXCEPT !.pc = "answer"]
    /\ UNCHANGED <<rcvVars, sync, pg_iter, spent>>

WriteBatchFails ==
    /\ GotValid("SHARD_BATCH") /\ NewBlobs # {} /\ Spend("fail")
    /\ \E got \in SUBSET NewBlobs \ {NewBlobs} : BatchFails(net.id, got)
    /\ Resend

\* commit_blk or local_add_blob_info fails for a blob: the continuation frees
\* its blks and returns err, which is the success of the write.
IndexInsertFails ==
    /\ GotValid("SHARD_BATCH") /\ Spend("index")
    /\ \E b \in NewBlobs :
          ProcessBatch(net.id, NewBlobs \ {b}, net.obj.is_last)
    /\ net' = AfterBatch
    /\ UNCHANGED <<sync, pg_iter>>

\* A pg that the context does not name is dereferenced here, which ends the
\* process: LastObjFindsPG.
WriteLast ==
    /\ Got("LAST") /\ LastObj(net.lsn)
    /\ net' = [pc |-> "apply", lsn |-> net.lsn]
    /\ UNCHANGED <<sync, pg_iter, spent>>

Apply ==
    /\ net.pc = "apply" /\ ApplySnapshot(net.lsn)
    /\ net' = [pc |-> "done"]
    /\ UNCHANGED <<sync, pg_iter, spent>>

\* A request at the follower is lost with it; an answer may be on its way.
FollowerRestarts ==
    /\ net.pc # "done" /\ Spend("crash")
    /\ Restart
    /\ IF LeaderContinues
       THEN /\ net' = IF net.pc = "answer" THEN net ELSE Idle
            /\ UNCHANGED <<sync, pg_iter>>
       ELSE \E lsn \in Lsns : ClearSyncCtx(lsn)

Checkpoint ==
    /\ CPFlushed \/ WriteSnpInfo
    /\ UNCHANGED <<sync, pg_iter, net, spent>>

TimerCheckpoint == BackgroundCP /\ UNCHANGED <<sync, pg_iter, net, spent>>

-----------------------------------------------------------------------------
Leader == ReadSnapshotObj \/ ReadInvalidObj \/ ReadNotPrefetched
          \/ LeaderGetsAnswer
Follower == WriteEmpty \/ WritePGResume \/ WritePG \/ WriteInvalid
            \/ WriteShard \/ WriteBatch \/ SyncCPDone \/ WriteLast \/ Apply
Faults == Lose \/ ReadFails \/ SyncCtxTimeout \/ FreeUserCtxRace
          \/ WritePGFails \/ PGDestroyFails \/ WriteShardFails
          \/ WriteBatchFails \/ IndexInsertFails \/ FollowerRestarts

Next == Leader \/ Follower \/ Checkpoint \/ TimerCheckpoint \/ Faults

Spec == Init /\ [][Next]_vars

\* Raft resends what got no answer, the follower handles what it gets and a
\* forced checkpoint completes; nothing makes a fault happen.
FairSpec == Spec /\ WF_vars(Leader) /\ WF_vars(Follower) /\ WF_vars(Checkpoint)

-----------------------------------------------------------------------------
(* Properties *)

\* The variables hold what the code's fields can hold; the prefetched bytes of
\* the iterator are those of the blobs in its prefetch map.
TypeOK ==
    /\ ReceiverType
    /\ sync.lsn \in Lsns
    /\ pg_iter # NULL => IteratorType(pg_iter)
    /\ net.pc \in {"idle", "request", "answer", "sync_cp", "apply", "done"}
    /\ \A b \in DOMAIN Bound : spent[b] \in 0..Bound[b]

SnapshotBlobs(lsn) == UNION {LiveBlobs(s) : s \in ShardsUpTo(lsn)}



\* Every variable keeps its kind (TypeOK), and
\* no RELEASE_ASSERT of the receiver fails: "Snapshot context lsn not
\* matching", "Failed to load chunk of current shard_cursor", "PG not found"
\* and "Snapshot info superblk not found", the last two in the continuation of
\* a checkpoint, which uses the context that is there when it runs.
AssertsHold ==
    /\ TypeOK
    /\ GotValid("SHARD_META") \/ GotValid("SHARD_BATCH") =>
         get_context_lsn(CurContext) = net.lsn /\ pg_exists
    /\ GotValid("SHARD_BATCH") => CurContext.shard_cursor \in shard_map
    /\ cp_fut # NULL =>
         /\ pg_exists /\ ctx # NULL
         /\ cp_fut.shard_cursor \in ToSet(ctx.shard_list) \cup {END}
         /\ cp_fut.init \/ snp_info_sb # NULL

\* write_snapshot_obj of the last object clears the BASELINE_RESYNC state of
\* the pg its context names, which it takes to exist.
LastObjFindsPG == Got("LAST") => CurContext # NULL /\ pg_exists

\* "data loss will happen since gc is work on a chunk which is accepting new
\* blobs" (local_create_shard): until the follower restarts, a batch is written
\* only into a chunk in use.  And the shard list is sorted "to ensure open
\* shards positioned after sealed shards within each chunk": receiving a sealed
\* shard does not release the chunk of an open one.
WritesIntoChunkInUse ==
    /\ [](spent.crash = 0 => \A s \in shard_map \ Sealed : v_chunk_num[s] \in in_use)
    /\ [][\A s \in Shards :
             spent.crash = 0 /\ ToSet(blobs[s]) \cap (index' \ index) # {} =>
                v_chunk_num[s] \in in_use]_vars

\* The resync ends, once faults cease.
ResyncEnds == <>(net.pc = "done")

=============================================================================
