----------------------------- MODULE GCManager -----------------------------
(***************************************************************************)
(* The garbage collector of one node (gc_manager.cpp) together with the    *)
(* chunk selector, the shard operations that select and release chunks,    *)
(* the operator or no-space path that quiesces a pg for an emergent gc     *)
(* (hs_http_manager.cpp, replication_state_machine.cpp) and pg_destroy     *)
(* (hs_pg_manager.cpp).  Each runs on threads of its own; a step is what   *)
(* they do between two accesses to state another thread can change.  The   *)
(* blob data, the index tables and the superblks are in GCRecovery.        *)
(***************************************************************************)
EXTENDS HeapChunkSelector

CONSTANTS
    Tasks,      \* the calls of add_gc_task, each of them one gc task
    EGCThreads, \* reserved_chunk_num_per_pdev_for_egc
    MaxCreate   \* how often a pg id may be created, a bound of the model

ASSUME GCAssumption ==
    /\ IsFiniteSet(Tasks)
    /\ MaxCreate \in Nat
    /\ EGCThreads \in Nat
    /\ \A d \in PDevs : EGCThreads < Cardinality({c \in Reserved : pdev_id[c] = d})

VARIABLES
    task,          \* [Tasks -> record], where each gc task is
    m_reserved_chunk_queue,
    m_pending_gc_task_num_per_pg,
    pg_state,      \* pg_sb->state, "NONE" without a pg
    destroy_pc,    \* where pg_destroy is
    open_shards,   \* [PGs -> SUBSET VChunkIds], the v_chunks with an open shard
    quiesced,      \* the pgs whose repl_dev refuses requests
    created        \* how often each pg was created

gcVars == <<task, m_reserved_chunk_queue, m_pending_gc_task_num_per_pg>>
pgmVars == <<pg_state, destroy_pc, open_shards, quiesced, created>>
vars == <<m_state, m_pg_id, m_v_chunk_id, available_blks, m_heap,
          m_per_pg_chunks, m_pg_chunks, available_num_chunks,
          available_blk_count, task, m_reserved_chunk_queue,
          m_pending_gc_task_num_per_pg, pg_state, destroy_pc, open_shards,
          quiesced, created>>

task_priority == {"normal", "emergent"}

\* In code order; "abort" and "giveback" are the error path.
TaskPC == {"idle", "incr", "check", "mark", "queued", "read", "copy", "switch",
           "update", "push", "abort", "giveback", "decr", "done"}

\* pg_id is what add_gc_task read; process_gc_task reads it again.
NoGCTask == [pc |-> "idle", priority |-> "normal", move_from |-> NULL,
             move_to |-> NULL, pg_id |-> NULL, vchunk_id |-> NULL]

Goto(t, pc) == task' = [task EXCEPT ![t].pc = pc]

PC(t) == task[t].pc

\* A thread of an executor is working on the task.
Running(t) == PC(t) \in {"read", "copy", "switch", "update", "push", "abort",
                         "giveback", "decr"}

PDevOf(t) == pdev_id[task[t].move_from]

ReservedOn(d) == {c \in Reserved : pdev_id[c] = d}

\* Mutant: the emergent threads come on top of the normal ones.
ThreadForEach(d, priority) ==
    IF priority = "emergent" THEN EGCThreads ELSE Cardinality(ReservedOn(d))

\* start(): as many threads as reserved chunks on the device.
ThreadNum(d, priority) ==
    IF priority = "emergent" THEN EGCThreads
                             ELSE Cardinality(ReservedOn(d)) - EGCThreads

\* Mutant: the chunk of an open shard becomes available after an emergent gc.
AlwaysAvailable(priority) == "AVAILABLE"

final_state(priority) == IF priority = "normal" THEN "AVAILABLE" ELSE "INUSE"

-----------------------------------------------------------------------------
Init ==
    /\ m_state = [c \in Chunks |-> IF c \in Reserved THEN "GC" ELSE "AVAILABLE"]
    /\ m_pg_id = [c \in Chunks |-> NULL]
    /\ m_v_chunk_id = [c \in Chunks |-> NULL]
    /\ available_blks = [c \in Chunks |-> TotalBlks]
    /\ m_heap = Chunks \ Reserved
    /\ m_per_pg_chunks = {}
    /\ m_pg_chunks = [p \in PGs |-> NoChunks]
    /\ available_num_chunks = [p \in PGs |-> 0]
    /\ available_blk_count = [p \in PGs |-> 0]
    /\ task = [t \in Tasks |-> NoGCTask]
    /\ m_reserved_chunk_queue = Reserved
    /\ m_pending_gc_task_num_per_pg = [p \in PGs |-> 0]
    /\ pg_state = [p \in PGs |-> "NONE"]
    /\ destroy_pc = [p \in PGs |-> "none"]
    /\ open_shards = [p \in PGs |-> {}]
    /\ quiesced = {}
    /\ created = [p \in PGs |-> 0]

-----------------------------------------------------------------------------
(***************************************************************************)
(* add_gc_task, on the thread of the scan timer, of the http server or of  *)
(* the state machine.                                                      *)
(***************************************************************************)
incr_pg_pending_gc_task(p) ==
    m_pending_gc_task_num_per_pg' =
        [m_pending_gc_task_num_per_pg EXCEPT ![p] = @ + 1]

\* Mutant: a finished task stays pending.
DecrForgotten(p) == UNCHANGED m_pending_gc_task_num_per_pg

\* The counter is never taken below 0.
decr_pg_pending_gc_task(p) ==
    m_pending_gc_task_num_per_pg' =
        [m_pending_gc_task_num_per_pg EXCEPT ![p] = IF @ > 0 THEN @ - 1 ELSE 0]

\* The m_pg_id of the chunk is read before the pending counter of that pg is
\* incremented, without the lock of the selector.
AddTask(t, c, priority) ==
    /\ PC(t) = "idle"
    /\ m_pg_id[c] # NULL
    /\ task' = [task EXCEPT ![t] = [@ EXCEPT !.pc = "incr", !.move_from = c,
                                             !.pg_id = m_pg_id[c],
                                             !.priority = priority]]
    /\ UNCHANGED <<m_reserved_chunk_queue, m_pending_gc_task_num_per_pg>>
    /\ UNCHANGED selectorVars
    /\ UNCHANGED pgmVars

\* is_eligible_for_gc (the amount of garbage is any) from the scan timer, or
\* an operator's request for a chunk without open shard.
scan_chunks_for_gc(t, c) ==
    /\ m_state[c] = "AVAILABLE"
    /\ AddTask(t, c, "normal")

\* Nobody else is about to mark the chunk for an emergent gc: a job first drains
\* the pending gc tasks of the pg and asks for each chunk once, and jobs on one pg
\* are taken not to overlap.
NoOtherJobOn(c) ==
    \A t \in Tasks : task[t].move_from = c /\ task[t].priority = "emergent"
                       => PC(t) \notin {"incr", "check", "mark"}

\* An operator's request for a chunk that is INUSE, or handle_no_space_left.
submit_emergent(t, c) ==
    /\ m_pg_id[c] \in quiesced
    /\ m_state[c] = "INUSE"
    /\ NoOtherJobOn(c)
    /\ AddTask(t, c, "emergent")

IncrPending(t) ==
    /\ PC(t) = "incr"
    /\ incr_pg_pending_gc_task(task[t].pg_id)
    /\ Goto(t, "check")
    /\ UNCHANGED m_reserved_chunk_queue
    /\ UNCHANGED selectorVars
    /\ UNCHANGED pgmVars

\* Mutant: the state of the pg is not looked at.
AnyPGCanBeGC(p) == TRUE

can_chunks_in_pg_be_gc(p) == pg_state[p] = "ALIVE"

CheckPG(t) ==
    /\ PC(t) = "check"
    /\ IF can_chunks_in_pg_be_gc(task[t].pg_id)
         THEN Goto(t, "mark") /\ UNCHANGED m_pending_gc_task_num_per_pg
         ELSE Goto(t, "done") /\ decr_pg_pending_gc_task(task[t].pg_id)
    /\ UNCHANGED m_reserved_chunk_queue
    /\ UNCHANGED selectorVars
    /\ UNCHANGED pgmVars

MarkChunk(t) ==
    LET c == task[t].move_from
        force == task[t].priority = "emergent"
    IN  /\ PC(t) = "mark"
        /\ try_mark_chunk_to_gc_state(c, force)
        /\ IF can_mark_to_gc(c, force)
             THEN Goto(t, "queued") /\ UNCHANGED m_pending_gc_task_num_per_pg
             ELSE Goto(t, "done") /\ decr_pg_pending_gc_task(task[t].pg_id)
        /\ UNCHANGED m_reserved_chunk_queue
        /\ UNCHANGED pgmVars

-----------------------------------------------------------------------------
(***************************************************************************)
(* process_gc_task, on a thread of m_gc_executor or m_egc_executor.        *)
(***************************************************************************)
StartTask(t) ==
    LET c == task[t].move_from IN
    /\ PC(t) = "queued"
    /\ Cardinality({u \in Tasks : /\ Running(u) /\ PDevOf(u) = PDevOf(t)
                                  /\ task[u].priority = task[t].priority})
         < ThreadNum(PDevOf(t), task[t].priority)
    /\ task' = [task EXCEPT ![t].pg_id = m_pg_id[c],
                            ![t].vchunk_id = m_v_chunk_id[c],
                            ![t].pc = IF m_state[c] # "GC" THEN "decr" ELSE "read"]
    /\ UNCHANGED <<m_reserved_chunk_queue, m_pending_gc_task_num_per_pg>>
    /\ UNCHANGED selectorVars
    /\ UNCHANGED pgmVars

\* m_reserved_chunk_queue.blockingRead of the actor of the device.
ReadReserved(t, c) ==
    /\ PC(t) = "read"
    /\ c \in m_reserved_chunk_queue /\ pdev_id[c] = PDevOf(t)
    /\ m_reserved_chunk_queue' = m_reserved_chunk_queue \ {c}
    /\ task' = [task EXCEPT ![t].move_to = c, ![t].pc = "copy"]
    /\ UNCHANGED m_pending_gc_task_num_per_pg
    /\ UNCHANGED selectorVars
    /\ UNCHANGED pgmVars

purge_reserved_chunk_asserts(c) == m_pg_id[c] = NULL /\ m_state[c] = "GC"

\* purge_reserved_chunk resets the chunk, copy_valid_data fills it with the
\* valid blobs, which need at most the blks they used before; then the gc task
\* superblk is written and the blob index replaced.
CopyData(t, n) ==
    LET c == task[t].move_to IN
    /\ PC(t) = "copy"
    /\ n \in available_blks[task[t].move_from] .. TotalBlks
    /\ available_blks' = [available_blks EXCEPT ![c] = n]
    /\ Goto(t, "switch")
    /\ UNCHANGED <<m_state, m_pg_id, m_v_chunk_id, m_heap,
                   m_reserved_chunk_queue, m_pending_gc_task_num_per_pg>>
    /\ UNCHANGED pgVars
    /\ UNCHANGED pgmVars

\* Purging or copying fails.  How much was written before does not matter: the
\* next task that gets the chunk purges it first.
CopyFails(t) ==
    LET c == task[t].move_to IN
    /\ PC(t) = "copy"
    /\ available_blks' = [available_blks EXCEPT ![c] = TotalBlks]
    /\ Goto(t, "abort")
    /\ UNCHANGED <<m_state, m_pg_id, m_v_chunk_id, m_heap,
                   m_reserved_chunk_queue, m_pending_gc_task_num_per_pg>>
    /\ UNCHANGED pgVars
    /\ UNCHANGED pgmVars

\* update_pg_meta_after_gc, called at the end of replace_blob_index.
SwitchChunks(t) ==
    /\ PC(t) = "switch"
    /\ switch_chunks_for_pg(task[t].pg_id, task[t].move_from, task[t].move_to)
    /\ Goto(t, "update")
    /\ UNCHANGED <<m_reserved_chunk_queue, m_pending_gc_task_num_per_pg>>
    /\ UNCHANGED pgmVars

UpdateVChunk(t) ==
    /\ PC(t) = "update"
    /\ update_vchunk_info_after_gc(task[t].move_from, task[t].move_to,
                                   final_state(task[t].priority),
                                   task[t].pg_id, task[t].vchunk_id)
    /\ Goto(t, "push")
    /\ UNCHANGED <<m_reserved_chunk_queue, m_pending_gc_task_num_per_pg>>
    /\ UNCHANGED pgmVars

\* task.setValue(true), then move_from is the new reserved chunk.
PushReserved(t) ==
    /\ PC(t) = "push"
    /\ m_reserved_chunk_queue' = m_reserved_chunk_queue \cup {task[t].move_from}
    /\ Goto(t, "decr")
    /\ UNCHANGED m_pending_gc_task_num_per_pg
    /\ UNCHANGED selectorVars
    /\ UNCHANGED pgmVars

\* Mutant: the chunk of a failed task stays in GC state.
AbortKeepsGC(t) ==
    /\ PC(t) = "abort"
    /\ Goto(t, "giveback")
    /\ UNCHANGED <<m_reserved_chunk_queue, m_pending_gc_task_num_per_pg>>
    /\ UNCHANGED selectorVars
    /\ UNCHANGED pgmVars

\* handle_error_before_persisting_gc_metablk.
AbortTask(t) ==
    /\ PC(t) = "abort"
    /\ mark_chunk_out_of_gc_state(task[t].move_from,
                                  final_state(task[t].priority))
    /\ Goto(t, "giveback")
    /\ UNCHANGED <<m_reserved_chunk_queue, m_pending_gc_task_num_per_pg>>
    /\ UNCHANGED pgmVars

GiveBackReserved(t) ==
    /\ PC(t) = "giveback"
    /\ m_reserved_chunk_queue' = m_reserved_chunk_queue \cup {task[t].move_to}
    /\ Goto(t, "decr")
    /\ UNCHANGED m_pending_gc_task_num_per_pg
    /\ UNCHANGED selectorVars
    /\ UNCHANGED pgmVars

DecrPending(t) ==
    /\ PC(t) = "decr"
    /\ decr_pg_pending_gc_task(task[t].pg_id)
    /\ Goto(t, "done")
    /\ UNCHANGED m_reserved_chunk_queue
    /\ UNCHANGED selectorVars
    /\ UNCHANGED pgmVars

-----------------------------------------------------------------------------
(***************************************************************************)
(* The pg manager and the shard manager.                                   *)
(***************************************************************************)
create_pg(p, f) ==
    /\ pg_state[p] = "NONE" /\ created[p] < MaxCreate
    /\ select_chunks_for_pg(p, f)
    /\ pg_state' = [pg_state EXCEPT ![p] = "ALIVE"]
    /\ created' = [created EXCEPT ![p] = @ + 1]
    /\ UNCHANGED <<destroy_pc, open_shards, quiesced>>
    /\ UNCHANGED gcVars

\* Shard requests are served while the pg lives and is not quiesced.
Serving(p) == pg_state[p] = "ALIVE" /\ p \notin quiesced

\* The leader picks the chunk of a new shard ...
create_shard(p, v) ==
    /\ Serving(p)
    /\ get_most_available_blk_chunk(p, v)
    /\ open_shards' = [open_shards EXCEPT ![p] = @ \cup {v}]
    /\ UNCHANGED <<pg_state, destroy_pc, quiesced, created>>
    /\ UNCHANGED gcVars

\* ... and a follower selects the same v_chunk, or waits while it is gc'ed.
create_shard_on_follower(p, v) ==
    /\ Serving(p)
    /\ v \notin open_shards[p]
    /\ select_specific_chunk(p, v)
    /\ open_shards' = [open_shards EXCEPT ![p] = @ \cup {v}]
    /\ UNCHANGED <<pg_state, destroy_pc, quiesced, created>>
    /\ UNCHANGED gcVars

put_blob(p, v) ==
    LET c == get_pg_vchunk(p, v) IN
    /\ Serving(p) /\ v \in open_shards[p]
    /\ available_blks[c] > 0
    /\ available_blks' = [available_blks EXCEPT ![c] = @ - 1]
    /\ UNCHANGED <<m_state, m_pg_id, m_v_chunk_id, m_heap>>
    /\ UNCHANGED pgVars
    /\ UNCHANGED gcVars
    /\ UNCHANGED pgmVars

seal_shard(p, v) ==
    /\ Serving(p) /\ v \in open_shards[p]
    /\ release_chunk(p, v)
    /\ open_shards' = [open_shards EXCEPT ![p] = @ \ {v}]
    /\ UNCHANGED <<pg_state, destroy_pc, quiesced, created>>
    /\ UNCHANGED gcVars

\* repl_dev->quiesce_reqs drains what is pending (a shard request is one step
\* here) and refuses more, until the promises of all emergent tasks submitted
\* for the pg are set.
quiesce_reqs(p) ==
    /\ Serving(p)
    /\ quiesced' = quiesced \cup {p}
    /\ UNCHANGED <<pg_state, destroy_pc, open_shards, created>>
    /\ UNCHANGED gcVars
    /\ UNCHANGED selectorVars

PromiseSet(t) == PC(t) \in {"idle", "push", "giveback", "decr", "done"}

resume_accepting_reqs(p) ==
    /\ p \in quiesced
    /\ \A t \in Tasks : task[t].priority = "emergent" /\ task[t].pg_id = p
                           => PromiseSet(t)
    /\ quiesced' = quiesced \ {p}
    /\ UNCHANGED <<pg_state, destroy_pc, open_shards, created>>
    /\ UNCHANGED gcVars
    /\ UNCHANGED selectorVars

mark_pg_destroyed(p) ==
    /\ pg_state[p] = "ALIVE"
    /\ pg_state' = [pg_state EXCEPT ![p] = "DESTROYED"]
    /\ destroy_pc' = [destroy_pc EXCEPT ![p] = "drain"]
    /\ UNCHANGED <<open_shards, quiesced, created>>
    /\ UNCHANGED gcVars
    /\ UNCHANGED selectorVars

drain_pg_pending_gc_task(p) ==
    /\ destroy_pc[p] = "drain"
    /\ m_pending_gc_task_num_per_pg[p] = 0
    /\ destroy_pc' = [destroy_pc EXCEPT ![p] = "reset"]
    /\ UNCHANGED <<pg_state, open_shards, quiesced, created>>
    /\ UNCHANGED gcVars
    /\ UNCHANGED selectorVars

\* destroy_shards and destroy_hs_resources.
DestroyResources(p) ==
    /\ destroy_pc[p] = "reset"
    /\ reset_pg_chunks(p)
    /\ open_shards' = [open_shards EXCEPT ![p] = {}]
    /\ destroy_pc' = [destroy_pc EXCEPT ![p] = "return"]
    /\ UNCHANGED <<pg_state, quiesced, created>>
    /\ UNCHANGED gcVars

\* destroy_pg_superblk takes the pg out of the map; then the chunks go back.
ReturnChunks(p) ==
    /\ destroy_pc[p] = "return"
    /\ return_pg_chunks_to_dev_heap(p)
    /\ pg_state' = [pg_state EXCEPT ![p] = "NONE"]
    /\ destroy_pc' = [destroy_pc EXCEPT ![p] = "none"]
    /\ quiesced' = quiesced \ {p}
    /\ UNCHANGED <<open_shards, created>>
    /\ UNCHANGED gcVars

-----------------------------------------------------------------------------
AddGCTask(t) ==
    \/ \E c \in Chunks : scan_chunks_for_gc(t, c) \/ submit_emergent(t, c)
    \/ IncrPending(t)
    \/ CheckPG(t)
    \/ MarkChunk(t)

process_gc_task(t) ==
    \/ StartTask(t)
    \/ \E c \in Chunks : ReadReserved(t, c)
    \/ \E n \in 0 .. TotalBlks : CopyData(t, n)
    \/ CopyFails(t)
    \/ SwitchChunks(t)
    \/ UpdateVChunk(t)
    \/ PushReserved(t)
    \/ AbortTask(t)
    \/ GiveBackReserved(t)
    \/ DecrPending(t)

ShardStep(p) ==
    \E v \in VChunksOf(p) : \/ create_shard(p, v)
                            \/ create_shard_on_follower(p, v)
                            \/ put_blob(p, v)
                            \/ seal_shard(p, v)

pg_destroy(p) == \/ drain_pg_pending_gc_task(p)
                 \/ DestroyResources(p)
                 \/ ReturnChunks(p)

Next ==
    \/ \E t \in Tasks : AddGCTask(t) \/ process_gc_task(t)
    \/ \E p \in PGs :
         \/ \E f \in [VChunkIds -> Chunks \cup {NULL}] : create_pg(p, f)
         \/ ShardStep(p)
         \/ quiesce_reqs(p)
         \/ resume_accepting_reqs(p)
         \/ mark_pg_destroyed(p)
         \/ pg_destroy(p)

Spec == Init /\ [][Next]_vars

\* A thread that has begun add_gc_task, process_gc_task or pg_destroy goes on,
\* an idle thread of an executor takes a queued task, and the continuation of a
\* gc future runs.  Nobody is obliged to submit, quiesce, create or destroy.
Fairness ==
    /\ \A t \in Tasks : /\ WF_vars(IncrPending(t))
                        /\ WF_vars(CheckPG(t))
                        /\ WF_vars(MarkChunk(t))
                        /\ WF_vars(process_gc_task(t))
    /\ \A p \in PGs : /\ WF_vars(pg_destroy(p))
                      /\ WF_vars(resume_accepting_reqs(p))

FairSpec == Spec /\ Fairness

-----------------------------------------------------------------------------
TypeOK ==
    /\ task \in [Tasks -> [pc : TaskPC, priority : task_priority,
                           move_from : Chunks \cup {NULL},
                           move_to : Chunks \cup {NULL},
                           pg_id : PGs \cup {NULL},
                           vchunk_id : VChunkIds \cup {NULL}]]
    /\ m_reserved_chunk_queue \subseteq Chunks
    /\ m_pending_gc_task_num_per_pg \in [PGs -> 0 .. Cardinality(Tasks)]
    /\ pg_state \in [PGs -> {"NONE", "ALIVE", "DESTROYED"}]
    /\ destroy_pc \in [PGs -> {"none", "drain", "reset", "return"}]
    /\ open_shards \in [PGs -> SUBSET VChunkIds]
    /\ quiesced \subseteq PGs
    /\ created \in [PGs -> 0 .. MaxCreate]

\* Every variable keeps its kind (TypeOK), and
\* no RELEASE_ASSERT of process_gc_task, purge_reserved_chunk,
\* switch_chunks_for_pg, update_vchunk_info_after_gc or
\* mark_chunk_out_of_gc_state fails, whatever shards, operators and pg_destroy
\* do while the task waits for a thread and copies.
AssertsHold ==
    TypeOK /\ \A t \in Tasks : LET k == task[t] IN
       /\ PC(t) = "queued" => /\ m_pg_id[k.move_from] # NULL
                              /\ m_v_chunk_id[k.move_from] # NULL
       /\ PC(t) = "copy" => purge_reserved_chunk_asserts(k.move_to)
       /\ PC(t) = "switch" =>
            switch_chunks_for_pg_asserts(k.pg_id, k.move_from, k.move_to)
       /\ PC(t) = "update" =>
            update_vchunk_info_after_gc_asserts(k.move_from, k.move_to)
       /\ PC(t) = "abort" => mark_chunk_out_of_gc_state_asserts(k.move_from)

\* "the blockingRead here will not block in any case and return immediately":
\* a task that has a thread finds a reserved chunk of its device in the queue.
ReadNeverBlocks ==
    \A t \in Tasks : PC(t) = "read" =>
       \E c \in m_reserved_chunk_queue : pdev_id[c] = PDevOf(t)

\* drain_pg_pending_gc_task "wait until all the pending gc tasks for this pg are
\* completed": once pg_destroy starts to take the pg apart no task works on one
\* of its chunks and none will.
DrainedMeansNoGC ==
    \A p \in PGs : destroy_pc[p] \in {"reset", "return"} =>
       /\ \A t \in Tasks : task[t].pg_id = p => PC(t) \notin {"mark", "queued"}
                                                /\ ~Running(t)
       /\ \A c \in Chunks : m_pg_id[c] = p => m_state[c] # "GC"

\* A chunk is INUSE (or in emergent gc) exactly while a shard is open on its
\* v_chunk: gc neither leaks the chunk of a sealed shard nor frees the chunk of
\* an open one.
InUseIffOpen ==
    \A p \in PGs : pg_state[p] = "ALIVE" => \A v \in VChunksOf(p) :
       LET c == m_pg_chunks[p][v]
           emergent == \E t \in Tasks :
                          /\ task[t].priority = "emergent"
                          /\ PC(t) \in {"queued", "read", "copy", "switch",
                                        "update", "abort"}
                          /\ m_pg_id[task[t].move_from] = p
                          /\ m_v_chunk_id[task[t].move_from] = v
       IN  v \in open_shards[p] <=> m_state[c] = "INUSE" \/ emergent

\* pg_destroy finishes: the drain is not kept waiting for ever.
DestroyFinishes ==
    \A p \in PGs : pg_state[p] = "DESTROYED" ~> pg_state[p] = "NONE"

\* A shard creation that waits in select_specific_chunk for a v_chunk in GC
\* state gets it, unless the pg is destroyed.
GCEnds ==
    \A p \in PGs : \A v \in VChunksOf(p) :
       (p \in m_per_pg_chunks /\ m_state[m_pg_chunks[p][v]] = "GC")
         ~> (p \notin m_per_pg_chunks \/ m_state[m_pg_chunks[p][v]] # "GC")

-----------------------------------------------------------------------------
(***************************************************************************)
(* The gc manager and its neighbours keep the contract of the selector.    *)
(***************************************************************************)
TaskOn(p, v) == {t \in Tasks :
    /\ PC(t) \in {"queued", "read", "copy", "switch", "update", "abort"}
    /\ m_pg_id[task[t].move_from] = p /\ m_v_chunk_id[task[t].move_from] = v}

Contract == INSTANCE ChunkOwnership WITH
    gc_priority <- [p \in PGs |-> [v \in VChunkIds |->
                      IF TaskOn(p, v) = {} THEN NULL
                      ELSE task[CHOOSE t \in TaskOn(p, v) : TRUE].priority]],
    reset_pgs <- {p \in PGs : destroy_pc[p] = "return"}

\* Every step of this module is a step ChunkOwnership allows (or changes
\* nothing the selector knows of), so no order of gc, shard and pg operations
\* breaks the contract of the selector.
KeepsContract == Contract!Spec

=============================================================================
