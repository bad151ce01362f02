--------------------------- MODULE ChunkOwnership ---------------------------
(***************************************************************************)
(* What HeapChunkSelector promises its clients: the pg manager (create,    *)
(* destroy, restart), the shard manager (select, release) and the gc       *)
(* manager (mark, switch, update).  The clients may call in any order that *)
(* respects the contract each method states with its RELEASE_ASSERTs and   *)
(* header comments; the guards below are that contract.  GCManager is      *)
(* shown to keep it (refinement), so what holds here holds there.          *)
(***************************************************************************)
EXTENDS HeapChunkSelector

VARIABLES
    gc_priority,  \* the priority of the gc task that works on a v_chunk
    reset_pgs     \* the pgs whose chunks pg_destroy has reset

vars == <<m_state, m_pg_id, m_v_chunk_id, available_blks, m_heap,
          m_per_pg_chunks, m_pg_chunks, available_num_chunks,
          available_blk_count, gc_priority, reset_pgs>>

Priority == {"normal", "emergent"}

ASSUME PriorityAssumption == NULL \notin Priority

NoTask == [p \in PGs |-> [v \in VChunkIds |-> NULL]]

\* Mutant: the chunk of an open shard becomes available after an emergent gc.
AlwaysAvailable(priority) == "AVAILABLE"

\* process_gc_task: the state a chunk has once its gc is over.
final_state(priority) == IF priority = "normal" THEN "AVAILABLE" ELSE "INUSE"

Live(p) == p \in m_per_pg_chunks \ reset_pgs

\* A chunk that is neither in a heap nor owned by a pg.
ReservedChunk(c) == c \notin m_heap /\ m_pg_id[c] = NULL

\* The v_chunks the collection counts as available: a normal gc does not take
\* its v_chunk out of the count, an emergent one finds it already out of it.
Counted(p) == {v \in VChunksOf(p) :
                 \/ m_state[m_pg_chunks[p][v]] = "AVAILABLE"
                 \/ gc_priority[p][v] = "normal"}

-----------------------------------------------------------------------------
\* The first start: no pg, the reserved chunks are marked and all others are
\* in the heap of their device.
Init ==
    /\ m_state = [c \in Chunks |-> IF c \in Reserved THEN "GC" ELSE "AVAILABLE"]
    /\ m_pg_id = [c \in Chunks |-> NULL]
    /\ m_v_chunk_id = [c \in Chunks |-> NULL]
    /\ available_blks = [c \in Chunks |-> TotalBlks]
    /\ m_heap = Chunks \ Reserved
    /\ m_per_pg_chunks = {}
    /\ m_pg_chunks = [p \in PGs |-> NoChunks]
    /\ available_num_chunks = [p \in PGs |-> 0]
    /\ available_blk_count = [p \in PGs |-> 0]
    /\ gc_priority = NoTask
    /\ reset_pgs = {}

CreatePG(p, f) ==
    /\ select_chunks_for_pg(p, f)
    /\ UNCHANGED <<gc_priority, reset_pgs>>

ProposeShard(p, v) ==
    /\ Live(p)
    /\ get_most_available_blk_chunk(p, v)
    /\ UNCHANGED <<gc_priority, reset_pgs>>

SelectChunk(p, v) ==
    /\ Live(p)
    /\ select_specific_chunk(p, v)
    /\ UNCHANGED <<gc_priority, reset_pgs>>

ReleaseChunk(p, v) ==
    /\ Live(p)
    /\ release_chunk(p, v)
    /\ UNCHANGED <<gc_priority, reset_pgs>>

\* The append allocator gives out blks of the chunk of an open shard.
AllocBlk(p, v) ==
    LET c == get_pg_vchunk(p, v) IN
    /\ Live(p) /\ HasVChunk(p, v)
    /\ m_state[c] = "INUSE" /\ available_blks[c] > 0
    /\ available_blks' = [available_blks EXCEPT ![c] = @ - 1]
    /\ UNCHANGED <<m_state, m_pg_id, m_v_chunk_id, m_heap, gc_priority,
                   reset_pgs>>
    /\ UNCHANGED pgVars

\* A gc task is only accepted for the chunk of a pg.
MarkToGC(c, priority) ==
    /\ m_pg_id[c] # NULL /\ Live(m_pg_id[c])
    /\ can_mark_to_gc(c, priority = "emergent")
    /\ try_mark_chunk_to_gc_state(c, priority = "emergent")
    /\ gc_priority' =
           [gc_priority EXCEPT ![m_pg_id[c]][m_v_chunk_id[c]] = priority]
    /\ UNCHANGED reset_pgs

\* The gc purges a reserved chunk and copies valid data to it.  The blks left
\* are at least those of the chunk the data is copied from.
FillReserved(c, n) ==
    /\ m_state[c] = "GC" /\ ReservedChunk(c) /\ c \notin MappedChunks
    /\ available_blks' = [available_blks EXCEPT ![c] = n]
    /\ UNCHANGED <<m_state, m_pg_id, m_v_chunk_id, m_heap, gc_priority,
                   reset_pgs>>
    /\ UNCHANGED pgVars

\* Mutant: process_gc_task does not look at the state of move_from.
SwitchAnyState(p, old, new) ==
    /\ Live(p) /\ switch_chunks_for_pg_asserts(p, old, new)
    /\ ReservedChunk(new) /\ pdev_id[new] = pdev_id[old]
    /\ new \notin MappedChunks
    /\ available_blks[new] >= available_blks[old]
    /\ switch_chunks_for_pg(p, old, new)
    /\ UNCHANGED <<gc_priority, reset_pgs>>

SwitchChunks(p, old, new) ==
    /\ Live(p) /\ switch_chunks_for_pg_asserts(p, old, new)
    /\ m_state[old] = "GC" /\ m_state[new] = "GC"
    /\ ReservedChunk(new) /\ pdev_id[new] = pdev_id[old]
    /\ new \notin MappedChunks \/ m_pg_chunks[p][m_v_chunk_id[old]] = new
    /\ available_blks[new] >= available_blks[old]
    /\ switch_chunks_for_pg(p, old, new)
    /\ UNCHANGED <<gc_priority, reset_pgs>>

FinishGC(move_from, move_to, p, v) ==
    /\ HasVChunk(p, v)
    /\ update_vchunk_info_after_gc_asserts(move_from, move_to)
    /\ m_pg_id[move_from] = p /\ m_v_chunk_id[move_from] = v
    /\ m_pg_chunks[p][v] = move_to
    /\ update_vchunk_info_after_gc(move_from, move_to,
                                   final_state(gc_priority[p][v]), p, v)
    /\ gc_priority' = [gc_priority EXCEPT ![p][v] = NULL]
    /\ UNCHANGED reset_pgs

\* handle_error_before_persisting_gc_metablk: the pg keeps its chunk.
AbortGC(p, v) ==
    LET c == get_pg_vchunk(p, v) IN
    /\ HasVChunk(p, v)
    /\ m_pg_id[c] = p
    /\ mark_chunk_out_of_gc_state_asserts(c)
    /\ mark_chunk_out_of_gc_state(c, final_state(gc_priority[p][v]))
    /\ gc_priority' = [gc_priority EXCEPT ![p][v] = NULL]
    /\ UNCHANGED reset_pgs

\* pg_destroy resets the chunks once the gc tasks of the pg are drained.
ResetPG(p) ==
    /\ Live(p)
    /\ \A v \in VChunksOf(p) : gc_priority[p][v] = NULL
    /\ reset_pg_chunks(p)
    /\ reset_pgs' = reset_pgs \cup {p}
    /\ UNCHANGED gc_priority

ReturnPG(p) ==
    /\ p \in reset_pgs
    /\ return_pg_chunks_to_dev_heap(p)
    /\ reset_pgs' = reset_pgs \ {p}
    /\ UNCHANGED gc_priority

\* A restart that finds no gc task between its switch and its end; any set of
\* v_chunks may turn out to have an open shard.  GCRecovery has the others.
Restart(excluding) ==
    /\ \A p \in PGs :
         excluding[p] \subseteq IF p \in m_per_pg_chunks THEN VChunksOf(p) ELSE {}
    /\ \A c \in Chunks : m_pg_id[c] # NULL => c \in MappedChunks
    /\ reset_pgs = {}
    /\ recover(m_pg_chunks, excluding, {c \in Chunks : ReservedChunk(c)})
    /\ gc_priority' = NoTask
    /\ UNCHANGED <<available_blks, reset_pgs>>

Next ==
    \/ \E p \in PGs :
         \/ \E f \in [VChunkIds -> Chunks \cup {NULL}] : CreatePG(p, f)
         \/ \E v \in VChunkIds : \/ ProposeShard(p, v)
                                 \/ SelectChunk(p, v)
                                 \/ ReleaseChunk(p, v)
                                 \/ AllocBlk(p, v)
                                 \/ AbortGC(p, v)
         \/ \E c, d \in Chunks : \/ SwitchChunks(p, c, d)
                                 \/ \E v \in VChunkIds : FinishGC(c, d, p, v)
         \/ ResetPG(p)
         \/ ReturnPG(p)
    \/ \E c \in Chunks, priority \in Priority : MarkToGC(c, priority)
    \/ \E c \in Chunks, n \in 0 .. TotalBlks : FillReserved(c, n)
    \/ \E excluding \in [PGs -> SUBSET VChunkIds] : Restart(excluding)

Spec == Init /\ [][Next]_vars

-----------------------------------------------------------------------------
TypeOK ==
    /\ m_state \in [Chunks -> ChunkState]
    /\ m_pg_id \in [Chunks -> PGs \cup {NULL}]
    /\ m_v_chunk_id \in [Chunks -> VChunkIds \cup {NULL}]
    /\ available_blks \in [Chunks -> 0 .. TotalBlks]
    /\ m_heap \subseteq Chunks
    /\ m_per_pg_chunks \subseteq PGs
    /\ m_pg_chunks \in [PGs -> [VChunkIds -> Chunks \cup {NULL}]]
    /\ available_num_chunks \in [PGs -> Int]
    /\ DOMAIN available_blk_count = PGs
    /\ gc_priority \in [PGs -> [VChunkIds -> Priority \cup {NULL}]]
    /\ reset_pgs \subseteq m_per_pg_chunks

\* A physical chunk backs at most one v_chunk of one pg, and a chunk in a
\* device heap backs none: two pgs never write to the same chunk, whatever
\* the order of pg create/destroy, shard and gc calls.
OneOwner ==
    /\ \A p, q \in m_per_pg_chunks :
         \A v \in VChunksOf(p), w \in VChunksOf(q) :
            m_pg_chunks[p][v] = m_pg_chunks[q][w] => p = q /\ v = w
    /\ MappedChunks \cap m_heap = {}

\* The chunk vector of a pg and the pg_id/v_chunk_id kept in the chunk agree,
\* except between switch_chunks_for_pg and update_vchunk_info_after_gc of one
\* gc task; then both chunks are in GC state, so no shard can select the
\* v_chunk while the two disagree.
BackPointers ==
    \A p \in m_per_pg_chunks : \A v \in VChunksOf(p) :
       LET c == m_pg_chunks[p][v] IN
       \/ m_pg_id[c] = p /\ m_v_chunk_id[c] = v
       \/ /\ m_state[c] = "GC" /\ m_pg_id[c] = NULL
          /\ \E old \in Chunks : /\ m_pg_id[old] = p /\ m_v_chunk_id[old] = v
                                 /\ m_state[old] = "GC"

\* The asserts of select_chunks_for_pg ("chunk should be empty", "chunk state
\* should be available") cannot fail: a chunk in a heap is empty, available
\* and belongs to no pg, also after it has been in a pg that was destroyed.
HeapIsFresh ==
    \A c \in m_heap : /\ available_blks[c] = TotalBlks
                      /\ m_state[c] = "AVAILABLE"
                      /\ m_pg_id[c] = NULL

\* All chunks of a pg are on one device, also after gc moved some of them:
\* return_pg_chunks_to_dev_heap pushes all of them into the heap of the device
\* of chunk 0, and recover_pg_chunks refuses a mixed list.
PGOnOnePDev ==
    \A p \in m_per_pg_chunks : \A v, w \in VChunksOf(p) :
       pdev_id[m_pg_chunks[p][v]] = pdev_id[m_pg_chunks[p][w]]

\* Every gc task gives back one chunk for the one it takes: the number of
\* chunks of a device outside the heap and outside all pgs stays the number
\* reserved at the first start.
ReservedConserved ==
    \A d \in PDevs :
       Cardinality({c \in Chunks : ReservedChunk(c) /\ pdev_id[c] = d})
         = Cardinality({c \in Reserved : pdev_id[c] = d})

\* available_num_chunks counts at least the v_chunks that are available or
\* will be after a normal gc, so the unsigned counter cannot wrap around when
\* select_specific_chunk or get_most_available_blk_chunk decrements it.
NumChunksCovered ==
    \A p \in m_per_pg_chunks : Cardinality(Counted(p)) <= available_num_chunks[p]


\* A chunk leaves the vector of a live pg only to a chunk that was reserved,
\* and only while its v_chunk is being gc'ed: no shard sees its v_chunk move.
ChunksMoveOnlyByGC ==
    [][\A p \in PGs : Live(p) /\ Live(p)' =>
         \A v \in VChunksOf(p) :
            m_pg_chunks'[p][v] # m_pg_chunks[p][v] =>
               /\ m_state[m_pg_chunks[p][v]] = "GC"
               /\ ReservedChunk(m_pg_chunks'[p][v])]_vars

=============================================================================
