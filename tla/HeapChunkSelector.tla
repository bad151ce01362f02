------------------------- MODULE HeapChunkSelector -------------------------
(***************************************************************************)
(* HeapChunkSelector (heap_chunk_selector.{h,cpp}) hands the physical      *)
(* chunks of the data service out to placement groups and shards.  Every   *)
(* method runs under m_chunk_selector_mtx, so every method is one action.  *)
(*                                                                         *)
(* A method that reports a missing pg or v_chunk returns without changing  *)
(* anything; those early returns are the guards below.  A RELEASE_ASSERT   *)
(* is an operator of its own (.._asserts) so that the modules which call a *)
(* method can be checked never to call it with the assertion false.        *)
(***************************************************************************)
EXTENDS Integers, FiniteSets, FiniteSetsExt

CONSTANTS
    Chunks,     \* m_chunks: the chunks of all devices, fixed after boot
    PDevs,      \* the physical devices
    pdev_id,    \* [Chunks -> PDevs], the device of a chunk
    PGs,        \* the pg ids
    num_chunk,  \* [PGs -> Nat \ {0}], pg_size / chunk_size
    TotalBlks,  \* get_total_blks(), the same for every chunk
    Reserved,   \* the chunks the gc reserves at the first start
    NULL        \* std::nullopt

VChunksOf(p) == 0 .. num_chunk[p] - 1
VChunkIds == UNION {VChunksOf(p) : p \in PGs}

ASSUME SelectorAssumption ==
    /\ IsFiniteSet(Chunks)
    /\ pdev_id \in [Chunks -> PDevs]
    /\ num_chunk \in [PGs -> Nat \ {0}]
    /\ TotalBlks \in Nat
    /\ Reserved \subseteq Chunks
    /\ NULL \notin Chunks /\ NULL \notin PGs /\ NULL \notin VChunkIds

VARIABLES
    m_state,              \* ExtendedVChunk::m_state
    m_pg_id,              \* ExtendedVChunk::m_pg_id
    m_v_chunk_id,         \* ExtendedVChunk::m_v_chunk_id
    available_blks,       \* VChunk::available_blks(), kept by the blk allocator
    m_heap,               \* the chunks in the heaps of m_per_dev_heap
    m_per_pg_chunks,      \* the keys of m_per_pg_chunks
    m_pg_chunks,          \* PGChunkCollection::m_pg_chunks: v_chunk -> p_chunk
    available_num_chunks, \* PGChunkCollection::available_num_chunks
    available_blk_count   \* PGChunkCollection::available_blk_count

chunkVars == <<m_state, m_pg_id, m_v_chunk_id, available_blks>>
pgVars == <<m_per_pg_chunks, m_pg_chunks, available_num_chunks,
            available_blk_count>>
selectorVars == <<m_state, m_pg_id, m_v_chunk_id, available_blks, m_heap,
                  m_per_pg_chunks, m_pg_chunks, available_num_chunks,
                  available_blk_count>>

ChunkState == {"AVAILABLE", "INUSE", "GC"}

NoChunks == [v \in VChunkIds |-> NULL]

-----------------------------------------------------------------------------
(***************************************************************************)
(* Lookups.                                                                *)
(***************************************************************************)
get_pg_vchunk(p, v) == m_pg_chunks[p][v]

HasVChunk(p, v) == p \in m_per_pg_chunks /\ v \in VChunksOf(p)

is_chunk_available(p, v) == m_state[get_pg_vchunk(p, v)] = "AVAILABLE"

ChunksOfPG(p) == {m_pg_chunks[p][v] : v \in VChunksOf(p)}

\* Mutant: chunks that belong to a pg are still offered.
AvailableOnDev(d) == {c \in Chunks : pdev_id[c] = d /\ m_state[c] = "AVAILABLE"}

PDevHeap(d) == {c \in m_heap : pdev_id[c] = d}

\* The chunks in the vectors of all pgs together.
MappedChunks == UNION {ChunksOfPG(p) : p \in m_per_pg_chunks}

\* The available blks of a set of chunks together.
BlksOf(S) == MapThenSumSet(LAMBDA c : available_blks[c], S)

-----------------------------------------------------------------------------
(***************************************************************************)
(* Selecting and releasing the chunk of a shard.                           *)
(***************************************************************************)

\* AVAILABLE -> INUSE, with the counters of the collection.
TakeChunk(p, v) ==
    LET c == get_pg_vchunk(p, v) IN
    /\ m_state' = [m_state EXCEPT ![c] = "INUSE"]
    /\ available_num_chunks' = [available_num_chunks EXCEPT ![p] = @ - 1]
    /\ available_blk_count' =
           [available_blk_count EXCEPT ![p] = @ - available_blks[c]]

\* std::max_element with the comparator of the code yields the first of the
\* available chunks that have the most available blks.
MostAvailable(p, v) ==
    /\ v \in VChunksOf(p)
    /\ is_chunk_available(p, v)
    /\ \A w \in VChunksOf(p) : is_chunk_available(p, w) =>
         LET a == available_blks[get_pg_vchunk(p, w)]
             b == available_blks[get_pg_vchunk(p, v)]
         IN  IF w < v THEN a < b ELSE a <= b

\* Called by the proposer of a create_shard; v is the returned v_chunk_id.
get_most_available_blk_chunk(p, v) ==
    /\ p \in m_per_pg_chunks
    /\ MostAvailable(p, v)
    /\ TakeChunk(p, v)
    /\ UNCHANGED <<m_pg_id, m_v_chunk_id, available_blks, m_heap,
                   m_per_pg_chunks, m_pg_chunks>>

\* Called by the allocator on a follower, by the commit of create_shard and
\* after log replay.  The loop sleeps while the chunk is in GC state, so the
\* action is only enabled when it is not.
select_specific_chunk(p, v) ==
    /\ HasVChunk(p, v)
    /\ m_state[get_pg_vchunk(p, v)] # "GC"
    /\ IF is_chunk_available(p, v)
         THEN TakeChunk(p, v)
         ELSE UNCHANGED <<m_state, available_num_chunks, available_blk_count>>
    /\ UNCHANGED <<m_pg_id, m_v_chunk_id, available_blks, m_heap,
                   m_per_pg_chunks, m_pg_chunks>>

\* Seal and rollback return the chunk; a chunk that is not INUSE (in
\* particular one in GC state) is left alone.
release_chunk(p, v) ==
    LET c == get_pg_vchunk(p, v) IN
    /\ HasVChunk(p, v)
    /\ IF m_state[c] = "INUSE"
         THEN /\ m_state' = [m_state EXCEPT ![c] = "AVAILABLE"]
              /\ available_num_chunks' =
                     [available_num_chunks EXCEPT ![p] = @ + 1]
              /\ available_blk_count' =
                     [available_blk_count EXCEPT ![p] = @ + available_blks[c]]
         ELSE UNCHANGED <<m_state, available_num_chunks, available_blk_count>>
    /\ UNCHANGED <<m_pg_id, m_v_chunk_id, available_blks, m_heap,
                   m_per_pg_chunks, m_pg_chunks>>

-----------------------------------------------------------------------------
(***************************************************************************)
(* Creating and destroying a pg.                                           *)
(***************************************************************************)

\* The device with the most chunks in its heap; ties go either way because
\* the devices are kept in an unordered map.
MostAvailDev(d) ==
    \A e \in PDevs : Cardinality(PDevHeap(e)) <= Cardinality(PDevHeap(d))

\* f gives the chunks popped from the heap of device d.  The heap orders by
\* available blks, so a chunk left behind never has more of them.
PopsFrom(d, p, f) ==
    /\ \A v \in VChunksOf(p) : f[v] \in PDevHeap(d)
    /\ \A v \in VChunkIds \ VChunksOf(p) : f[v] = NULL
    /\ \A v, w \in VChunksOf(p) : f[v] = f[w] => v = w
    /\ \A v \in VChunksOf(p) :
         \A c \in PDevHeap(d) \ {f[w] : w \in VChunksOf(p)} :
            available_blks[c] <= available_blks[f[v]]

\* The second call for the same pg ("leader may call select_chunks_for_pg
\* multiple times") returns without selecting: the guard p \notin.
select_chunks_for_pg(p, f) ==
    LET got == {f[v] : v \in VChunksOf(p)} IN
    /\ p \notin m_per_pg_chunks
    /\ \E d \in PDevs : PopsFrom(d, p, f) /\ MostAvailDev(d)
    /\ m_per_pg_chunks' = m_per_pg_chunks \cup {p}
    /\ m_pg_chunks' = [m_pg_chunks EXCEPT ![p] = f]
    /\ m_heap' = m_heap \ got
    /\ m_pg_id' = [c \in Chunks |-> IF c \in got THEN p ELSE m_pg_id[c]]
    /\ m_v_chunk_id' =
           [c \in Chunks |-> IF c \in got
                               THEN CHOOSE v \in VChunksOf(p) : f[v] = c
                               ELSE m_v_chunk_id[c]]
    /\ available_num_chunks' =
           [available_num_chunks EXCEPT ![p] = num_chunk[p]]
    /\ available_blk_count' =
           [available_blk_count EXCEPT ![p] = BlksOf(got)]
    /\ UNCHANGED <<m_state, available_blks>>

\* Mutant: the allocators are not reset.
KeepsBlks(p) == p \in m_per_pg_chunks /\ UNCHANGED selectorVars

\* chunk->reset() for every chunk of a pg that is being destroyed.
reset_pg_chunks(p) ==
    /\ p \in m_per_pg_chunks
    /\ available_blks' = [c \in Chunks |-> IF c \in ChunksOfPG(p)
                                             THEN TotalBlks
                                             ELSE available_blks[c]]
    /\ UNCHANGED <<m_state, m_pg_id, m_v_chunk_id, m_heap, m_per_pg_chunks,
                   m_pg_chunks, available_num_chunks, available_blk_count>>

\* A chunk in GC state is pushed too, and keeps its state.
return_pg_chunks_to_dev_heap(p) ==
    LET mine == ChunksOfPG(p) IN
    /\ p \in m_per_pg_chunks
    /\ m_state' = [c \in Chunks |-> IF c \in mine /\ m_state[c] = "INUSE"
                                      THEN "AVAILABLE" ELSE m_state[c]]
    /\ m_pg_id' = [c \in Chunks |-> IF c \in mine THEN NULL ELSE m_pg_id[c]]
    /\ m_v_chunk_id' =
           [c \in Chunks |-> IF c \in mine THEN NULL ELSE m_v_chunk_id[c]]
    /\ m_heap' = m_heap \cup mine
    /\ m_per_pg_chunks' = m_per_pg_chunks \ {p}
    /\ m_pg_chunks' = [m_pg_chunks EXCEPT ![p] = NoChunks]
    /\ available_num_chunks' = [available_num_chunks EXCEPT ![p] = 0]
    /\ available_blk_count' = [available_blk_count EXCEPT ![p] = 0]
    /\ UNCHANGED available_blks

-----------------------------------------------------------------------------
(***************************************************************************)
(* Garbage collection.                                                     *)
(***************************************************************************)

\* Mutant: a chunk already in GC state is marked again.
MarksTwice(c, force) == m_state[c] = "INUSE" => force

\* The value try_mark_chunk_to_gc_state(c, force) returns.
can_mark_to_gc(c, force) ==
    m_state[c] # "GC" /\ (m_state[c] = "INUSE" => force)

\* The counters of the collection are left as they are.
try_mark_chunk_to_gc_state(c, force) ==
    /\ m_state' = IF can_mark_to_gc(c, force)
                    THEN [m_state EXCEPT ![c] = "GC"] ELSE m_state
    /\ UNCHANGED <<m_pg_id, m_v_chunk_id, available_blks, m_heap>>
    /\ UNCHANGED pgVars

mark_chunk_out_of_gc_state_asserts(c) == m_state[c] = "GC"

mark_chunk_out_of_gc_state(c, final_state) ==
    /\ m_state' = [m_state EXCEPT ![c] = final_state]
    /\ UNCHANGED <<m_pg_id, m_v_chunk_id, available_blks, m_heap>>
    /\ UNCHANGED pgVars

switch_chunks_for_pg_asserts(p, old, new) ==
    /\ m_v_chunk_id[old] # NULL
    /\ m_pg_id[old] = p
    /\ p \in m_per_pg_chunks
    /\ m_pg_chunks[p][m_v_chunk_id[old]] \in {old, new}


\* available_blk_count is adjusted whatever the state of the v_chunk was
\* before the gc; num chunks is not touched.
switch_chunks_for_pg(p, old, new) ==
    LET v == m_v_chunk_id[old] IN
    /\ IF m_pg_chunks[p][v] = new
         THEN UNCHANGED <<m_pg_chunks, available_blk_count>>
         ELSE /\ m_pg_chunks' = [m_pg_chunks EXCEPT ![p][v] = new]
              /\ available_blk_count' =
                     [available_blk_count EXCEPT
                         ![p] = @ + (available_blks[new] - available_blks[old])]
    /\ UNCHANGED <<m_heap, m_per_pg_chunks, available_num_chunks>>
    /\ UNCHANGED chunkVars

update_vchunk_info_after_gc_asserts(move_from, move_to) ==
    /\ m_state[move_from] = "GC"
    /\ m_state[move_to] = "GC"
    /\ m_pg_id[move_to] = NULL

update_vchunk_info_after_gc(move_from, move_to, final_state, p, v) ==
    /\ m_pg_id' = [m_pg_id EXCEPT ![move_to] = p, ![move_from] = NULL]
    /\ m_v_chunk_id' = [m_v_chunk_id EXCEPT ![move_to] = v, ![move_from] = NULL]
    /\ m_state' = [m_state EXCEPT ![move_to] = final_state]
    /\ UNCHANGED <<available_blks, m_heap>>
    /\ UNCHANGED pgVars

-----------------------------------------------------------------------------
(***************************************************************************)
(* Boot.  One thread runs recover_pg_chunks for every pg superblk,         *)
(* recover_pg_chunks_states for every pg, marks the reserved chunks by     *)
(* force and then builds the heaps; nothing else runs yet.  sb[p] is the   *)
(* chunk list of the pg superblk (NoChunks: there is none) and excluding[p]*)
(* the v_chunks that have an open shard.                                   *)
(***************************************************************************)
recover(sb, excluding, reserved) ==
    LET keys == {p \in PGs : sb[p] # NoChunks}
        Slots(c) == {pv \in keys \X VChunkIds :
                        pv[2] \in VChunksOf(pv[1]) /\ sb[pv[1]][pv[2]] = c}
        slot(c) == CHOOSE pv \in Slots(c) : TRUE
        free(p) == VChunksOf(p) \ excluding[p]
    IN  /\ m_per_pg_chunks' = keys
        /\ m_pg_chunks' = sb
        /\ m_pg_id' =
               [c \in Chunks |-> IF Slots(c) = {} THEN NULL ELSE slot(c)[1]]
        /\ m_v_chunk_id' =
               [c \in Chunks |-> IF Slots(c) = {} THEN NULL ELSE slot(c)[2]]
        /\ m_state' =
               [c \in Chunks |->
                   CASE c \in reserved -> "GC"
                     [] c \notin reserved /\ Slots(c) # {}
                          /\ slot(c)[2] \in excluding[slot(c)[1]] -> "INUSE"
                     [] OTHER -> "AVAILABLE"]
        /\ m_heap' = {c \in Chunks : Slots(c) = {} /\ c \notin reserved}
        /\ available_num_chunks' =
               [p \in PGs |-> IF p \in keys THEN Cardinality(free(p)) ELSE 0]
        /\ available_blk_count' =
               [p \in PGs |-> IF p \in keys
                                THEN BlksOf({sb[p][v] : v \in free(p)}) ELSE 0]

=============================================================================
