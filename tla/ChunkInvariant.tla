--------------------------- MODULE ChunkInvariant ---------------------------
(***************************************************************************)
(* The inductive invariant of ChunkOwnership, for any number of chunks,    *)
(* devices and pgs, with the proofs for the steps that move no chunk.      *)
(*                                                                         *)
(* The invariants of ChunkOwnership are not inductive: that a gc may end   *)
(* with update_vchunk_info_after_gc depends on which chunk still carries   *)
(* the pg_id and v_chunk_id of a v_chunk that was switched, that a chunk   *)
(* taken from a heap is empty depends on what pg_destroy did before, and   *)
(* so on.  IInv adds those facts.                                          *)
(***************************************************************************)
EXTENDS ChunkOwnership, FiniteSetTheorems, TLAPS

\* Exactly the pgs of the selector have chunks, and none of those is in a heap.
SlotsFilled ==
    \A p \in PGs :
       /\ p \notin m_per_pg_chunks => m_pg_chunks[p] = NoChunks
       /\ p \in m_per_pg_chunks => \A v \in VChunksOf(p) :
            m_pg_chunks[p][v] \in Chunks /\ m_pg_chunks[p][v] \notin m_heap

\* A chunk backs at most one v_chunk.
OneSlot ==
    \A p, q \in m_per_pg_chunks :
       \A v \in VChunksOf(p), w \in VChunksOf(q) :
          m_pg_chunks[p][v] = m_pg_chunks[q][w] => p = q /\ v = w

\* A chunk has a v_chunk_id exactly when it has a pg_id.
NullTogether == \A c \in Chunks : m_pg_id[c] = NULL <=> m_v_chunk_id[c] = NULL

\* The pg_id and v_chunk_id of a chunk name a v_chunk that it backs or, when
\* its gc has switched the v_chunk, that another chunk of its device backs,
\* one without pg_id.
NamesSlot(c) ==
    /\ c \notin m_heap
    /\ m_pg_id[c] \in m_per_pg_chunks
    /\ m_v_chunk_id[c] \in VChunksOf(m_pg_id[c])
    /\ pdev_id[m_pg_chunks[m_pg_id[c]][m_v_chunk_id[c]]] = pdev_id[c]
    /\ \/ m_pg_chunks[m_pg_id[c]][m_v_chunk_id[c]] = c
       \/ /\ m_state[c] = "GC"
          /\ m_pg_id[m_pg_chunks[m_pg_id[c]][m_v_chunk_id[c]]] = NULL

NameSlots == \A c \in Chunks : m_pg_id[c] # NULL => NamesSlot(c)

\* No two chunks name the same v_chunk.
OnePointer ==
    \A c, d \in Chunks :
       m_pg_id[c] # NULL /\ m_pg_id[c] = m_pg_id[d]
         /\ m_v_chunk_id[c] = m_v_chunk_id[d] => c = d

Pointers == NullTogether /\ NameSlots /\ OnePointer

\* BackPointers for one v_chunk.
PointsBack(p, v) ==
    \/ m_pg_id[m_pg_chunks[p][v]] = p /\ m_v_chunk_id[m_pg_chunks[p][v]] = v
    \/ /\ m_state[m_pg_chunks[p][v]] = "GC" /\ m_pg_id[m_pg_chunks[p][v]] = NULL
       /\ \E old \in Chunks : /\ m_pg_id[old] = p /\ m_v_chunk_id[old] = v
                              /\ m_state[old] = "GC"

\* Outside heaps and pgs every chunk is in GC state.
ReservedAreGC == \A c \in Chunks : ReservedChunk(c) => m_state[c] = "GC"

\* The chunk of a v_chunk is in GC state exactly while a task works on it.
TasksMatch ==
    \A p \in PGs : \A v \in VChunksOf(p) :
       IF p \in m_per_pg_chunks
         THEN m_state[m_pg_chunks[p][v]] = "GC" <=> gc_priority[p][v] # NULL
         ELSE gc_priority[p][v] = NULL

\* From reset_pg_chunks on the chunks of the pg stay empty and free of gc.
ResetClean ==
    \A p \in reset_pgs : \A v \in VChunksOf(p) :
       /\ available_blks[m_pg_chunks[p][v]] = TotalBlks
       /\ gc_priority[p][v] = NULL

IInv ==
    /\ TypeOK
    /\ SlotsFilled
    /\ OneSlot
    /\ BackPointers
    /\ HeapIsFresh
    /\ PGOnOnePDev
    /\ Pointers
    /\ ReservedAreGC
    /\ TasksMatch
    /\ ResetClean

-----------------------------------------------------------------------------
\* A pg has v_chunk 0, and its v_chunks are v_chunk ids.
LEMMA VChunkFacts ==
    ASSUME NEW p \in PGs
    PROVE  /\ 0 \in VChunksOf(p)
           /\ VChunksOf(p) \subseteq VChunkIds
           /\ \A v \in VChunksOf(p) : v # NULL
BY SelectorAssumption DEF VChunksOf, VChunkIds

\* The first start satisfies the inductive invariant.
LEMMA InitIInv == Init => IInv
<1> SUFFICES ASSUME Init PROVE IInv
  OBVIOUS
<1> USE DEF Init
<1>1. TypeOK
  BY SelectorAssumption DEF TypeOK, ChunkState, NoChunks, NoTask
<1>2. SlotsFilled /\ OneSlot /\ BackPointers /\ PGOnOnePDev
  BY DEF SlotsFilled, OneSlot, BackPointers, PGOnOnePDev
<1>3. HeapIsFresh /\ Pointers /\ ReservedAreGC
  BY SelectorAssumption DEF HeapIsFresh, Pointers, NullTogether, NameSlots,
                            NamesSlot, OnePointer, ReservedAreGC, ReservedChunk
<1>4. TasksMatch /\ ResetClean
  BY VChunkFacts DEF TasksMatch, ResetClean, NoTask
<1> QED BY <1>1, <1>2, <1>3, <1>4 DEF IInv

\* Nothing the invariant speaks of changes.
LEMMA CountsOnly ==
    ASSUME IInv,
           available_num_chunks' \in [PGs -> Int],
           DOMAIN available_blk_count' = PGs,
           UNCHANGED <<m_state, m_pg_id, m_v_chunk_id, available_blks, m_heap,
                       m_per_pg_chunks, m_pg_chunks, gc_priority, reset_pgs>>
    PROVE  IInv'
<1> USE DEF IInv
<1>1. TypeOK'
  BY DEF TypeOK
<1>2. SlotsFilled' /\ OneSlot' /\ BackPointers' /\ PGOnOnePDev'
  BY DEF SlotsFilled, OneSlot, BackPointers, PGOnOnePDev
<1>3. HeapIsFresh' /\ Pointers' /\ ReservedAreGC'
  BY DEF HeapIsFresh, Pointers, NullTogether, NameSlots, NamesSlot,
         OnePointer, ReservedAreGC, ReservedChunk
<1>4. TasksMatch' /\ ResetClean'
  BY DEF TasksMatch, ResetClean
<1> QED BY <1>1, <1>2, <1>3, <1>4

\* Selecting or releasing a chunk: only the state of chunks that back a
\* v_chunk and are not in GC state changes, and not to GC state.
LEMMA StateOnly ==
    ASSUME IInv,
           m_state' \in [Chunks -> ChunkState],
           available_num_chunks' \in [PGs -> Int],
           DOMAIN available_blk_count' = PGs,
           NEW p \in m_per_pg_chunks, NEW v \in VChunksOf(p),
           \A c \in Chunks : m_state'[c] # m_state[c] =>
              /\ c = m_pg_chunks[p][v]
              /\ m_state[c] # "GC" /\ m_state'[c] # "GC",
           UNCHANGED <<m_pg_id, m_v_chunk_id, available_blks, m_heap,
                       m_per_pg_chunks, m_pg_chunks, gc_priority, reset_pgs>>
    PROVE  IInv'
<1> USE DEF IInv
<1> p \in PGs BY DEF TypeOK
<1>1. TypeOK'
  BY DEF TypeOK
<1>2. SlotsFilled' /\ OneSlot' /\ PGOnOnePDev' /\ ResetClean'
  BY DEF SlotsFilled, OneSlot, PGOnOnePDev, ResetClean
<1>3. \A c \in Chunks : m_state[c] = "GC" <=> m_state'[c] = "GC"
  OBVIOUS
<1>4. \A c \in m_heap : m_state'[c] = m_state[c]
  BY DEF SlotsFilled, TypeOK
<1>5. BackPointers'
  BY <1>3 DEF BackPointers, SlotsFilled, TypeOK
<1>6. HeapIsFresh'
  BY <1>4 DEF HeapIsFresh
<1>7. Pointers'
  BY <1>3 DEF Pointers, NullTogether, NameSlots, NamesSlot, OnePointer
<1>8. ReservedAreGC'
  BY <1>3 DEF ReservedAreGC, ReservedChunk
<1>9. TasksMatch'
  BY <1>3 DEF TasksMatch, SlotsFilled
<1> QED BY <1>1, <1>2, <1>5, <1>6, <1>7, <1>8, <1>9

\* What selecting a chunk does to the selector.
LEMMA TakeKeepsIInv ==
    ASSUME IInv, NEW p \in m_per_pg_chunks, NEW v \in VChunksOf(p),
           is_chunk_available(p, v),
           TakeChunk(p, v),
           UNCHANGED <<m_pg_id, m_v_chunk_id, available_blks, m_heap,
                       m_per_pg_chunks, m_pg_chunks, gc_priority, reset_pgs>>
    PROVE  IInv'
<1> DEFINE c == m_pg_chunks[p][v]
<1>1. p \in PGs /\ c \in Chunks
  BY DEF IInv, TypeOK, SlotsFilled
<1>2. /\ m_state' = [m_state EXCEPT ![c] = "INUSE"]
      /\ m_state[c] = "AVAILABLE"
      /\ available_num_chunks' \in [PGs -> Int]
      /\ DOMAIN available_blk_count' = PGs
  BY <1>1 DEF TakeChunk, is_chunk_available, get_pg_vchunk, IInv, TypeOK
<1>3. /\ m_state' \in [Chunks -> ChunkState]
      /\ \A d \in Chunks : m_state'[d] # m_state[d] =>
           d = c /\ m_state[d] # "GC" /\ m_state'[d] # "GC"
  BY <1>1, <1>2 DEF IInv, TypeOK, ChunkState
<1> QED BY <1>2, <1>3, StateOnly

\* The leader of a create_shard takes an AVAILABLE chunk of the pg.
LEMMA ProposeShardIInv ==
    ASSUME IInv, NEW p \in PGs, NEW v \in VChunkIds, ProposeShard(p, v)
    PROVE  IInv'
BY TakeKeepsIInv DEF ProposeShard, get_most_available_blk_chunk, MostAvailable

\* select_specific_chunk takes an AVAILABLE chunk or leaves an INUSE one.
LEMMA SelectChunkIInv ==
    ASSUME IInv, NEW p \in PGs, NEW v \in VChunkIds, SelectChunk(p, v)
    PROVE  IInv'
<1>1. CASE is_chunk_available(p, v)
  BY <1>1, TakeKeepsIInv DEF SelectChunk, select_specific_chunk, HasVChunk
<1>2. CASE ~is_chunk_available(p, v)
  BY <1>2, StateOnly DEF SelectChunk, select_specific_chunk, HasVChunk, IInv,
                         TypeOK
<1> QED BY <1>1, <1>2

\* release_chunk only touches a chunk that is INUSE.
LEMMA ReleaseChunkIInv ==
    ASSUME IInv, NEW p \in PGs, NEW v \in VChunkIds, ReleaseChunk(p, v)
    PROVE  IInv'
<1> DEFINE c == m_pg_chunks[p][v]
<1>1. /\ p \in m_per_pg_chunks /\ v \in VChunksOf(p) /\ c \in Chunks
      /\ UNCHANGED <<m_pg_id, m_v_chunk_id, available_blks, m_heap,
                     m_per_pg_chunks, m_pg_chunks, gc_priority, reset_pgs>>
  BY DEF ReleaseChunk, release_chunk, HasVChunk, IInv, SlotsFilled
<1>2. /\ m_state' = IF m_state[c] = "INUSE"
                      THEN [m_state EXCEPT ![c] = "AVAILABLE"] ELSE m_state
      /\ available_num_chunks' \in [PGs -> Int]
      /\ DOMAIN available_blk_count' = PGs
  BY <1>1 DEF ReleaseChunk, release_chunk, get_pg_vchunk, IInv, TypeOK
<1>3. /\ m_state' \in [Chunks -> ChunkState]
      /\ \A d \in Chunks : m_state'[d] # m_state[d] =>
           d = c /\ m_state[d] # "GC" /\ m_state'[d] # "GC"
  BY <1>1, <1>2 DEF IInv, TypeOK, ChunkState
<1> QED BY <1>1, <1>2, <1>3, StateOnly

\* Blks are taken from, or data is copied to, a chunk that is in no heap and
\* backs no v_chunk of a reset pg.
LEMMA BlksOnly ==
    ASSUME IInv, NEW c \in Chunks, c \notin m_heap,
           \A p \in reset_pgs : \A v \in VChunksOf(p) : m_pg_chunks[p][v] # c,
           available_blks' \in [Chunks -> 0 .. TotalBlks],
           \A d \in Chunks : d # c => available_blks'[d] = available_blks[d],
           UNCHANGED <<m_state, m_pg_id, m_v_chunk_id, m_heap, gc_priority,
                       reset_pgs>>,
           UNCHANGED pgVars
    PROVE  IInv'
<1> USE DEF IInv, pgVars
<1>1. TypeOK'
  BY DEF TypeOK
<1>2. SlotsFilled' /\ OneSlot' /\ BackPointers' /\ PGOnOnePDev'
  BY DEF SlotsFilled, OneSlot, BackPointers, PGOnOnePDev
<1>3. Pointers' /\ ReservedAreGC' /\ TasksMatch'
  BY SMTT(30) DEF Pointers, NullTogether, NameSlots, NamesSlot, OnePointer,
         ReservedAreGC, ReservedChunk, TasksMatch
<1>4. HeapIsFresh'
  BY DEF HeapIsFresh, TypeOK
<1>5. ResetClean'
  BY DEF ResetClean, SlotsFilled, TypeOK
<1> QED BY <1>1, <1>2, <1>3, <1>4, <1>5

\* A put takes blks of a chunk that backs a v_chunk of a pg not yet reset.
LEMMA AllocBlkIInv ==
    ASSUME IInv, NEW p \in PGs, NEW v \in VChunkIds, AllocBlk(p, v)
    PROVE  IInv'
<1> DEFINE c == m_pg_chunks[p][v]
<1>1. /\ p \in m_per_pg_chunks /\ v \in VChunksOf(p) /\ p \notin reset_pgs
      /\ c \in Chunks /\ c \notin m_heap
  BY DEF AllocBlk, HasVChunk, Live, IInv, SlotsFilled
<1>2. \A q \in reset_pgs : \A w \in VChunksOf(q) : m_pg_chunks[q][w] # c
  BY <1>1 DEF IInv, OneSlot, TypeOK
<1>3. /\ available_blks' = [available_blks EXCEPT ![c] = @ - 1]
      /\ available_blks[c] > 0
  BY DEF AllocBlk, get_pg_vchunk
<1>4. available_blks' \in [Chunks -> 0 .. TotalBlks]
  BY <1>1, <1>3, SelectorAssumption DEF IInv, TypeOK
<1>5. \A d \in Chunks : d # c => available_blks'[d] = available_blks[d]
  BY <1>1, <1>3 DEF IInv, TypeOK
<1> QED BY <1>1, <1>2, <1>4, <1>5, BlksOnly DEF AllocBlk

\* The gc writes only to a chunk that is in no heap and backs no v_chunk.
LEMMA FillReservedIInv ==
    ASSUME IInv, NEW c \in Chunks, NEW n \in 0 .. TotalBlks, FillReserved(c, n)
    PROVE  IInv'
<1>1. c \notin m_heap /\ c \notin MappedChunks
  BY DEF FillReserved, ReservedChunk
<1>2. \A p \in reset_pgs : \A v \in VChunksOf(p) : m_pg_chunks[p][v] # c
  BY <1>1 DEF MappedChunks, ChunksOfPG, IInv, TypeOK
<1>3. /\ available_blks' \in [Chunks -> 0 .. TotalBlks]
      /\ \A d \in Chunks : d # c => available_blks'[d] = available_blks[d]
  BY DEF FillReserved, IInv, TypeOK
<1> QED BY <1>1, <1>2, <1>3, BlksOnly DEF FillReserved
=============================================================================
